------------------------ MODULE CDROMAsyncReaderProof ------------------------
(***************************************************************************)
(* The asynchronous CD-ROM reader, proved for every disc, every size of    *)
(* the readahead and every set of requested sectors, for the emulation     *)
(* thread that SerialClient describes.  IInv is inductive: each of its     *)
(* parts is preserved by every step, one lemma per part, from the parts    *)
(* it needs.                                                               *)
(***************************************************************************)
EXTENDS CDROMAsyncReaderInv, TLAPS

USE ReadaheadAssumption, DiscAssumption, ModulusAssumption, ClientAssumption
USE DEF mainVars, workerVars, discVars, flagVars, ringVars, clientVars

-----------------------------------------------------------------------------
(* Types. *)

\* Seeking leaves the position on the disc or at its end.
LEMMA SeekType ==
  \A lba, p : p \in Positions => Seek(lba, p) \in Positions
BY DEF Seek, Positions, DiscLBAs

\* A raw read reports success or failure and never moves the position past
\* the end of the disc (AfterRawRead).
LEMMA ReadType ==
  \A p \in Positions : \A ok \in ReadRawSectorOK(p) :
     ok \in BOOLEAN /\ AfterRawRead(p, ok) \in Positions
<1> SUFFICES ASSUME NEW p \in Positions, NEW ok \in ReadRawSectorOK(p)
             PROVE  ok \in BOOLEAN /\ AfterRawRead(p, ok) \in Positions
  OBVIOUS
<1>1. ok \in BOOLEAN /\ (ok => p \in DiscLBAs) BY Zenon DEF ReadRawSectorOK
<1>2. p \in DiscLBAs => p + 1 \in Positions BY DEF Positions, DiscLBAs
<1> QED BY <1>1, <1>2 DEF AfterRawRead

\* The (i + 1) % size of the ring code stays inside the ring.
LEMMA NextSlotType ==
  ASSUME DataTypeOK
  PROVE  \A i \in 0 .. size - 1 : NextSlot(i) \in 0 .. size - 1 /\ NextSlot(i) \in Slots
BY DEF DataTypeOK, NextSlot, Slots

\* No step gives a flag of the reader a value other than true or false.
LEMMA FlagsTypeStep ==
  ASSUME FlagsTypeOK, SerialClient, [Next]_vars
  PROVE  FlagsTypeOK'
<1> USE DEF FlagsTypeOK
<1>1. CASE MainCall
  <2>1. CASE \E lba \in RequestLBAs : QueueNonThreaded(lba)
    BY <2>1 DEF QueueNonThreaded, MayStart
  <2>2. CASE \E lba \in RequestLBAs : QueueReadSector(lba)
    BY <2>2 DEF QueueReadSector, MayStart
  <2>3. CASE \E lba \in RequestLBAs : UncachedNonThreaded(lba)
    BY <2>3 DEF UncachedNonThreaded
  <2>4. CASE \E lba \in RequestLBAs : ReadSectorUncached(lba)
    BY <2>4 DEF ReadSectorUncached
  <2>5. CASE WaitForReadToComplete
    BY <2>5 DEF WaitForReadToComplete, PositionRequested
  <2>6. CASE \E op \in {"insert", "remove"} : ChangeMedia(op)
    BY <2>6 DEF ChangeMedia, MayStart, ForgetRequest
  <2>7. CASE StartThread
    BY <2>7 DEF StartThread, MayStart, LaunchThread, EmptyBuffers, ForgetRequest
  <2>8. CASE \E op \in {"stop", "restart"} : StopThread(op)
    BY <2>8 DEF StopThread, MayStart, ForgetRequest
  <2> QED BY <1>1, <2>1, <2>2, <2>3, <2>4, <2>5, <2>6, <2>7, <2>8 DEF MainCall
<1>2. CASE MainStep
  <2>1. CASE QueueCompareFront
    BY <2>1 DEF QueueCompareFront
  <2>2. CASE QueueCompareNext
    BY <2>2 DEF QueueCompareNext, MainGoto
  <2>3. CASE QueueAdvance
    BY <2>3 DEF QueueAdvance
  <2>4. CASE QueueSub
    BY <2>4 DEF QueueSub
  <2>5. CASE QueueKick
    BY <2>5 DEF QueueKick, NotifyDoRead
  <2>6. CASE QueueNewPosition
    BY <2>6 DEF QueueNewPosition, NotifyDoRead
  <2>7. CASE WaitLoadCount
    BY <2>7 DEF WaitLoadCount, MainGoto
  <2>8. CASE WaitFastReturn
    BY <2>8 DEF WaitFastReturn
  <2>9. CASE WaitBlock
    BY <2>9 DEF WaitBlock, MainGoto, ReadCompleted
  <2>10. CASE WaitReturn
    BY <2>10 DEF WaitReturn, ReadCompleted
  <2>11. CASE UncachedBlock
    BY <2>11 DEF UncachedBlock, MainGoto, ReadThreadIdle
  <2>12. CASE UncachedRead
    BY <2>12 DEF UncachedRead, ReadThreadIdle
  <2>13. CASE CancelBlock
    BY <2>13 DEF CancelBlock, MainGoto, ReadThreadIdle
  <2>14. CASE CancelReadahead
    BY <2>14 DEF CancelReadahead, EmptyBuffers, ReadThreadIdle
  <2>15. CASE MoveMedia
    BY <2>15 DEF MoveMedia
  <2>16. CASE StopSignal
    BY <2>16 DEF StopSignal, NotifyDoRead
  <2>17. CASE StopJoin
    BY <2>17 DEF StopJoin, LaunchThread, EmptyBuffers
  <2> QED BY <1>2, <2>1, <2>2, <2>3, <2>4, <2>5, <2>6, <2>7, <2>8, <2>9, <2>10, <2>11, <2>12, <2>13, <2>14, <2>15, <2>16, <2>17 DEF MainStep
<1>3. CASE WorkerStep
  <2>1. CASE WorkerLock
    BY <2>1 DEF WorkerLock, WorkerGoto
  <2>2. CASE WorkerCheck
    BY <2>2 DEF WorkerCheck, WorkerGoto
  <2>3. CASE WorkerSleep
    BY <2>3 DEF WorkerSleep, WorkerGoto
  <2>4. CASE WorkerEmptyRing
    BY <2>4 DEF WorkerEmptyRing
  <2>5. CASE WorkerEmptyCount
    BY <2>5 DEF WorkerEmptyCount
  <2>6. CASE WorkerBeginSeek
    BY <2>6 DEF WorkerBeginSeek
  <2>7. CASE WorkerSeek
    BY <2>7 DEF WorkerSeek
  <2>8. CASE WorkerEndSeek
    BY <2>8 DEF WorkerEndSeek, AfterSeekError, NotifyReadComplete
  <2>9. CASE WorkerBeginRead
    BY <2>9 DEF WorkerBeginRead, HasSpace
  <2>10. CASE WorkerStopReadahead
    BY <2>10 DEF WorkerStopReadahead, HasSpace, WorkerGoto
  <2>11. CASE WorkerRead
    BY <2>11 DEF WorkerRead
  <2>12. CASE WorkerEndRead
    BY <2>12 DEF WorkerEndRead, NotifyReadComplete
  <2>13. CASE WorkerEndReadahead
    BY <2>13 DEF WorkerEndReadahead
  <2> QED BY <1>3, <2>1, <2>2, <2>3, <2>4, <2>5, <2>6, <2>7, <2>8, <2>9, <2>10, <2>11, <2>12, <2>13 DEF WorkerStep
<1>4. CASE SpuriousWakeup
  BY <1>4 DEF SpuriousWakeup, NotifyDoRead, NotifyReadComplete
<1>5. CASE UNCHANGED vars
  BY <1>5 DEF vars
<1> QED BY <1>1, <1>2, <1>3, <1>4, <1>5 DEF Next

\* Both threads stay inside their code.
LEMMA PCsTypeStep ==
  ASSUME PCsTypeOK, SerialClient, [Next]_vars
  PROVE  PCsTypeOK'
<1> USE DEF PCsTypeOK
<1>1. CASE MainCall
  <2>1. CASE \E lba \in RequestLBAs : QueueNonThreaded(lba)
    BY <2>1 DEF QueueNonThreaded, MayStart, MainPCs
  <2>2. CASE \E lba \in RequestLBAs : QueueReadSector(lba)
    BY <2>2 DEF QueueReadSector, MayStart, MainPCs
  <2>3. CASE \E lba \in RequestLBAs : UncachedNonThreaded(lba)
    BY <2>3 DEF UncachedNonThreaded, MainPCs
  <2>4. CASE \E lba \in RequestLBAs : ReadSectorUncached(lba)
    BY <2>4 DEF ReadSectorUncached, MainPCs
  <2>5. CASE WaitForReadToComplete
    BY <2>5 DEF WaitForReadToComplete, PositionRequested, MainPCs
  <2>6. CASE \E op \in {"insert", "remove"} : ChangeMedia(op)
    BY <2>6 DEF ChangeMedia, MayStart, ForgetRequest, MainPCs
  <2>7. CASE StartThread
    BY <2>7 DEF StartThread, MayStart, LaunchThread, EmptyBuffers, ForgetRequest, MainPCs, WorkerPCs
  <2>8. CASE \E op \in {"stop", "restart"} : StopThread(op)
    BY <2>8 DEF StopThread, MayStart, ForgetRequest, MainPCs
  <2> QED BY <1>1, <2>1, <2>2, <2>3, <2>4, <2>5, <2>6, <2>7, <2>8 DEF MainCall
<1>2. CASE MainStep
  <2>1. CASE QueueCompareFront
    BY <2>1 DEF QueueCompareFront, MainPCs
  <2>2. CASE QueueCompareNext
    BY <2>2 DEF QueueCompareNext, MainGoto, MainPCs
  <2>3. CASE QueueAdvance
    BY <2>3 DEF QueueAdvance, MainPCs
  <2>4. CASE QueueSub
    BY <2>4 DEF QueueSub, MainPCs
  <2>5. CASE QueueKick
    BY <2>5 DEF QueueKick, NotifyDoRead, MainPCs, WorkerPCs
  <2>6. CASE QueueNewPosition
    BY <2>6 DEF QueueNewPosition, NotifyDoRead, MainPCs, WorkerPCs
  <2>7. CASE WaitLoadCount
    BY <2>7 DEF WaitLoadCount, MainGoto, MainPCs
  <2>8. CASE WaitFastReturn
    BY <2>8 DEF WaitFastReturn, MainPCs
  <2>9. CASE WaitBlock
    BY <2>9 DEF WaitBlock, MainGoto, ReadCompleted, MainPCs
  <2>10. CASE WaitReturn
    BY <2>10 DEF WaitReturn, ReadCompleted, MainPCs
  <2>11. CASE UncachedBlock
    BY <2>11 DEF UncachedBlock, MainGoto, ReadThreadIdle, MainPCs
  <2>12. CASE UncachedRead
    BY <2>12 DEF UncachedRead, ReadThreadIdle, MainPCs
  <2>13. CASE CancelBlock
    BY <2>13 DEF CancelBlock, MainGoto, ReadThreadIdle, MainPCs
  <2>14. CASE CancelReadahead
    BY <2>14 DEF CancelReadahead, EmptyBuffers, ReadThreadIdle, MainPCs
  <2>15. CASE MoveMedia
    BY <2>15 DEF MoveMedia, MainPCs
  <2>16. CASE StopSignal
    BY <2>16 DEF StopSignal, NotifyDoRead, MainPCs, WorkerPCs
  <2>17. CASE StopJoin
    BY <2>17 DEF StopJoin, LaunchThread, EmptyBuffers, MainPCs, WorkerPCs
  <2> QED BY <1>2, <2>1, <2>2, <2>3, <2>4, <2>5, <2>6, <2>7, <2>8, <2>9, <2>10, <2>11, <2>12, <2>13, <2>14, <2>15, <2>16, <2>17 DEF MainStep
<1>3. CASE WorkerStep
  <2>1. CASE WorkerLock
    BY <2>1 DEF WorkerLock, WorkerGoto, WorkerPCs
  <2>2. CASE WorkerCheck
    BY <2>2 DEF WorkerCheck, WorkerGoto, WorkerPCs
  <2>3. CASE WorkerSleep
    BY <2>3 DEF WorkerSleep, WorkerGoto, WorkerPCs
  <2>4. CASE WorkerEmptyRing
    BY <2>4 DEF WorkerEmptyRing, WorkerPCs
  <2>5. CASE WorkerEmptyCount
    BY <2>5 DEF WorkerEmptyCount, WorkerPCs
  <2>6. CASE WorkerBeginSeek
    BY <2>6 DEF WorkerBeginSeek, WorkerPCs
  <2>7. CASE WorkerSeek
    BY <2>7 DEF WorkerSeek, WorkerPCs
  <2>8. CASE WorkerEndSeek
    BY <2>8 DEF WorkerEndSeek, AfterSeekError, NotifyReadComplete, MainPCs, WorkerPCs
  <2>9. CASE WorkerBeginRead
    BY <2>9 DEF WorkerBeginRead, HasSpace, WorkerPCs
  <2>10. CASE WorkerStopReadahead
    BY <2>10 DEF WorkerStopReadahead, HasSpace, WorkerGoto, WorkerPCs
  <2>11. CASE WorkerRead
    BY <2>11 DEF WorkerRead, WorkerPCs
  <2>12. CASE WorkerEndRead
    BY <2>12 DEF WorkerEndRead, NotifyReadComplete, MainPCs, WorkerPCs
  <2>13. CASE WorkerEndReadahead
    BY <2>13 DEF WorkerEndReadahead, WorkerPCs
  <2> QED BY <1>3, <2>1, <2>2, <2>3, <2>4, <2>5, <2>6, <2>7, <2>8, <2>9, <2>10, <2>11, <2>12, <2>13 DEF WorkerStep
<1>4. CASE SpuriousWakeup
  BY <1>4 DEF SpuriousWakeup, NotifyDoRead, NotifyReadComplete, MainPCs, WorkerPCs
<1>5. CASE UNCHANGED vars
  BY <1>5 DEF vars
<1> QED BY <1>1, <1>2, <1>3, <1>4, <1>5 DEF Next

\* Positions stay on the disc, indices inside m_buffers, the count a uint32_t.
LEMMA DataTypeStep ==
  ASSUME PCsTypeOK, DataTypeOK, ThreadInv, RingInv, SerialClient, [Next]_vars
  PROVE  DataTypeOK'
<1> USE DEF DataTypeOK
<1>1. CASE MainCall
  <2>1. CASE \E lba \in RequestLBAs : QueueNonThreaded(lba)
    <3>1. PICK lba \in RequestLBAs : QueueNonThreaded(lba) BY <2>1
    <3>2. pos' \in Positions
      BY <3>1, SeekType, ReadType DEF QueueNonThreaded
    <3>3. count' \in 0 .. CountModulus - 1 BY <3>1 DEF QueueNonThreaded
    <3>4. {front', back', mfront', wslot'} \subseteq Slots /\ size' \in 0 .. ReadaheadCount
      BY <3>1 DEF QueueNonThreaded, Slots
    <3>5. requested' \in LBAs BY <3>1 DEF QueueNonThreaded, LBAs
    <3> QED BY <3>1, <3>2, <3>3, <3>4, <3>5 DEF QueueNonThreaded
  <2>2. CASE \E lba \in RequestLBAs : QueueReadSector(lba)
    BY <2>2 DEF QueueReadSector, MayStart, LBAs
  <2>3. CASE \E lba \in RequestLBAs : UncachedNonThreaded(lba)
    <3>1. pos' \in Positions BY <2>3, SeekType, ReadType DEF UncachedNonThreaded
    <3> QED BY <2>3, <3>1 DEF UncachedNonThreaded
  <2>4. CASE \E lba \in RequestLBAs : ReadSectorUncached(lba)
    BY <2>4 DEF ReadSectorUncached, LBAs
  <2>5. CASE WaitForReadToComplete
    BY <2>5 DEF WaitForReadToComplete, PositionRequested
  <2>6. CASE \E op \in {"insert", "remove"} : ChangeMedia(op)
    BY <2>6 DEF ChangeMedia, MayStart, ForgetRequest
  <2>7. CASE StartThread
    BY <2>7 DEF StartThread, MayStart, LaunchThread, EmptyBuffers, ForgetRequest, Slots
  <2>8. CASE \E op \in {"stop", "restart"} : StopThread(op)
    BY <2>8 DEF StopThread, MayStart, ForgetRequest
  <2> QED BY <1>1, <2>1, <2>2, <2>3, <2>4, <2>5, <2>6, <2>7, <2>8 DEF MainCall
<1>2. CASE MainStep
  <2>1. CASE QueueCompareFront
    BY <2>1 DEF QueueCompareFront
  <2>2. CASE QueueCompareNext
    BY <2>2 DEF QueueCompareNext, MainGoto
  <2>3. CASE QueueAdvance
    <3>1. mfront \in 0 .. size - 1 BY <2>3 DEF QueueAdvance, RingInv, ThreadInv, QueuePCs, Slots
    <3>2. front' \in Slots BY <2>3, <3>1, NextSlotType DEF QueueAdvance
    <3> QED BY <2>3, <3>2 DEF QueueAdvance
  <2>4. CASE QueueSub
    BY <2>4 DEF QueueSub, CountDown
  <2>5. CASE QueueKick
    BY <2>5 DEF QueueKick, NotifyDoRead
  <2>6. CASE QueueNewPosition
    BY <2>6 DEF QueueNewPosition, NotifyDoRead
  <2>7. CASE WaitLoadCount
    BY <2>7 DEF WaitLoadCount, MainGoto
  <2>8. CASE WaitFastReturn
    BY <2>8 DEF WaitFastReturn
  <2>9. CASE WaitBlock
    BY <2>9 DEF WaitBlock, MainGoto, ReadCompleted
  <2>10. CASE WaitReturn
    BY <2>10 DEF WaitReturn, ReadCompleted
  <2>11. CASE UncachedBlock
    BY <2>11 DEF UncachedBlock, MainGoto, ReadThreadIdle
  <2>12. CASE UncachedRead
    <3>1. pos' \in Positions BY <2>12, SeekType, ReadType DEF UncachedRead
    <3> QED BY <2>12, <3>1 DEF UncachedRead
  <2>13. CASE CancelBlock
    BY <2>13 DEF CancelBlock, MainGoto, ReadThreadIdle
  <2>14. CASE CancelReadahead
    BY <2>14 DEF CancelReadahead, EmptyBuffers, ReadThreadIdle, Slots
  <2>15. CASE MoveMedia
    BY <2>15 DEF MoveMedia, Positions
  <2>16. CASE StopSignal
    BY <2>16 DEF StopSignal, NotifyDoRead
  <2>17. CASE StopJoin
    BY <2>17 DEF StopJoin, LaunchThread, EmptyBuffers, Slots
  <2> QED BY <1>2, <2>1, <2>2, <2>3, <2>4, <2>5, <2>6, <2>7, <2>8, <2>9, <2>10, <2>11, <2>12, <2>13, <2>14, <2>15, <2>16, <2>17 DEF MainStep
<1>3. CASE WorkerStep
  <2>1. CASE WorkerLock
    BY <2>1 DEF WorkerLock, WorkerGoto
  <2>2. CASE WorkerCheck
    BY <2>2 DEF WorkerCheck, WorkerGoto
  <2>3. CASE WorkerSleep
    BY <2>3 DEF WorkerSleep, WorkerGoto
  <2>4. CASE WorkerEmptyRing
    BY <2>4 DEF WorkerEmptyRing, Slots
  <2>5. CASE WorkerEmptyCount
    BY <2>5 DEF WorkerEmptyCount
  <2>6. CASE WorkerBeginSeek
    BY <2>6 DEF WorkerBeginSeek
  <2>7. CASE WorkerSeek
    <3>1. pos' \in Positions BY <2>7, SeekType DEF WorkerSeek
    <3> QED BY <2>7, <3>1 DEF WorkerSeek
  <2>8. CASE WorkerEndSeek
    BY <2>8 DEF WorkerEndSeek, AfterSeekError, NotifyReadComplete
  <2>9. CASE WorkerBeginRead
    <3>1. back \in 0 .. size - 1 BY <2>9 DEF WorkerBeginRead, RingInv, ThreadInv, Slots
    <3>2. back' \in Slots BY <2>9, <3>1, NextSlotType DEF WorkerBeginRead
    <3> QED BY <2>9, <3>2 DEF WorkerBeginRead
  <2>10. CASE WorkerStopReadahead
    BY <2>10 DEF WorkerStopReadahead, HasSpace, WorkerGoto
  <2>11. CASE WorkerRead
    <3>1. pos' \in Positions BY <2>11, ReadType DEF WorkerRead
    <3> QED BY <2>11, <3>1 DEF WorkerRead
  <2>12. CASE WorkerEndRead
    BY <2>12 DEF WorkerEndRead, NotifyReadComplete, CountUp
  <2>13. CASE WorkerEndReadahead
    BY <2>13 DEF WorkerEndReadahead
  <2> QED BY <1>3, <2>1, <2>2, <2>3, <2>4, <2>5, <2>6, <2>7, <2>8, <2>9, <2>10, <2>11, <2>12, <2>13 DEF WorkerStep
<1>4. CASE SpuriousWakeup
  BY <1>4 DEF SpuriousWakeup, NotifyDoRead, NotifyReadComplete
<1>5. CASE UNCHANGED vars
  BY <1>5 DEF vars
<1> QED BY <1>1, <1>2, <1>3, <1>4, <1>5 DEF Next

\* What Seek, the read thread and StartThread write are sector buffers.
LEMMA BufferTypeStep ==
  ASSUME DataTypeOK, BufferTypeOK, RingInv, SerialClient, [Next]_vars
  PROVE  BufferTypeOK'
<1> USE DEF DataTypeOK, BufferTypeOK
<1>1. CASE MainCall
  <2>1. CASE \E lba \in RequestLBAs : QueueNonThreaded(lba)
    <3>1. PICK lba \in RequestLBAs : QueueNonThreaded(lba) BY <2>1
    <3>2. CASE UNCHANGED buffers BY <3>1, <3>2 DEF QueueNonThreaded
    <3>3. CASE \E ok \in ReadRawSectorOK(Seek(lba, pos)) : buffers' = [buffers EXCEPT ![0] =
             [lba |-> Seek(lba, pos), data |-> IF ok THEN Seek(lba, pos) ELSE NoLBA, ok |-> ok]]
      <4>1. \A ok \in ReadRawSectorOK(Seek(lba, pos)) :
               [lba |-> Seek(lba, pos), data |-> IF ok THEN Seek(lba, pos) ELSE NoLBA, ok |-> ok] \in SlotRecord
        BY SeekType, ReadType DEF SlotRecord, LBAs
      <4> QED BY <3>1, <3>3, <4>1 DEF QueueNonThreaded, SlotBuffers
    <3> QED BY <3>1, <3>2, <3>3 DEF QueueNonThreaded
  <2>2. CASE \E lba \in RequestLBAs : QueueReadSector(lba)
    BY <2>2 DEF QueueReadSector, MayStart
  <2>3. CASE \E lba \in RequestLBAs : UncachedNonThreaded(lba)
    BY <2>3 DEF UncachedNonThreaded
  <2>4. CASE \E lba \in RequestLBAs : ReadSectorUncached(lba)
    BY <2>4 DEF ReadSectorUncached
  <2>5. CASE WaitForReadToComplete
    BY <2>5 DEF WaitForReadToComplete, PositionRequested
  <2>6. CASE \E op \in {"insert", "remove"} : ChangeMedia(op)
    BY <2>6 DEF ChangeMedia, MayStart, ForgetRequest
  <2>7. CASE StartThread
    BY <2>7 DEF StartThread, MayStart, LaunchThread, EmptyBuffers, ForgetRequest, SlotBuffers, EmptySlot, LBAs, Positions, SlotRecord
  <2>8. CASE \E op \in {"stop", "restart"} : StopThread(op)
    BY <2>8 DEF StopThread, MayStart, ForgetRequest
  <2> QED BY <1>1, <2>1, <2>2, <2>3, <2>4, <2>5, <2>6, <2>7, <2>8 DEF MainCall
<1>2. CASE MainStep
  <2>1. CASE QueueCompareFront
    BY <2>1 DEF QueueCompareFront
  <2>2. CASE QueueCompareNext
    BY <2>2 DEF QueueCompareNext, MainGoto
  <2>3. CASE QueueAdvance
    BY <2>3 DEF QueueAdvance
  <2>4. CASE QueueSub
    BY <2>4 DEF QueueSub
  <2>5. CASE QueueKick
    BY <2>5 DEF QueueKick, NotifyDoRead
  <2>6. CASE QueueNewPosition
    BY <2>6 DEF QueueNewPosition, NotifyDoRead
  <2>7. CASE WaitLoadCount
    BY <2>7 DEF WaitLoadCount, MainGoto
  <2>8. CASE WaitFastReturn
    BY <2>8 DEF WaitFastReturn, SlotBuffers
  <2>9. CASE WaitBlock
    BY <2>9 DEF WaitBlock, MainGoto, ReadCompleted
  <2>10. CASE WaitReturn
    BY <2>10 DEF WaitReturn, ReadCompleted, SlotBuffers
  <2>11. CASE UncachedBlock
    BY <2>11 DEF UncachedBlock, MainGoto, ReadThreadIdle
  <2>12. CASE UncachedRead
    BY <2>12 DEF UncachedRead, ReadThreadIdle
  <2>13. CASE CancelBlock
    BY <2>13 DEF CancelBlock, MainGoto, ReadThreadIdle
  <2>14. CASE CancelReadahead
    BY <2>14 DEF CancelReadahead, EmptyBuffers, ReadThreadIdle
  <2>15. CASE MoveMedia
    BY <2>15 DEF MoveMedia
  <2>16. CASE StopSignal
    BY <2>16 DEF StopSignal, NotifyDoRead
  <2>17. CASE StopJoin
    <3>1. buffers' = [i \in Slots |-> EmptySlot] BY <2>17 DEF StopJoin, LaunchThread
    <3>2. EmptySlot \in SlotRecord BY DEF EmptySlot, SlotRecord, LBAs, Positions
    <3> QED BY <2>17, <3>1, <3>2 DEF StopJoin, SlotBuffers
  <2> QED BY <1>2, <2>1, <2>2, <2>3, <2>4, <2>5, <2>6, <2>7, <2>8, <2>9, <2>10, <2>11, <2>12, <2>13, <2>14, <2>15, <2>16, <2>17 DEF MainStep
<1>3. CASE WorkerStep
  <2>1. CASE WorkerLock
    BY <2>1 DEF WorkerLock, WorkerGoto
  <2>2. CASE WorkerCheck
    BY <2>2 DEF WorkerCheck, WorkerGoto
  <2>3. CASE WorkerSleep
    BY <2>3 DEF WorkerSleep, WorkerGoto
  <2>4. CASE WorkerEmptyRing
    BY <2>4 DEF WorkerEmptyRing
  <2>5. CASE WorkerEmptyCount
    BY <2>5 DEF WorkerEmptyCount
  <2>6. CASE WorkerBeginSeek
    BY <2>6 DEF WorkerBeginSeek
  <2>7. CASE WorkerSeek
    BY <2>7 DEF WorkerSeek
  <2>8. CASE WorkerEndSeek
    BY <2>8 DEF WorkerEndSeek, AfterSeekError, NotifyReadComplete
  <2>9. CASE WorkerBeginRead
    BY <2>9 DEF WorkerBeginRead, HasSpace, SlotBuffers, SlotRecord, LBAs, NoLBA, Positions
  <2>10. CASE WorkerStopReadahead
    BY <2>10 DEF WorkerStopReadahead, HasSpace, WorkerGoto
  <2>11. CASE WorkerRead
    <3>1. PICK ok \in BOOLEAN : buffers' = [buffers EXCEPT ![wslot] =
             [lba |-> buffers[wslot].lba, data |-> IF ok THEN pos ELSE NoLBA, ok |-> ok]]
      BY <2>11, ReadType DEF WorkerRead
    <3>2. [lba |-> buffers[wslot].lba, data |-> IF ok THEN pos ELSE NoLBA, ok |-> ok] \in SlotRecord
      BY DEF SlotBuffers, SlotRecord, LBAs
    <3> QED BY <2>11, <3>1, <3>2 DEF WorkerRead, SlotBuffers
  <2>12. CASE WorkerEndRead
    BY <2>12 DEF WorkerEndRead, NotifyReadComplete
  <2>13. CASE WorkerEndReadahead
    BY <2>13 DEF WorkerEndReadahead
  <2> QED BY <1>3, <2>1, <2>2, <2>3, <2>4, <2>5, <2>6, <2>7, <2>8, <2>9, <2>10, <2>11, <2>12, <2>13 DEF WorkerStep
<1>4. CASE SpuriousWakeup
  BY <1>4 DEF SpuriousWakeup, NotifyDoRead, NotifyReadComplete
<1>5. CASE UNCHANGED vars
  BY <1>5 DEF vars
<1> QED BY <1>1, <1>2, <1>3, <1>4, <1>5 DEF Next

-----------------------------------------------------------------------------
(* The parts of the inductive invariant. *)

\* StartThread and StopThread join before they touch what the thread uses;
\* m_is_reading is true exactly while the thread works without the mutex.
LEMMA ThreadStep ==
  ASSUME TypeOK, ThreadInv, SerialClient, [Next]_vars
  PROVE  ThreadInv'
<1> USE DEF TypeOK, PCsTypeOK, FlagsTypeOK, DataTypeOK, ThreadInv, QueuePCs, UncachedPCs, CancelPCs, StopPCs, SeekPCs, ReadPCs, LockedPCs
<1>1. CASE MainCall
  <2>1. CASE \E lba \in RequestLBAs : QueueNonThreaded(lba)
    BY <2>1 DEF QueueNonThreaded, MayStart
  <2>2. CASE \E lba \in RequestLBAs : QueueReadSector(lba)
    BY <2>2 DEF QueueReadSector, MayStart
  <2>3. CASE \E lba \in RequestLBAs : UncachedNonThreaded(lba)
    BY <2>3 DEF UncachedNonThreaded
  <2>4. CASE \E lba \in RequestLBAs : ReadSectorUncached(lba)
    BY <2>4 DEF ReadSectorUncached
  <2>5. CASE WaitForReadToComplete
    BY <2>5 DEF WaitForReadToComplete, PositionRequested
  <2>6. CASE \E op \in {"insert", "remove"} : ChangeMedia(op)
    BY <2>6 DEF ChangeMedia, MayStart, ForgetRequest
  <2>7. CASE StartThread
    BY <2>7 DEF StartThread, MayStart, LaunchThread, EmptyBuffers, ForgetRequest
  <2>8. CASE \E op \in {"stop", "restart"} : StopThread(op)
    BY <2>8 DEF StopThread, MayStart, ForgetRequest
  <2> QED BY <1>1, <2>1, <2>2, <2>3, <2>4, <2>5, <2>6, <2>7, <2>8 DEF MainCall
<1>2. CASE MainStep
  <2>1. CASE QueueCompareFront
    BY <2>1 DEF QueueCompareFront
  <2>2. CASE QueueCompareNext
    BY <2>2 DEF QueueCompareNext, MainGoto
  <2>3. CASE QueueAdvance
    BY <2>3 DEF QueueAdvance
  <2>4. CASE QueueSub
    BY <2>4 DEF QueueSub
  <2>5. CASE QueueKick
    BY <2>5 DEF QueueKick, NotifyDoRead
  <2>6. CASE QueueNewPosition
    BY <2>6 DEF QueueNewPosition, NotifyDoRead
  <2>7. CASE WaitLoadCount
    BY <2>7 DEF WaitLoadCount, MainGoto
  <2>8. CASE WaitFastReturn
    BY <2>8 DEF WaitFastReturn
  <2>9. CASE WaitBlock
    BY <2>9 DEF WaitBlock, MainGoto, ReadCompleted
  <2>10. CASE WaitReturn
    BY <2>10 DEF WaitReturn, ReadCompleted
  <2>11. CASE UncachedBlock
    BY <2>11 DEF UncachedBlock, MainGoto, ReadThreadIdle
  <2>12. CASE UncachedRead
    BY <2>12 DEF UncachedRead, ReadThreadIdle
  <2>13. CASE CancelBlock
    BY <2>13 DEF CancelBlock, MainGoto, ReadThreadIdle
  <2>14. CASE CancelReadahead
    BY <2>14 DEF CancelReadahead, EmptyBuffers, ReadThreadIdle
  <2>15. CASE MoveMedia
    BY <2>15 DEF MoveMedia
  <2>16. CASE StopSignal
    BY <2>16 DEF StopSignal, NotifyDoRead
  <2>17. CASE StopJoin
    <3>1. CASE mop = "restart" BY <2>17, <3>1 DEF StopJoin, LaunchThread, EmptyBuffers
    <3>2. CASE mop # "restart" BY <2>17, <3>2 DEF StopJoin, EmptyBuffers
    <3> QED BY <3>1, <3>2
  <2> QED BY <1>2, <2>1, <2>2, <2>3, <2>4, <2>5, <2>6, <2>7, <2>8, <2>9, <2>10, <2>11, <2>12, <2>13, <2>14, <2>15, <2>16, <2>17 DEF MainStep
<1>3. CASE WorkerStep
  <2>1. CASE WorkerLock
    BY <2>1 DEF WorkerLock, WorkerGoto
  <2>2. CASE WorkerCheck
    BY <2>2 DEF WorkerCheck, WorkerGoto
  <2>3. CASE WorkerSleep
    BY <2>3 DEF WorkerSleep, WorkerGoto
  <2>4. CASE WorkerEmptyRing
    BY <2>4 DEF WorkerEmptyRing
  <2>5. CASE WorkerEmptyCount
    BY <2>5 DEF WorkerEmptyCount
  <2>6. CASE WorkerBeginSeek
    BY <2>6 DEF WorkerBeginSeek
  <2>7. CASE WorkerSeek
    BY <2>7 DEF WorkerSeek
  <2>8. CASE WorkerEndSeek
    BY <2>8 DEF WorkerEndSeek, AfterSeekError, NotifyReadComplete
  <2>9. CASE WorkerBeginRead
    BY <2>9 DEF WorkerBeginRead, HasSpace
  <2>10. CASE WorkerStopReadahead
    BY <2>10 DEF WorkerStopReadahead, HasSpace, WorkerGoto
  <2>11. CASE WorkerRead
    BY <2>11 DEF WorkerRead
  <2>12. CASE WorkerEndRead
    BY <2>12 DEF WorkerEndRead, NotifyReadComplete
  <2>13. CASE WorkerEndReadahead
    BY <2>13 DEF WorkerEndReadahead
  <2> QED BY <1>3, <2>1, <2>2, <2>3, <2>4, <2>5, <2>6, <2>7, <2>8, <2>9, <2>10, <2>11, <2>12, <2>13 DEF WorkerStep
<1>4. CASE SpuriousWakeup
  BY <1>4 DEF SpuriousWakeup, NotifyDoRead, NotifyReadComplete
<1>5. CASE UNCHANGED vars
  BY <1>5 DEF vars
<1> QED BY <1>1, <1>2, <1>3, <1>4, <1>5 DEF Next

\* A call that is under way was made for the request that is pending.
LEMMA ClientStep ==
  ASSUME TypeOK, ThreadInv, ClientInv, SeekInv, SlotInv, SerialClient, [Next]_vars
  PROVE  ClientInv'
<1> USE DEF TypeOK, PCsTypeOK, ClientInv, QueuePCs, UncachedPCs, CancelPCs, StopPCs, WaitPCs
<1>1. CASE MainCall
  <2>1. CASE \E lba \in RequestLBAs : QueueNonThreaded(lba)
    BY <2>1 DEF QueueNonThreaded, MayStart, SerialClient, DiscLBAs, Seek
  <2>2. CASE \E lba \in RequestLBAs : QueueReadSector(lba)
    BY <2>2 DEF QueueReadSector, MayStart, SerialClient
  <2>3. CASE \E lba \in RequestLBAs : UncachedNonThreaded(lba)
    BY <2>3 DEF UncachedNonThreaded
  <2>4. CASE \E lba \in RequestLBAs : ReadSectorUncached(lba)
    BY <2>4 DEF ReadSectorUncached
  <2>5. CASE WaitForReadToComplete
    BY <2>5 DEF WaitForReadToComplete, PositionRequested
  <2>6. CASE \E op \in {"insert", "remove"} : ChangeMedia(op)
    BY <2>6 DEF ChangeMedia, MayStart, ForgetRequest, SerialClient
  <2>7. CASE StartThread
    BY <2>7 DEF StartThread, MayStart, LaunchThread, EmptyBuffers, ForgetRequest, SerialClient
  <2>8. CASE \E op \in {"stop", "restart"} : StopThread(op)
    BY <2>8 DEF StopThread, MayStart, ForgetRequest, SerialClient
  <2> QED BY <1>1, <2>1, <2>2, <2>3, <2>4, <2>5, <2>6, <2>7, <2>8 DEF MainCall
<1>2. CASE MainStep
  <2>1. CASE QueueCompareFront
    BY <2>1 DEF QueueCompareFront
  <2>2. CASE QueueCompareNext
    BY <2>2 DEF QueueCompareNext, MainGoto
  <2>3. CASE QueueAdvance
    BY <2>3 DEF QueueAdvance
  <2>4. CASE QueueSub
    BY <2>4 DEF QueueSub
  <2>5. CASE QueueKick
    BY <2>5 DEF QueueKick, NotifyDoRead
  <2>6. CASE QueueNewPosition
    BY <2>6 DEF QueueNewPosition, NotifyDoRead
  <2>7. CASE WaitLoadCount
    BY <2>7 DEF WaitLoadCount, MainGoto
  <2>8. CASE WaitFastReturn
    BY <2>8 DEF WaitFastReturn
  <2>9. CASE WaitBlock
    BY <2>9 DEF WaitBlock, MainGoto, ReadCompleted
  <2>10. CASE WaitReturn
    BY <2>10 DEF WaitReturn, ReadCompleted
  <2>11. CASE UncachedBlock
    BY <2>11 DEF UncachedBlock, MainGoto, ReadThreadIdle
  <2>12. CASE UncachedRead
    BY <2>12 DEF UncachedRead, ReadThreadIdle
  <2>13. CASE CancelBlock
    BY <2>13 DEF CancelBlock, MainGoto, ReadThreadIdle
  <2>14. CASE CancelReadahead
    BY <2>14 DEF CancelReadahead, EmptyBuffers, ReadThreadIdle
  <2>15. CASE MoveMedia
    BY <2>15 DEF MoveMedia
  <2>16. CASE StopSignal
    BY <2>16 DEF StopSignal, NotifyDoRead
  <2>17. CASE StopJoin
    BY <2>17 DEF StopJoin, LaunchThread, EmptyBuffers
  <2> QED BY <1>2, <2>1, <2>2, <2>3, <2>4, <2>5, <2>6, <2>7, <2>8, <2>9, <2>10, <2>11, <2>12, <2>13, <2>14, <2>15, <2>16, <2>17 DEF MainStep
<1>3. CASE WorkerStep
  <2>1. CASE WorkerLock
    BY <2>1 DEF WorkerLock, WorkerGoto
  <2>2. CASE WorkerCheck
    BY <2>2 DEF WorkerCheck, WorkerGoto
  <2>3. CASE WorkerSleep
    BY <2>3 DEF WorkerSleep, WorkerGoto
  <2>4. CASE WorkerEmptyRing
    BY <2>4 DEF WorkerEmptyRing
  <2>5. CASE WorkerEmptyCount
    BY <2>5 DEF WorkerEmptyCount
  <2>6. CASE WorkerBeginSeek
    BY <2>6 DEF WorkerBeginSeek
  <2>7. CASE WorkerSeek
    BY <2>7 DEF WorkerSeek
  <2>8. CASE WorkerEndSeek
    BY <2>8 DEF WorkerEndSeek, AfterSeekError, NotifyReadComplete, SeekInv
  <2>9. CASE WorkerBeginRead
    BY <2>9 DEF WorkerBeginRead, HasSpace
  <2>10. CASE WorkerStopReadahead
    BY <2>10 DEF WorkerStopReadahead, HasSpace, WorkerGoto
  <2>11. CASE WorkerRead
    BY <2>11 DEF WorkerRead
  <2>12. CASE WorkerEndRead
    BY <2>12 DEF WorkerEndRead, NotifyReadComplete
  <2>13. CASE WorkerEndReadahead
    BY <2>13 DEF WorkerEndReadahead
  <2> QED BY <1>3, <2>1, <2>2, <2>3, <2>4, <2>5, <2>6, <2>7, <2>8, <2>9, <2>10, <2>11, <2>12, <2>13 DEF WorkerStep
<1>4. CASE SpuriousWakeup
  BY <1>4 DEF SpuriousWakeup, NotifyDoRead, NotifyReadComplete
<1>5. CASE UNCHANGED vars
  BY <1>5 DEF vars
<1> QED BY <1>1, <1>2, <1>3, <1>4, <1>5 DEF Next

\* m_next_position_set announces the pending request and nothing else, and
\* the read thread seeks with an empty ring.
LEMMA SeekStep ==
  ASSUME TypeOK, ThreadInv, ClientInv, SeekInv, RingInv, SerialClient, [Next]_vars
  PROVE  SeekInv'
<1> USE DEF TypeOK, PCsTypeOK, ThreadInv, ClientInv, SeekInv, QueuePCs, UncachedPCs, CancelPCs, StopPCs, WaitPCs, EmptyPCs, SeekPCs, ReadPCs, LockedPCs
<1>1. CASE MainCall
  <2>1. CASE \E lba \in RequestLBAs : QueueNonThreaded(lba)
    BY <2>1 DEF QueueNonThreaded, MayStart, SerialClient
  <2>2. CASE \E lba \in RequestLBAs : QueueReadSector(lba)
    BY <2>2 DEF QueueReadSector, MayStart, SerialClient
  <2>3. CASE \E lba \in RequestLBAs : UncachedNonThreaded(lba)
    BY <2>3 DEF UncachedNonThreaded
  <2>4. CASE \E lba \in RequestLBAs : ReadSectorUncached(lba)
    BY <2>4 DEF ReadSectorUncached
  <2>5. CASE WaitForReadToComplete
    BY <2>5 DEF WaitForReadToComplete, PositionRequested
  <2>6. CASE \E op \in {"insert", "remove"} : ChangeMedia(op)
    BY <2>6 DEF ChangeMedia, MayStart, ForgetRequest, SerialClient
  <2>7. CASE StartThread
    BY <2>7 DEF StartThread, MayStart, LaunchThread, EmptyBuffers, ForgetRequest, SerialClient
  <2>8. CASE \E op \in {"stop", "restart"} : StopThread(op)
    BY <2>8 DEF StopThread, MayStart, ForgetRequest, SerialClient
  <2> QED BY <1>1, <2>1, <2>2, <2>3, <2>4, <2>5, <2>6, <2>7, <2>8 DEF MainCall
<1>2. CASE MainStep
  <2>1. CASE QueueCompareFront
    BY <2>1 DEF QueueCompareFront
  <2>2. CASE QueueCompareNext
    BY <2>2 DEF QueueCompareNext, MainGoto
  <2>3. CASE QueueAdvance
    BY <2>3 DEF QueueAdvance
  <2>4. CASE QueueSub
    BY <2>4 DEF QueueSub
  <2>5. CASE QueueKick
    BY <2>5 DEF QueueKick, NotifyDoRead
  <2>6. CASE QueueNewPosition
    BY <2>6 DEF QueueNewPosition, NotifyDoRead
  <2>7. CASE WaitLoadCount
    BY <2>7 DEF WaitLoadCount, MainGoto
  <2>8. CASE WaitFastReturn
    BY <2>8 DEF WaitFastReturn, RingInv
  <2>9. CASE WaitBlock
    BY <2>9 DEF WaitBlock, MainGoto, ReadCompleted
  <2>10. CASE WaitReturn
    BY <2>10 DEF WaitReturn, ReadCompleted
  <2>11. CASE UncachedBlock
    BY <2>11 DEF UncachedBlock, MainGoto, ReadThreadIdle
  <2>12. CASE UncachedRead
    BY <2>12 DEF UncachedRead, ReadThreadIdle
  <2>13. CASE CancelBlock
    BY <2>13 DEF CancelBlock, MainGoto, ReadThreadIdle
  <2>14. CASE CancelReadahead
    BY <2>14 DEF CancelReadahead, EmptyBuffers, ReadThreadIdle
  <2>15. CASE MoveMedia
    BY <2>15 DEF MoveMedia
  <2>16. CASE StopSignal
    BY <2>16 DEF StopSignal, NotifyDoRead
  <2>17. CASE StopJoin
    BY <2>17 DEF StopJoin, LaunchThread, EmptyBuffers
  <2> QED BY <1>2, <2>1, <2>2, <2>3, <2>4, <2>5, <2>6, <2>7, <2>8, <2>9, <2>10, <2>11, <2>12, <2>13, <2>14, <2>15, <2>16, <2>17 DEF MainStep
<1>3. CASE WorkerStep
  <2>1. CASE WorkerLock
    BY <2>1 DEF WorkerLock, WorkerGoto
  <2>2. CASE WorkerCheck
    BY <2>2 DEF WorkerCheck, WorkerGoto
  <2>3. CASE WorkerSleep
    BY <2>3 DEF WorkerSleep, WorkerGoto
  <2>4. CASE WorkerEmptyRing
    BY <2>4 DEF WorkerEmptyRing
  <2>5. CASE WorkerEmptyCount
    BY <2>5 DEF WorkerEmptyCount
  <2>6. CASE WorkerBeginSeek
    BY <2>6 DEF WorkerBeginSeek
  <2>7. CASE WorkerSeek
    BY <2>7 DEF WorkerSeek, SerialClient, Seek, DiscLBAs
  <2>8. CASE WorkerEndSeek
    BY <2>8 DEF WorkerEndSeek, AfterSeekError, NotifyReadComplete
  <2>9. CASE WorkerBeginRead
    BY <2>9 DEF WorkerBeginRead, HasSpace
  <2>10. CASE WorkerStopReadahead
    BY <2>10 DEF WorkerStopReadahead, HasSpace, WorkerGoto
  <2>11. CASE WorkerRead
    BY <2>11 DEF WorkerRead
  <2>12. CASE WorkerEndRead
    BY <2>12 DEF WorkerEndRead, NotifyReadComplete
  <2>13. CASE WorkerEndReadahead
    BY <2>13 DEF WorkerEndReadahead
  <2> QED BY <1>3, <2>1, <2>2, <2>3, <2>4, <2>5, <2>6, <2>7, <2>8, <2>9, <2>10, <2>11, <2>12, <2>13 DEF WorkerStep
<1>4. CASE SpuriousWakeup
  BY <1>4 DEF SpuriousWakeup, NotifyDoRead, NotifyReadComplete
<1>5. CASE UNCHANGED vars
  BY <1>5 DEF vars
<1> QED BY <1>1, <1>2, <1>3, <1>4, <1>5 DEF Next

\* CancelReadahead leaves the read thread nothing to do until the disc image
\* has been moved and another request made.
LEMMA MediaStep ==
  ASSUME TypeOK, ThreadInv, ClientInv, SeekInv, MediaInv, SerialClient, [Next]_vars
  PROVE  MediaInv'
<1> USE DEF TypeOK, PCsTypeOK, ThreadInv, ClientInv, SeekInv, MediaInv, QueuePCs, UncachedPCs, CancelPCs, StopPCs, WaitPCs, EmptyPCs, SeekPCs, ReadPCs, LockedPCs, RestPCs
<1>1. CASE MainCall
  <2>1. CASE \E lba \in RequestLBAs : QueueNonThreaded(lba)
    BY <2>1 DEF QueueNonThreaded, MayStart, SerialClient
  <2>2. CASE \E lba \in RequestLBAs : QueueReadSector(lba)
    BY <2>2 DEF QueueReadSector, MayStart, SerialClient
  <2>3. CASE \E lba \in RequestLBAs : UncachedNonThreaded(lba)
    BY <2>3 DEF UncachedNonThreaded
  <2>4. CASE \E lba \in RequestLBAs : ReadSectorUncached(lba)
    BY <2>4 DEF ReadSectorUncached
  <2>5. CASE WaitForReadToComplete
    BY <2>5 DEF WaitForReadToComplete, PositionRequested
  <2>6. CASE \E op \in {"insert", "remove"} : ChangeMedia(op)
    BY <2>6 DEF ChangeMedia, MayStart, ForgetRequest, SerialClient
  <2>7. CASE StartThread
    BY <2>7 DEF StartThread, MayStart, LaunchThread, EmptyBuffers, ForgetRequest, SerialClient
  <2>8. CASE \E op \in {"stop", "restart"} : StopThread(op)
    BY <2>8 DEF StopThread, MayStart, ForgetRequest, SerialClient
  <2> QED BY <1>1, <2>1, <2>2, <2>3, <2>4, <2>5, <2>6, <2>7, <2>8 DEF MainCall
<1>2. CASE MainStep
  <2>1. CASE QueueCompareFront
    BY <2>1 DEF QueueCompareFront
  <2>2. CASE QueueCompareNext
    BY <2>2 DEF QueueCompareNext, MainGoto
  <2>3. CASE QueueAdvance
    BY <2>3 DEF QueueAdvance
  <2>4. CASE QueueSub
    BY <2>4 DEF QueueSub
  <2>5. CASE QueueKick
    BY <2>5 DEF QueueKick, NotifyDoRead
  <2>6. CASE QueueNewPosition
    BY <2>6 DEF QueueNewPosition, NotifyDoRead
  <2>7. CASE WaitLoadCount
    BY <2>7 DEF WaitLoadCount, MainGoto
  <2>8. CASE WaitFastReturn
    BY <2>8 DEF WaitFastReturn, SlotInv
  <2>9. CASE WaitBlock
    BY <2>9 DEF WaitBlock, MainGoto, ReadCompleted
  <2>10. CASE WaitReturn
    BY <2>10 DEF WaitReturn, ReadCompleted, SlotInv
  <2>11. CASE UncachedBlock
    BY <2>11 DEF UncachedBlock, MainGoto, ReadThreadIdle
  <2>12. CASE UncachedRead
    BY <2>12 DEF UncachedRead, ReadThreadIdle
  <2>13. CASE CancelBlock
    BY <2>13 DEF CancelBlock, MainGoto, ReadThreadIdle
  <2>14. CASE CancelReadahead
    BY <2>14 DEF CancelReadahead, EmptyBuffers, ReadThreadIdle, WorkerPCs
  <2>15. CASE MoveMedia
    BY <2>15 DEF MoveMedia
  <2>16. CASE StopSignal
    BY <2>16 DEF StopSignal, NotifyDoRead
  <2>17. CASE StopJoin
    BY <2>17 DEF StopJoin, LaunchThread, EmptyBuffers
  <2> QED BY <1>2, <2>1, <2>2, <2>3, <2>4, <2>5, <2>6, <2>7, <2>8, <2>9, <2>10, <2>11, <2>12, <2>13, <2>14, <2>15, <2>16, <2>17 DEF MainStep
<1>3. CASE WorkerStep
  <2>1. CASE WorkerLock
    BY <2>1 DEF WorkerLock, WorkerGoto
  <2>2. CASE WorkerCheck
    BY <2>2 DEF WorkerCheck, WorkerGoto
  <2>3. CASE WorkerSleep
    BY <2>3 DEF WorkerSleep, WorkerGoto
  <2>4. CASE WorkerEmptyRing
    BY <2>4 DEF WorkerEmptyRing
  <2>5. CASE WorkerEmptyCount
    BY <2>5 DEF WorkerEmptyCount
  <2>6. CASE WorkerBeginSeek
    BY <2>6 DEF WorkerBeginSeek
  <2>7. CASE WorkerSeek
    BY <2>7 DEF WorkerSeek
  <2>8. CASE WorkerEndSeek
    BY <2>8 DEF WorkerEndSeek, AfterSeekError, NotifyReadComplete
  <2>9. CASE WorkerBeginRead
    BY <2>9 DEF WorkerBeginRead, HasSpace
  <2>10. CASE WorkerStopReadahead
    BY <2>10 DEF WorkerStopReadahead, HasSpace, WorkerGoto
  <2>11. CASE WorkerRead
    BY <2>11 DEF WorkerRead
  <2>12. CASE WorkerEndRead
    BY <2>12 DEF WorkerEndRead, NotifyReadComplete
  <2>13. CASE WorkerEndReadahead
    BY <2>13 DEF WorkerEndReadahead
  <2> QED BY <1>3, <2>1, <2>2, <2>3, <2>4, <2>5, <2>6, <2>7, <2>8, <2>9, <2>10, <2>11, <2>12, <2>13 DEF WorkerStep
<1>4. CASE SpuriousWakeup
  BY <1>4 DEF SpuriousWakeup, NotifyDoRead, NotifyReadComplete
<1>5. CASE UNCHANGED vars
  BY <1>5 DEF vars
<1> QED BY <1>1, <1>2, <1>3, <1>4, <1>5 DEF Next

\* QueueReadSector (front, then count, without the mutex) and the read
\* thread (back, then count) keep the ring consistent between them.
LEMMA RingStep ==
  ASSUME TypeOK, ThreadInv, ClientInv, SeekInv, RingInv, SerialClient, [Next]_vars
  PROVE  RingInv'
<1> USE DEF TypeOK, PCsTypeOK, DataTypeOK, Slots, RingInv, ThreadInv, SlotAt, Buffered, QueuePCs, UncachedPCs, CancelPCs, StopPCs, ReadPCs
<1>1. CASE MainCall
  <2>1. CASE \E lba \in RequestLBAs : QueueNonThreaded(lba)
    BY <2>1 DEF QueueNonThreaded, MayStart, SerialClient
  <2>2. CASE \E lba \in RequestLBAs : QueueReadSector(lba)
    BY <2>2 DEF QueueReadSector, MayStart, SerialClient
  <2>3. CASE \E lba \in RequestLBAs : UncachedNonThreaded(lba)
    BY <2>3 DEF UncachedNonThreaded
  <2>4. CASE \E lba \in RequestLBAs : ReadSectorUncached(lba)
    BY <2>4 DEF ReadSectorUncached
  <2>5. CASE WaitForReadToComplete
    BY <2>5 DEF WaitForReadToComplete, PositionRequested
  <2>6. CASE \E op \in {"insert", "remove"} : ChangeMedia(op)
    BY <2>6 DEF ChangeMedia, MayStart, ForgetRequest, SerialClient
  <2>7. CASE StartThread
    BY <2>7 DEF StartThread, MayStart, LaunchThread, EmptyBuffers, ForgetRequest, SerialClient
  <2>8. CASE \E op \in {"stop", "restart"} : StopThread(op)
    BY <2>8 DEF StopThread, MayStart, ForgetRequest, SerialClient
  <2> QED BY <1>1, <2>1, <2>2, <2>3, <2>4, <2>5, <2>6, <2>7, <2>8 DEF MainCall
<1>2. CASE MainStep
  <2>1. CASE QueueCompareFront
    BY <2>1 DEF QueueCompareFront
  <2>2. CASE QueueCompareNext
    BY <2>2 DEF QueueCompareNext, MainGoto
  <2>3. CASE QueueAdvance
    BY <2>3 DEF QueueAdvance, NextSlot
  <2>4. CASE QueueSub
    BY <2>4 DEF QueueSub, CountDown
  <2>5. CASE QueueKick
    BY <2>5 DEF QueueKick, NotifyDoRead
  <2>6. CASE QueueNewPosition
    BY <2>6 DEF QueueNewPosition, NotifyDoRead
  <2>7. CASE WaitLoadCount
    BY <2>7 DEF WaitLoadCount, MainGoto
  <2>8. CASE WaitFastReturn
    BY <2>8 DEF WaitFastReturn
  <2>9. CASE WaitBlock
    BY <2>9 DEF WaitBlock, MainGoto, ReadCompleted
  <2>10. CASE WaitReturn
    BY <2>10 DEF WaitReturn, ReadCompleted
  <2>11. CASE UncachedBlock
    BY <2>11 DEF UncachedBlock, MainGoto, ReadThreadIdle
  <2>12. CASE UncachedRead
    BY <2>12 DEF UncachedRead, ReadThreadIdle
  <2>13. CASE CancelBlock
    BY <2>13 DEF CancelBlock, MainGoto, ReadThreadIdle
  <2>14. CASE CancelReadahead
    BY <2>14 DEF CancelReadahead, EmptyBuffers, ReadThreadIdle
  <2>15. CASE MoveMedia
    BY <2>15 DEF MoveMedia
  <2>16. CASE StopSignal
    BY <2>16 DEF StopSignal, NotifyDoRead
  <2>17. CASE StopJoin
    <3>1. CASE mop = "restart" BY <2>17, <3>1 DEF StopJoin, LaunchThread, EmptyBuffers
    <3>2. CASE mop # "restart" BY <2>17, <3>2 DEF StopJoin, EmptyBuffers
    <3> QED BY <3>1, <3>2
  <2> QED BY <1>2, <2>1, <2>2, <2>3, <2>4, <2>5, <2>6, <2>7, <2>8, <2>9, <2>10, <2>11, <2>12, <2>13, <2>14, <2>15, <2>16, <2>17 DEF MainStep
<1>3. CASE WorkerStep
  <2>1. CASE WorkerLock
    BY <2>1 DEF WorkerLock, WorkerGoto
  <2>2. CASE WorkerCheck
    BY <2>2 DEF WorkerCheck, WorkerGoto
  <2>3. CASE WorkerSleep
    BY <2>3 DEF WorkerSleep, WorkerGoto
  <2>4. CASE WorkerEmptyRing
    BY <2>4 DEF WorkerEmptyRing, SeekInv, EmptyPCs
  <2>5. CASE WorkerEmptyCount
    BY <2>5 DEF WorkerEmptyCount, SeekInv, EmptyPCs
  <2>6. CASE WorkerBeginSeek
    BY <2>6 DEF WorkerBeginSeek
  <2>7. CASE WorkerSeek
    BY <2>7 DEF WorkerSeek
  <2>8. CASE WorkerEndSeek
    BY <2>8 DEF WorkerEndSeek, AfterSeekError, NotifyReadComplete
  <2>9. CASE WorkerBeginRead
    BY <2>9 DEF WorkerBeginRead, HasSpace, NextSlot
  <2>10. CASE WorkerStopReadahead
    BY <2>10 DEF WorkerStopReadahead, HasSpace, WorkerGoto
  <2>11. CASE WorkerRead
    BY <2>11 DEF WorkerRead
  <2>12. CASE WorkerEndRead
    BY <2>12 DEF WorkerEndRead, NotifyReadComplete, CountUp
  <2>13. CASE WorkerEndReadahead
    BY <2>13 DEF WorkerEndReadahead
  <2> QED BY <1>3, <2>1, <2>2, <2>3, <2>4, <2>5, <2>6, <2>7, <2>8, <2>9, <2>10, <2>11, <2>12, <2>13 DEF WorkerStep
<1>4. CASE SpuriousWakeup
  BY <1>4 DEF SpuriousWakeup, NotifyDoRead, NotifyReadComplete
<1>5. CASE UNCHANGED vars
  BY <1>5 DEF vars
<1> QED BY <1>1, <1>2, <1>3, <1>4, <1>5 DEF Next

\* The read thread writes only to the slot behind the buffered ones, so the
\* front buffer and the one after it stay what they were found to be.
LEMMA SlotStep ==
  ASSUME TypeOK, ThreadInv, ClientInv, SeekInv, MediaInv, RingInv, SlotInv, AnswerInv, SerialClient, [Next]_vars
  PROVE  SlotInv'
<1> USE DEF TypeOK, PCsTypeOK, ThreadInv, QueuePCs, UncachedPCs, CancelPCs, StopPCs, ReadPCs, SlotInv, NextSlot, BufferTypeOK, SlotBuffers, DataTypeOK
<1>1. CASE MainCall
  <2>1. CASE \E lba \in RequestLBAs : QueueNonThreaded(lba)
    <3>1. PICK lba \in RequestLBAs : QueueNonThreaded(lba) BY <2>1
    <3>2. lba \in DiscLBAs BY DEF SerialClient
    <3>3. PICK ok : buffers' = [buffers EXCEPT ![0] =
             [lba |-> lba, data |-> IF ok THEN lba ELSE NoLBA, ok |-> ok]]
      BY <3>1, <3>2, Zenon DEF QueueNonThreaded, Seek
    <3>4. \A i \in Slots : buffers'[i].ok => buffers'[i].data = buffers'[i].lba BY <3>3
    <3> QED BY <3>1, <3>4 DEF QueueNonThreaded, MayStart
  <2>2. CASE \E lba \in RequestLBAs : QueueReadSector(lba)
    BY <2>2 DEF QueueReadSector, MayStart
  <2>3. CASE \E lba \in RequestLBAs : UncachedNonThreaded(lba)
    BY <2>3 DEF UncachedNonThreaded
  <2>4. CASE \E lba \in RequestLBAs : ReadSectorUncached(lba)
    BY <2>4 DEF ReadSectorUncached
  <2>5. CASE WaitForReadToComplete
    BY <2>5 DEF WaitForReadToComplete, PositionRequested
  <2>6. CASE \E op \in {"insert", "remove"} : ChangeMedia(op)
    BY <2>6 DEF ChangeMedia, MayStart, ForgetRequest
  <2>7. CASE StartThread
    BY <2>7 DEF StartThread, MayStart, LaunchThread, EmptyBuffers, ForgetRequest, EmptySlot
  <2>8. CASE \E op \in {"stop", "restart"} : StopThread(op)
    BY <2>8 DEF StopThread, MayStart, ForgetRequest
  <2> QED BY <1>1, <2>1, <2>2, <2>3, <2>4, <2>5, <2>6, <2>7, <2>8 DEF MainCall
<1>2. CASE MainStep
  <2>1. CASE QueueCompareFront
    BY <2>1 DEF QueueCompareFront, RingInv, ClientInv
  <2>2. CASE QueueCompareNext
    BY <2>2 DEF QueueCompareNext, MainGoto, RingInv, ClientInv
  <2>3. CASE QueueAdvance
    BY <2>3 DEF QueueAdvance, RingInv, ClientInv
  <2>4. CASE QueueSub
    BY <2>4 DEF QueueSub, CountDown, RingInv
  <2>5. CASE QueueKick
    BY <2>5 DEF QueueKick, NotifyDoRead
  <2>6. CASE QueueNewPosition
    BY <2>6 DEF QueueNewPosition, NotifyDoRead
  <2>7. CASE WaitLoadCount
    BY <2>7 DEF WaitLoadCount, MainGoto
  <2>8. CASE WaitFastReturn
    BY <2>8 DEF WaitFastReturn, ClientInv, AnswerInv, RingInv, SeekInv, WaitPCs
  <2>9. CASE WaitBlock
    BY <2>9 DEF WaitBlock, MainGoto, ReadCompleted
  <2>10. CASE WaitReturn
    BY <2>10 DEF WaitReturn, ReadCompleted, ClientInv, AnswerInv, WaitPCs
  <2>11. CASE UncachedBlock
    BY <2>11 DEF UncachedBlock, MainGoto, ReadThreadIdle
  <2>12. CASE UncachedRead
    BY <2>12 DEF UncachedRead, ReadThreadIdle, ClientInv
  <2>13. CASE CancelBlock
    BY <2>13 DEF CancelBlock, MainGoto, ReadThreadIdle
  <2>14. CASE CancelReadahead
    BY <2>14 DEF CancelReadahead, EmptyBuffers, ReadThreadIdle, ClientInv
  <2>15. CASE MoveMedia
    BY <2>15 DEF MoveMedia, MediaInv, RestPCs
  <2>16. CASE StopSignal
    BY <2>16 DEF StopSignal, NotifyDoRead
  <2>17. CASE StopJoin
    <3>1. buffers' = [i \in Slots |-> EmptySlot] BY <2>17 DEF StopJoin, LaunchThread
    <3>2. \A i \in Slots : buffers'[i].ok => buffers'[i].data = buffers'[i].lba
      BY <3>1 DEF EmptySlot
    <3>3. mpc' = "idle" /\ wpc' # "read" /\ delivered' = Nothing
      BY <2>17 DEF StopJoin, LaunchThread, ClientInv
    <3> QED BY <3>2, <3>3
  <2> QED BY <1>2, <2>1, <2>2, <2>3, <2>4, <2>5, <2>6, <2>7, <2>8, <2>9, <2>10, <2>11, <2>12, <2>13, <2>14, <2>15, <2>16, <2>17 DEF MainStep
<1>3. CASE WorkerStep
  <2>1. CASE WorkerLock
    BY <2>1 DEF WorkerLock, WorkerGoto
  <2>2. CASE WorkerCheck
    BY <2>2 DEF WorkerCheck, WorkerGoto
  <2>3. CASE WorkerSleep
    BY <2>3 DEF WorkerSleep, WorkerGoto
  <2>4. CASE WorkerEmptyRing
    BY <2>4 DEF WorkerEmptyRing, SeekInv, EmptyPCs, ClientInv
  <2>5. CASE WorkerEmptyCount
    BY <2>5 DEF WorkerEmptyCount, SeekInv, EmptyPCs, ClientInv
  <2>6. CASE WorkerBeginSeek
    BY <2>6 DEF WorkerBeginSeek
  <2>7. CASE WorkerSeek
    BY <2>7 DEF WorkerSeek
  <2>8. CASE WorkerEndSeek
    BY <2>8 DEF WorkerEndSeek, AfterSeekError, NotifyReadComplete
  <2>9. CASE WorkerBeginRead
    <3>1. /\ buffers' = [buffers EXCEPT ![back] = [lba |-> pos, data |-> NoLBA, ok |-> FALSE]]
          /\ wslot' = back /\ back \in Slots /\ front \in Slots
          /\ UNCHANGED <<pos, mpc, mfront, front, count, size, requested, delivered>>
      BY <2>9 DEF WorkerBeginRead
    <3>2. ASSUME count > 0 PROVE back # front
      <4>1. /\ threaded /\ back = SlotAt(Buffered) /\ Buffered \in 1 .. size - 1
            /\ front \in 0 .. size - 1
        BY <2>9, <3>2 DEF WorkerBeginRead, HasSpace, RingInv, Buffered, Slots
      <4> QED BY <4>1 DEF SlotAt
    <3>3. ASSUME mpc = "queue_advance" PROVE back # NextSlot(front) /\ NextSlot(front) \in Slots
      <4>1. /\ threaded /\ wpc = "fill" /\ back = SlotAt(count) /\ count > 1 /\ count < size
            /\ front \in 0 .. size - 1
        BY <2>9, <3>3 DEF WorkerBeginRead, HasSpace, RingInv, Buffered, Slots
      <4>2. NextSlot(front) = SlotAt(1) BY <4>1 DEF SlotAt
      <4> QED BY SMTT(30), <4>1, <4>2 DEF SlotAt, Slots
    <3>4. (\A i \in Slots : buffers[i].ok => buffers[i].data = buffers[i].lba)'
      BY <3>1
    <3>5. (wpc = "read" => buffers[wslot].lba = pos)' BY <3>1
    <3>6. (mpc = "queue_advance" => buffers[NextSlot(front)].lba = requested)'
      BY <3>1, <3>3
    <3>7. (mpc \in {"queue_sub", "queue_kick"} => buffers[front].lba = requested)'
      BY <3>1, <3>2 DEF RingInv
    <3>8. (delivered # Nothing => count > 0 /\ buffers[front] = delivered /\ delivered.lba = requested)'
      BY <3>1, <3>2
    <3> QED BY <3>4, <3>5, <3>6, <3>7, <3>8
  <2>10. CASE WorkerStopReadahead
    BY <2>10 DEF WorkerStopReadahead, HasSpace, WorkerGoto
  <2>11. CASE WorkerRead
    <3>1. PICK ok : buffers' = [buffers EXCEPT ![wslot] =
             [lba |-> buffers[wslot].lba, data |-> IF ok THEN pos ELSE NoLBA, ok |-> ok]]
      BY <2>11 DEF WorkerRead
    <3>2. /\ wslot \in Slots /\ front \in Slots /\ wpc = "read" /\ wpc' = "end_read"
          /\ UNCHANGED <<mpc, front, count, size, requested, delivered>>
      BY <2>11 DEF WorkerRead
    <3>3. buffers[wslot].lba = pos BY <3>2
    <3>4. count > 0 => wslot # front
      BY <3>2 DEF RingInv, SlotAt, Buffered, Slots
    <3>5. \A i \in Slots : buffers'[i].lba = buffers[i].lba BY <3>1, <3>2
    <3>6. (\A i \in Slots : buffers[i].ok => buffers[i].data = buffers[i].lba)'
      BY <3>1, <3>2, <3>3
    <3>7. mpc = "queue_advance" => NextSlot(front) \in Slots
      BY DEF RingInv, Slots
    <3>8. (mpc = "queue_advance" => buffers[NextSlot(front)].lba = requested)'
      BY <3>2, <3>5, <3>7
    <3>9. (delivered # Nothing => count > 0 /\ buffers[front] = delivered /\ delivered.lba = requested)'
      BY <3>1, <3>2, <3>4
    <3> QED BY <3>2, <3>5, <3>6, <3>8, <3>9
  <2>12. CASE WorkerEndRead
    BY <2>12 DEF WorkerEndRead, NotifyReadComplete, CountUp, RingInv
  <2>13. CASE WorkerEndReadahead
    BY <2>13 DEF WorkerEndReadahead
  <2> QED BY <1>3, <2>1, <2>2, <2>3, <2>4, <2>5, <2>6, <2>7, <2>8, <2>9, <2>10, <2>11, <2>12, <2>13 DEF WorkerStep
<1>4. CASE SpuriousWakeup
  BY <1>4 DEF SpuriousWakeup, NotifyDoRead, NotifyReadComplete
<1>5. CASE UNCHANGED vars
  BY <1>5 DEF vars
<1> QED BY <1>1, <1>2, <1>3, <1>4, <1>5 DEF Next

\* The front buffer answers the pending request, or the read thread is on its
\* way to fill it.
LEMMA AnswerStep ==
  ASSUME TypeOK, ThreadInv, ClientInv, SeekInv, RingInv, SlotInv, AnswerInv, SerialClient, [Next]_vars
  PROVE  AnswerInv'
<1> USE DEF TypeOK, PCsTypeOK, ThreadInv, QueuePCs, UncachedPCs, CancelPCs, StopPCs, ReadPCs, AnswerInv, BufferTypeOK, SlotBuffers, DataTypeOK, SeekPCs
<1>1. CASE MainCall
  <2>1. CASE \E lba \in RequestLBAs : QueueNonThreaded(lba)
    <3>1. PICK lba \in RequestLBAs : QueueNonThreaded(lba) BY <2>1
    <3>2. lba \in DiscLBAs BY DEF SerialClient
    <3>3. PICK ok : buffers' = [buffers EXCEPT ![0] =
             [lba |-> lba, data |-> IF ok THEN lba ELSE NoLBA, ok |-> ok]]
      BY <3>1, <3>2, Zenon DEF QueueNonThreaded, Seek
    <3>4. 0 \in Slots BY DEF Slots
    <3> QED BY <3>1, <3>2, <3>3, <3>4 DEF QueueNonThreaded
  <2>2. CASE \E lba \in RequestLBAs : QueueReadSector(lba)
    BY <2>2 DEF QueueReadSector, MayStart
  <2>3. CASE \E lba \in RequestLBAs : UncachedNonThreaded(lba)
    BY <2>3 DEF UncachedNonThreaded
  <2>4. CASE \E lba \in RequestLBAs : ReadSectorUncached(lba)
    BY <2>4 DEF ReadSectorUncached
  <2>5. CASE WaitForReadToComplete
    BY <2>5 DEF WaitForReadToComplete, PositionRequested, SlotInv, ClientInv
  <2>6. CASE \E op \in {"insert", "remove"} : ChangeMedia(op)
    BY <2>6 DEF ChangeMedia, MayStart, ForgetRequest
  <2>7. CASE StartThread
    BY <2>7 DEF StartThread, MayStart, LaunchThread, EmptyBuffers, ForgetRequest
  <2>8. CASE \E op \in {"stop", "restart"} : StopThread(op)
    BY <2>8 DEF StopThread, MayStart, ForgetRequest
  <2> QED BY <1>1, <2>1, <2>2, <2>3, <2>4, <2>5, <2>6, <2>7, <2>8 DEF MainCall
<1>2. CASE MainStep
  <2>1. CASE QueueCompareFront
    BY <2>1 DEF QueueCompareFront, RingInv, ClientInv
  <2>2. CASE QueueCompareNext
    BY <2>2 DEF QueueCompareNext, MainGoto
  <2>3. CASE QueueAdvance
    BY <2>3 DEF QueueAdvance
  <2>4. CASE QueueSub
    BY <2>4 DEF QueueSub, RingInv, CountDown
  <2>5. CASE QueueKick
    BY <2>5 DEF QueueKick, NotifyDoRead, SlotInv, RingInv, ClientInv
  <2>6. CASE QueueNewPosition
    BY <2>6 DEF QueueNewPosition, NotifyDoRead, ClientInv
  <2>7. CASE WaitLoadCount
    BY <2>7 DEF WaitLoadCount, MainGoto
  <2>8. CASE WaitFastReturn
    BY <2>8 DEF WaitFastReturn, ClientInv
  <2>9. CASE WaitBlock
    BY <2>9 DEF WaitBlock, MainGoto, ReadCompleted
  <2>10. CASE WaitReturn
    BY <2>10 DEF WaitReturn, ReadCompleted
  <2>11. CASE UncachedBlock
    BY <2>11 DEF UncachedBlock, MainGoto, ReadThreadIdle
  <2>12. CASE UncachedRead
    BY <2>12 DEF UncachedRead, ReadThreadIdle, LockedPCs
  <2>13. CASE CancelBlock
    BY <2>13 DEF CancelBlock, MainGoto, ReadThreadIdle
  <2>14. CASE CancelReadahead
    BY <2>14 DEF CancelReadahead, EmptyBuffers, ReadThreadIdle, ClientInv
  <2>15. CASE MoveMedia
    BY <2>15 DEF MoveMedia, ClientInv
  <2>16. CASE StopSignal
    BY <2>16 DEF StopSignal, NotifyDoRead
  <2>17. CASE StopJoin
    BY <2>17 DEF StopJoin, LaunchThread, EmptyBuffers, ClientInv
  <2> QED BY <1>2, <2>1, <2>2, <2>3, <2>4, <2>5, <2>6, <2>7, <2>8, <2>9, <2>10, <2>11, <2>12, <2>13, <2>14, <2>15, <2>16, <2>17 DEF MainStep
<1>3. CASE WorkerStep
  <2>1. CASE WorkerLock
    BY <2>1 DEF WorkerLock, WorkerGoto, LockedPCs
  <2>2. CASE WorkerCheck
    BY <2>2 DEF WorkerCheck, WorkerGoto
  <2>3. CASE WorkerSleep
    BY <2>3 DEF WorkerSleep, WorkerGoto
  <2>4. CASE WorkerEmptyRing
    BY <2>4 DEF WorkerEmptyRing, SeekInv, EmptyPCs
  <2>5. CASE WorkerEmptyCount
    BY <2>5 DEF WorkerEmptyCount, SeekInv, EmptyPCs
  <2>6. CASE WorkerBeginSeek
    BY <2>6 DEF WorkerBeginSeek, SeekInv, EmptyPCs
  <2>7. CASE WorkerSeek
    BY <2>7 DEF WorkerSeek, SeekInv
  <2>8. CASE WorkerEndSeek
    BY <2>8 DEF WorkerEndSeek, AfterSeekError, NotifyReadComplete, SeekInv
  <2>9. CASE WorkerBeginRead
    <3>1. /\ buffers' = [buffers EXCEPT ![back] = [lba |-> pos, data |-> NoLBA, ok |-> FALSE]]
          /\ wslot' = back /\ back \in Slots /\ front \in Slots /\ wpc = "fill" /\ wpc' = "read"
          /\ UNCHANGED <<pos, mpc, front, count, size, requested, pending, nextSet, threaded>>
      BY <2>9 DEF WorkerBeginRead
    <3>2. count > 0 => back # front
      BY <2>9 DEF WorkerBeginRead, HasSpace, RingInv, SlotAt, Buffered, Slots
    <3> QED BY <3>1, <3>2
  <2>10. CASE WorkerStopReadahead
    BY <2>10 DEF WorkerStopReadahead, HasSpace, WorkerGoto, RingInv
  <2>11. CASE WorkerRead
    BY <2>11 DEF WorkerRead, RingInv, SlotAt, Buffered
  <2>12. CASE WorkerEndRead
    <3> SUFFICES ASSUME pending, mpc' \notin QueuePCs, ~nextSet
                 PROVE  count' > 0 /\ buffers[front].lba = requested
      BY <2>12 DEF WorkerEndRead
    <3>1. count < size /\ wslot = SlotAt(Buffered) /\ wpc \in ReadPCs
      BY <2>12 DEF WorkerEndRead, RingInv
    <3>2. count' = count + 1 BY <2>12, <3>1 DEF WorkerEndRead, CountUp
    <3>3. mpc \notin QueuePCs BY <2>12 DEF WorkerEndRead, NotifyReadComplete
    <3>4. CASE count > 0 BY <3>2, <3>3, <3>4
    <3>5. CASE count = 0
      <4>1. buffers[wslot].lba = requested BY <3>1, <3>3, <3>5
      <4>2. front \in 0 .. size - 1 BY <3>1, <3>3, <3>5 DEF RingInv, Slots
      <4>3. wslot = front BY <3>1, <3>3, <3>5, <4>2 DEF SlotAt, Buffered
      <4> QED BY <3>2, <3>5, <4>1, <4>3
    <3> QED BY <3>4, <3>5
  <2>13. CASE WorkerEndReadahead
    BY <2>13 DEF WorkerEndReadahead
  <2> QED BY <1>3, <2>1, <2>2, <2>3, <2>4, <2>5, <2>6, <2>7, <2>8, <2>9, <2>10, <2>11, <2>12, <2>13 DEF WorkerStep
<1>4. CASE SpuriousWakeup
  BY <1>4 DEF SpuriousWakeup, NotifyDoRead, NotifyReadComplete
<1>5. CASE UNCHANGED vars
  BY <1>5 DEF vars
<1> QED BY <1>1, <1>2, <1>3, <1>4, <1>5 DEF Next

-----------------------------------------------------------------------------
(* The invariant and what follows from it. *)

\* The invariant holds in the state CDROM::Initialize leaves.
LEMMA InitInv ==
  ASSUME SerialClient, Init
  PROVE  IInv
<1> USE DEF Init
<1>1. FlagsTypeOK /\ PCsTypeOK
  BY DEF FlagsTypeOK, PCsTypeOK, MainPCs, WorkerPCs
<1>2. DataTypeOK
  BY DEF DataTypeOK, Positions, LBAs, Slots, NoLBA
<1>3. BufferTypeOK
  <2>1. EmptySlot \in SlotRecord
    BY DEF EmptySlot, SlotRecord, LBAs, Positions
  <2> QED BY <2>1 DEF BufferTypeOK, SlotBuffers
<1>4. ThreadInv
  <2>1. threaded \in BOOLEAN /\ (shutdown <=> ~threaded) OBVIOUS
  <2>2. (threaded => size = ReadaheadCount) /\ (~threaded => size <= 1) OBVIOUS
  <2>3. wpc \in {"wake", "exited"} /\ (threaded => wpc = "wake") /\ (~threaded => wpc = "exited") OBVIOUS
  <2>4. mpc = "idle" /\ mutex = "free" /\ ~isReading OBVIOUS
  <2> HIDE DEF Init
  <2> QED BY <2>1, <2>2, <2>3, <2>4
        DEF ThreadInv, QueuePCs, UncachedPCs, CancelPCs, StopPCs, LockedPCs, SeekPCs, ReadPCs
<1>5. ClientInv
  BY DEF ClientInv, QueuePCs, WaitPCs, UncachedPCs, CancelPCs, StopPCs
<1>6. SeekInv
  BY DEF SeekInv, QueuePCs, EmptyPCs, SeekPCs
<1>7. MediaInv
  BY DEF MediaInv, UncachedPCs, RestPCs
<1>8. RingInv
  BY DEF RingInv, ReadPCs, SlotAt, Buffered
<1>9. SlotInv
  BY DEF SlotInv, EmptySlot
<1>10. AnswerInv
  BY DEF AnswerInv
<1> QED BY <1>1, <1>2, <1>3, <1>4, <1>5, <1>6, <1>7, <1>8, <1>9, <1>10 DEF IInv, TypeOK

\* Every step of either thread preserves it.
LEMMA StepInv ==
  ASSUME SerialClient, IInv, [Next]_vars
  PROVE  IInv'
<1>1. TypeOK /\ ThreadInv /\ ClientInv /\ SeekInv /\ MediaInv /\ RingInv /\ SlotInv /\ AnswerInv
  BY DEF IInv
<1>2. FlagsTypeOK /\ PCsTypeOK /\ DataTypeOK /\ BufferTypeOK
  BY <1>1 DEF TypeOK
<1>3. FlagsTypeOK' BY <1>2, FlagsTypeStep
<1>4. PCsTypeOK' BY <1>2, PCsTypeStep
<1>5. DataTypeOK' BY <1>1, <1>2, DataTypeStep
<1>6. BufferTypeOK' BY <1>1, <1>2, BufferTypeStep
<1>7. ThreadInv' BY <1>1, ThreadStep
<1>8. ClientInv' BY <1>1, ClientStep
<1>9. SeekInv' BY <1>1, SeekStep
<1>10. MediaInv' BY <1>1, MediaStep
<1>11. RingInv' BY <1>1, RingStep
<1>12. SlotInv' BY <1>1, SlotStep
<1>13. AnswerInv' BY <1>1, AnswerStep
<1> QED BY <1>3, <1>4, <1>5, <1>6, <1>7, <1>8, <1>9, <1>10, <1>11, <1>12, <1>13 DEF IInv, TypeOK

\* IInv holds in every reachable state.
THEOREM Invariance ==
  ASSUME SerialClient
  PROVE  Spec => []IInv
<1>1. Init => IInv BY InitInv
<1>2. IInv /\ [Next]_vars => IInv' BY StepInv
<1> QED BY <1>1, <1>2, PTL DEF Spec

\* The type invariant: ring indices inside m_buffers, positions on the disc.
THEOREM TypeCorrect ==
  ASSUME SerialClient
  PROVE  Spec => []TypeOK
<1>1. IInv => TypeOK BY DEF IInv
<1> QED BY <1>1, Invariance, PTL

\* WaitForReadToComplete hands over the requested sector and its content, on
\* the lock-free path and on the blocking one.
THEOREM RequestedSectorDelivered ==
  ASSUME SerialClient
  PROVE  Spec => []SectorIsRequested
<1>1. IInv => SectorIsRequested
  <2> SUFFICES ASSUME IInv, delivered # Nothing
               PROVE  delivered.lba = requested /\ (delivered.ok => delivered.data = requested)
    BY DEF SectorIsRequested
  <2>1. buffers[front] = delivered /\ delivered.lba = requested BY DEF IInv, SlotInv
  <2>2. front \in Slots BY DEF IInv, TypeOK, DataTypeOK
  <2>3. buffers[front].ok => buffers[front].data = buffers[front].lba BY <2>2 DEF IInv, SlotInv
  <2> QED BY <2>1, <2>3
<1> QED BY <1>1, Invariance, PTL

\* The references GetSectorBuffer and GetSectorSubQ return stay valid while
\* CDROM works on the sector, although the read thread keeps reading ahead.
THEOREM HeldSectorUntouched ==
  ASSUME SerialClient
  PROVE  Spec => []HeldSectorStable
<1>1. IInv => HeldSectorStable
  <2> SUFFICES ASSUME IInv, delivered # Nothing
               PROVE  buffers[front] = delivered /\ (wpc \in ReadPCs => wslot # front)
    BY DEF HeldSectorStable, ReadPCs
  <2>1. buffers[front] = delivered /\ count > 0 BY DEF IInv, SlotInv
  <2>2. mpc # "queue_sub" BY DEF IInv, ClientInv, UncachedPCs
  <2>3. ASSUME wpc \in ReadPCs PROVE wslot # front
    <3>1. threaded BY <2>3 DEF IInv, ThreadInv, ReadPCs
    <3>2. RingInv /\ DataTypeOK BY DEF IInv, TypeOK
    <3>3. wslot = SlotAt(count) BY <2>2, <2>3, <3>2 DEF RingInv, Buffered
    <3>4. front \in 0 .. size - 1 /\ count \in 1 .. size - 1 /\ size \in Nat
      BY <2>1, <2>3, <3>1, <3>2 DEF RingInv, DataTypeOK, Slots
    <3> QED BY <3>3, <3>4 DEF SlotAt
  <2> QED BY <2>1, <2>3
<1> QED BY <1>1, Invariance, PTL

\* The unlocked reads of a slot's lba in QueueReadSector and of the front
\* buffer in WaitForReadToComplete never meet the read thread's write.
THEOREM UnlockedReadsSafe ==
  ASSUME SerialClient
  PROVE  Spec => []NoSlotRace
<1>1. IInv => NoSlotRace
  <2> SUFFICES ASSUME IInv, wpc \in ReadPCs
               PROVE  /\ mpc \in {"queue_front", "wait_front"} => wslot # front
                      /\ mpc = "queue_next" /\ count > 1 => wslot # NextSlot(mfront)
    BY DEF NoSlotRace, ReadPCs
  <2>1. threaded BY DEF IInv, ThreadInv, ReadPCs
  <2>2. RingInv /\ DataTypeOK BY DEF IInv, TypeOK
  <2>3. front \in 0 .. size - 1 /\ count \in 0 .. size - 1 /\ size \in Nat
    BY <2>1, <2>2 DEF RingInv, DataTypeOK, Slots
  <2>4. mpc # "queue_sub" => wslot = SlotAt(count) BY <2>2 DEF RingInv, Buffered
  <2>5. ASSUME mpc \in {"queue_front", "wait_front"} PROVE wslot # front
    <3>1. count > 0 /\ wslot = SlotAt(count) BY <2>2, <2>4, <2>5 DEF RingInv
    <3> QED BY <2>3, <3>1 DEF SlotAt
  <2>6. ASSUME mpc = "queue_next", count > 1 PROVE wslot # NextSlot(mfront)
    <3>1. mfront = front /\ wslot = SlotAt(count) BY <2>2, <2>4, <2>6 DEF RingInv
    <3> QED BY <2>3, <2>6, <3>1 DEF SlotAt, NextSlot
  <2> QED BY <2>5, <2>6
<1> QED BY <1>1, Invariance, PTL

\* m_buffer_count stays within the ring: fetch_sub on the emulation thread
\* and fetch_add on the read thread lose no update and never cross a bound.
THEOREM CountBounded ==
  ASSUME SerialClient
  PROVE  Spec => []CountInBounds
<1>1. IInv => CountInBounds BY DEF IInv, RingInv, CountInBounds
<1> QED BY <1>1, Invariance, PTL

\* The read thread never uses the disc image while SetMedia or RemoveMedia
\* moves it, nor while there is none.
THEOREM MediaSafe ==
  ASSUME SerialClient
  PROVE  Spec => []MediaNotMovedInUse
<1>1. IInv => MediaNotMovedInUse
  <2> SUFFICES ASSUME IInv, UsingMedia
               PROVE  media /\ mpc # "move_media"
    BY DEF MediaNotMovedInUse
  <2>1. wpc \notin RestPCs BY DEF UsingMedia, RestPCs
  <2>2. threaded BY <2>1 DEF IInv, ThreadInv, RestPCs
  <2> QED BY <2>1, <2>2 DEF IInv, MediaInv
<1> QED BY <1>1, Invariance, PTL

=============================================================================
