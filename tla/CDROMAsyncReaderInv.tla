------------------------ MODULE CDROMAsyncReaderInv ------------------------
(***************************************************************************)
(* The inductive invariant of the asynchronous CD-ROM reader, for an       *)
(* emulation thread that waits for each request before it makes another    *)
(* call that depends on it (SerialClient).  Its parts are named after what *)
(* they relate; CDROMAsyncReaderProof proves that it is inductive.         *)
(***************************************************************************)
EXTENDS CDROMAsyncReader

SerialClient == Interrupts = {} /\ ~Reboot /\ RequestLBAs \subseteq DiscLBAs

QueuePCs  == {"queue_front", "queue_next", "queue_advance", "queue_sub", "queue_kick", "queue_lock"}
WaitPCs   == {"wait_count", "wait_front", "wait_lock", "wait_blocked"}
UncachedPCs == {"uncached_lock", "uncached_blocked"}
CancelPCs == {"cancel_lock", "cancel_blocked"}
StopPCs   == {"stop_lock", "stop_join"}
EmptyPCs  == {"empty_ring", "empty_count", "begin_seek"}
SeekPCs   == {"seek", "end_seek"}
ReadPCs   == {"read", "end_read"}
LockedPCs == {"check", "sleep", "empty_ring", "empty_count", "begin_seek", "fill", "end_readahead"}
RestPCs   == {"exited", "wake", "check", "sleep", "blocked"}

\* Who is alive, who holds the mutex, what m_is_reading means.
ThreadInv ==
  /\ threaded => size = ReadaheadCount
  /\ ~threaded => wpc = "exited" /\ size <= 1
  /\ threaded /\ wpc = "exited" => mpc = "stop_join"
  /\ mpc \in QueuePCs \cup UncachedPCs \cup CancelPCs \cup StopPCs => threaded
  /\ shutdown <=> (~threaded \/ mpc = "stop_join")
  /\ (mutex = "worker") <=> (wpc \in LockedPCs)
  /\ isReading <=> (wpc \in SeekPCs \cup ReadPCs)

\* What the emulation thread is waiting for while it is where it is.
ClientInv ==
  /\ mpc \in QueuePCs \cup WaitPCs => pending
  /\ mpc \in CancelPCs \cup StopPCs \cup {"move_media"} => ~pending
  /\ mpc \in QueuePCs => mlba = requested
  /\ pending => delivered = Nothing
  /\ pending \/ delivered # Nothing => requested \in RequestLBAs
  /\ delivered # Nothing => mpc \in {"idle"} \cup UncachedPCs
  /\ ~seekError

\* A new position is set only between the call that asks for it and the
\* read thread's answer; without one the read thread does not seek.
SeekInv ==
  /\ nextSet => pending /\ threaded /\ nextPos = requested
                /\ mpc \notin QueuePCs \cup {"wait_count", "wait_front"}
  /\ ~pending \/ mpc \in QueuePCs => wpc \notin SeekPCs
  /\ wpc \in EmptyPCs => nextSet
  /\ wpc = "begin_seek" \/ wpc \in SeekPCs => front = 0 /\ back = 0 /\ count = 0
  /\ wpc = "empty_count" => front = 0 /\ back = 0
  /\ wpc \in SeekPCs => ~nextSet /\ wlba = requested
  /\ wpc = "end_seek" => wseek /\ pos = requested

\* Without a disc, or while it is being moved, the read thread rests.
MediaInv ==
  /\ pending \/ delivered # Nothing \/ mpc \in UncachedPCs => media
  /\ ~media \/ mpc = "move_media" =>
       ~threaded \/ (wpc \in RestPCs /\ ~canReadahead /\ ~nextSet)

\* The slot at distance k behind the front.
SlotAt(k) == IF front + k < size THEN front + k ELSE front + k - size

\* Buffered sectors behind the front: QueueReadSector moves the front
\* before it decreases the count.
Buffered == IF mpc = "queue_sub" THEN count - 1 ELSE count

\* The buffered sectors, and the one being read, are the slots from front
\* to back.
RingInv ==
  /\ count <= size
  /\ ~threaded => front = 0 /\ back = 0
  /\ threaded => front < size /\ back < size
  /\ wpc \in ReadPCs => count < size /\ wslot = SlotAt(Buffered) /\ back = SlotAt(Buffered + 1)
  /\ threaded /\ wpc \notin ReadPCs \cup {"empty_count"} => back = SlotAt(Buffered)
  /\ mpc \in {"queue_front", "queue_next", "queue_kick", "wait_front"} => count > 0
  /\ mpc \in {"queue_advance", "queue_sub"} => count > 1
  /\ mpc \in {"queue_next", "queue_advance"} => mfront = front

\* What the slots contain.
SlotInv ==
  /\ \A i \in Slots : buffers[i].ok => buffers[i].data = buffers[i].lba
  /\ wpc = "read" => buffers[wslot].lba = pos
  /\ mpc = "queue_advance" => buffers[NextSlot(front)].lba = requested
  /\ mpc \in {"queue_sub", "queue_kick"} => buffers[front].lba = requested
  /\ delivered # Nothing => count > 0 /\ buffers[front] = delivered /\ delivered.lba = requested

\* A request that is under way: answered by the front buffer, or about to be.
AnswerInv ==
  pending /\ mpc \notin QueuePCs /\ ~nextSet =>
    /\ count > 0 => buffers[front].lba = requested
    /\ count = 0 => /\ threaded
                    /\ wpc \in SeekPCs \cup ReadPCs \cup {"fill"}
                    /\ wpc = "fill" => pos = requested
                    /\ wpc \in ReadPCs => buffers[wslot].lba = requested

IInv ==
  /\ TypeOK /\ ThreadInv /\ ClientInv /\ SeekInv /\ MediaInv /\ RingInv /\ SlotInv /\ AnswerInv

=============================================================================
