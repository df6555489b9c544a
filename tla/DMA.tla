-------------------------------- MODULE DMA --------------------------------
(***************************************************************************)
(* The DMA controller: core/dma.cpp.                                       *)
(*                                                                         *)
(* A channel transfers when it is enabled (DPCR), started (CHCR) and its   *)
(* device requests it.  Each of these starts the transfer at once, within  *)
(* the register write or the device's call of SetRequest, and a device     *)
(* that is handed a block may call SetRequest again: transfers nest.  The  *)
(* calls in progress are a stack of frames.  A transfer keeps its address  *)
(* and block count in its frame and stores them in the channel when it     *)
(* ends.  One that runs for too long is halted, and all channels are tried *)
(* again when an event says so.                                            *)
(*                                                                         *)
(* Addresses are counted in blocks (or list entries) from where the        *)
(* channel was started, block counts likewise; how many blocks a slice of  *)
(* time allows, and how long a halt lasts, is left open.                   *)
(***************************************************************************)
EXTENDS Integers, Sequences, FiniteSetsExt, SequencesExt

CONSTANTS
  Order,         \* the channels, in the order of their numbers
  Mode,          \* the sync mode the program uses for each: manual, request, list
  Starts,        \* channels and block counts, or lengths of lists, that are programmed
  Stops,         \* channels the program stops before they are done
  DpcrSettings,  \* what the program writes to DPCR: the enabled channels
  IrqSettings    \* what the program writes to DICR: enabled channels, master

Channels == ToSet(Order)

ASSUME ChannelsAssumption ==
  /\ Order \in Seq(Channels) /\ IsInjective(Order) /\ Order # <<>>
  /\ Mode \in [Channels -> {"manual", "request", "list"}]
  /\ Starts \subseteq Channels \X (Nat \ {0}) /\ Stops \subseteq Channels
  /\ DpcrSettings \subseteq SUBSET Channels
  /\ \A s \in IrqSettings : s.enable \subseteq Channels /\ s.master \in BOOLEAN

VARIABLES
  master,      \* channels enabled in DPCR
  busy,        \* channels whose CHCR enable/busy bit is set
  request,     \* channels whose device requests them
  base, left,  \* base_address, block_control
  halted,      \* m_unhalt_event is active
  irq,         \* DICR: enabled channels, master enable, flags
  istat,       \* the DMA bit of the interrupt controller's status
  stack,       \* the calls in progress
  total, moved \* of a busy channel: blocks programmed, blocks transferred

channelVars == <<master, busy, base, left, total, moved>>
irqVars == <<irq, istat>>
dmaVars == <<channelVars, request, halted, irqVars, stack>>

-----------------------------------------------------------------------------
(* Frames.                                                                 *)
Frame(op, c, p, n) == [op |-> op, ch |-> c, pos |-> p, left |-> n]
Call(op) == Frame(op, Order[1], 0, 0)

Idle == stack = <<>>
Top == Last(stack)
Rest == Front(stack)
At(op) == ~Idle /\ Top.op = op

Forget(c) ==
  /\ total' = [total EXCEPT ![c] = 0]
  /\ moved' = [moved EXCEPT ![c] = 0]

\* IsTransferHalted and CanTransferChannel, with the requests r.
CanTransferChannel(c, r, ignoreHalt) ==
  /\ c \in master /\ c \in busy /\ c \in r
  /\ Mode[c] # "manual" => ~halted \/ ignoreHalt

\* TransferChannel begins with what the channel's registers hold.
TransferChannel(c) == Frame("block", c, base[c], left[c])

\* A device raises or withdraws its request; the calls in progress are then s.
SetRequest(c, on, s) ==
  LET r == IF on THEN request \union {c} ELSE request \ {c}
  IN /\ request' = r
     /\ stack' = IF r # request /\ CanTransferChannel(c, r, FALSE)
                 THEN Append(s, TransferChannel(c)) ELSE s

-----------------------------------------------------------------------------
(* The program's register writes, each while nothing else is going on.     *)

\* MADR, BCR and a CHCR that starts the channel, although the DMA may be halted.
\* The OTC channel is its own device.
StartChannel(c, n) ==
  /\ Idle /\ c \notin busy
  /\ busy' = busy \union {c}
  /\ base' = [base EXCEPT ![c] = 0] /\ left' = [left EXCEPT ![c] = n]
  /\ total' = [total EXCEPT ![c] = n] /\ moved' = [moved EXCEPT ![c] = 0]
  /\ request' = IF c = "OTC" THEN request \union {c} ELSE request
  /\ stack' = IF c \in master /\ c \in request'
              THEN <<Frame("block", c, 0, n)>> ELSE <<>>
  /\ UNCHANGED <<master, halted, irqVars>>

\* A CHCR that stops the channel.
StopChannel(c) ==
  /\ Idle /\ c \in busy
  /\ busy' = busy \ {c} /\ Forget(c)
  /\ request' = IF c = "OTC" THEN request \ {c} ELSE request
  /\ UNCHANGED <<master, base, left, halted, irqVars, stack>>

\* Mutant of WriteDPCR: the channels are not looked at.
WriteDPCROnly(enabled) ==
  /\ Idle /\ master # enabled
  /\ master' = enabled
  /\ UNCHANGED <<busy, base, left, total, moved, request, halted, irqVars, stack>>

\* DPCR: channels are enabled or disabled, and all of them are looked at.
WriteDPCR(enabled) ==
  /\ Idle /\ master # enabled
  /\ master' = enabled
  /\ stack' = <<Frame("scan", Order[1], 0, 1)>>
  /\ UNCHANGED <<busy, base, left, total, moved, request, halted, irqVars>>

\* DICR: enable bits are written, flags acknowledged; no interrupt is requested.
WriteDICR(s, ack) ==
  /\ Idle
  /\ irq' = [enable |-> s.enable, master |-> s.master, flags |-> irq.flags \ ack]
  /\ UNCHANGED <<channelVars, request, halted, istat, stack>>

\* I_STAT.
AcknowledgeInterrupt ==
  /\ Idle /\ istat
  /\ istat' = FALSE
  /\ UNCHANGED <<channelVars, request, halted, irq, stack>>

-----------------------------------------------------------------------------
(* The halt's event, and the loop over all channels.                       *)

\* Mutant of UnhaltTransfer: the event stays active.
StayHalted ==
  /\ Idle /\ halted
  /\ stack' = <<Frame("scan", Order[1], 0, 1)>>
  /\ UNCHANGED <<channelVars, request, halted, irqVars>>

UnhaltTransfer ==
  /\ Idle /\ halted
  /\ halted' = FALSE
  /\ stack' = <<Frame("scan", Order[1], 0, 1)>>
  /\ UNCHANGED <<channelVars, request, irqVars>>

\* The loop goes on to the next channel that can transfer, or ends.
ScanChannels ==
  /\ At("scan")
  /\ LET ready == {i \in Top.left .. Len(Order) : CanTransferChannel(Order[i], request, FALSE)}
     IN stack' = IF ready = {} THEN Rest
                 ELSE Rest \o <<[Top EXCEPT !.left = Min(ready) + 1],
                                TransferChannel(Order[Min(ready)])>>
  /\ UNCHANGED <<channelVars, request, halted, irqVars>>

-----------------------------------------------------------------------------
(* A transfer.                                                             *)

\* One block goes to or comes from the device; a list entry may be empty.
TransferBlock ==
  /\ At("block")
  /\ LET c == Top.ch
         next == [Top EXCEPT !.op = "after", !.pos = @ + 1, !.left = @ - 1]
         device == Append(Append(Rest, next), Frame("device", c, 0, 0))
     IN /\ moved' = [moved EXCEPT ![c] = @ + 1]
        /\ stack' \in {device} \union IF Mode[c] = "list" THEN {Append(Rest, next)} ELSE {}
  /\ UNCHANGED <<master, busy, base, left, total, request, halted, irqVars>>

\* The loops over blocks and list entries, while there is time left.
NextBlock ==
  /\ At("after") /\ Mode[Top.ch] # "manual"
  /\ Top.left > 0 /\ Top.ch \in request
  /\ stack' = Append(Rest, [Top EXCEPT !.op = "block"])
  /\ UNCHANGED <<channelVars, request, halted, irqVars>>

\* Mutant of StoreProgress: the address is not stored.
StoreBlockCountOnly ==
  /\ left' = [left EXCEPT ![Top.ch] = Top.left]
  /\ UNCHANGED base

\* Where a transfer leaves the channel's registers.
StoreProgress ==
  /\ base' = [base EXCEPT ![Top.ch] = Top.pos]
  /\ left' = [left EXCEPT ![Top.ch] = Top.left]

\* The device has withdrawn its request: the rest is transferred later.
SuspendTransfer ==
  /\ At("after") /\ Mode[Top.ch] # "manual"
  /\ Top.left > 0 /\ Top.ch \notin request
  /\ StoreProgress
  /\ stack' = Rest
  /\ UNCHANGED <<master, busy, total, moved, request, halted, irqVars>>

\* It ran for too long: it is halted, and so is the loop that called it.
HaltTransfer ==
  /\ At("after") /\ Mode[Top.ch] # "manual"
  /\ Top.left > 0 /\ Top.ch \in request
  /\ StoreProgress
  /\ halted' = TRUE
  /\ stack' = IF Rest # <<>> /\ Last(Rest).op = "scan" THEN Front(Rest) ELSE Rest
  /\ UNCHANGED <<master, busy, total, moved, request, irqVars>>

\* SetIRQFlag, UpdateIRQ and UpdateMasterFlag.
SetIRQFlag(c) ==
  /\ irq' = IF c \in irq.enable THEN [irq EXCEPT !.flags = @ \union {c}] ELSE irq
  /\ istat' = (istat \/ (c \in irq.enable /\ irq.master))

\* All blocks, or the end of the list.  Manual mode leaves the registers alone.
CompleteTransfer ==
  /\ At("after") /\ (Mode[Top.ch] = "manual" \/ Top.left = 0)
  /\ IF Mode[Top.ch] = "manual" THEN UNCHANGED <<base, left>> ELSE StoreProgress
  /\ busy' = busy \ {Top.ch} /\ Forget(Top.ch)
  /\ SetIRQFlag(Top.ch)
  /\ stack' = Rest
  /\ UNCHANGED <<master, request, halted>>

-----------------------------------------------------------------------------
(* Devices other than the MDEC, which are asked for their part only.       *)

OtherDevices == Channels \ {"MDECin", "MDECout", "OTC"}

\* The device (its event, or a register) raises or withdraws its request.
DeviceRequest(c, on) ==
  /\ Idle /\ on # (c \in request)
  /\ SetRequest(c, on, <<>>)
  /\ UNCHANGED <<channelVars, halted, irqVars>>

\* It takes a block, and may be full afterwards.  Clearing the ordering table
\* involves no device.
DeviceBlock ==
  /\ At("device") /\ Top.ch \notin {"MDECin", "MDECout"}
  /\ \E on \in IF Top.ch = "OTC" THEN {TRUE} ELSE BOOLEAN : SetRequest(Top.ch, on, Rest)
  /\ UNCHANGED <<channelVars, halted, irqVars>>

-----------------------------------------------------------------------------
\* DMA::Reset, with no request before the devices are reset as well.
DMAInit ==
  /\ master = {} /\ busy = {} /\ request = {}
  /\ base = [c \in Channels |-> 0] /\ left = [c \in Channels |-> 0]
  /\ total = [c \in Channels |-> 0] /\ moved = [c \in Channels |-> 0]
  /\ halted = FALSE
  /\ irq = [enable |-> {}, master |-> FALSE, flags |-> {}] /\ istat = FALSE
  /\ stack = <<>>

\* What the program and the other devices do, while nothing else is going on.
ProgramDMA ==
  \/ \E s \in Starts : StartChannel(s[1], s[2])
  \/ \E c \in Stops : StopChannel(c)
  \/ \E enabled \in DpcrSettings : WriteDPCR(enabled)
  \/ \E s \in IrqSettings, ack \in {{}, irq.flags} : WriteDICR(s, ack)
  \/ AcknowledgeInterrupt
  \/ \E c \in OtherDevices, on \in BOOLEAN : DeviceRequest(c, on)

DMAStep ==
  \/ ScanChannels \/ TransferBlock \/ NextBlock
  \/ SuspendTransfer \/ HaltTransfer \/ CompleteTransfer \/ DeviceBlock

DMANext == ProgramDMA \/ DMAStep \/ UnhaltTransfer

DMASpec == DMAInit /\ [][DMANext]_dmaVars

(* Calls return and the event runs.  The program and the devices let the   *)
(* DMA alone in the end: while they do not, the halts of a channel that is *)
(* started over and over hold up those behind it.                          *)
DMAFairSpec ==
  /\ DMASpec
  /\ WF_dmaVars(DMAStep) /\ WF_dmaVars(UnhaltTransfer)
  /\ <>[][~ProgramDMA]_dmaVars

-----------------------------------------------------------------------------
(* Properties.                                                             *)

DMATypeOK ==
  /\ {master, busy, request} \subseteq SUBSET Channels
  /\ {base, left, total, moved} \subseteq [Channels -> Nat]
  /\ halted \in BOOLEAN /\ istat \in BOOLEAN
  /\ irq \in [enable : SUBSET Channels, master : BOOLEAN, flags : SUBSET Channels]
  /\ stack \in Seq([op : {"block", "after", "device", "scan", "execute", "statusIn", "statusOut"},
                    ch : Channels, pos : Nat, left : Nat])

\* The transfers of a channel that are in progress.
Transfers(c) == {i \in 1 .. Len(stack) : stack[i].ch = c /\ stack[i].op \in {"block", "after"}}

\* ReadyChannelRuns: when control is back at the program, no channel that may
\* transfer (enabled, started, requested, not halted) has been forgotten.  A
\* channel in manual mode may be: the loops stop at the first one that is halted.
ReadyChannelRuns ==
  Idle => \A c \in Channels : Mode[c] # "manual" => ~CanTransferChannel(c, request, FALSE)

\* BlocksOnce: across suspensions, halts and nested transfers, a channel's
\* registers say exactly which blocks have been transferred: none is lost or
\* transferred twice when the transfer goes on (what TransferChannel stores).
BlocksOnce ==
  \A c \in busy : Mode[c] # "manual" /\ Transfers(c) = {} =>
    base[c] = moved[c] /\ base[c] + left[c] = total[c]

\* TransfersEnd: once the program only waits, no channel stays able to
\* transfer: UnhaltTransfer resumes the halted, and those behind have their turn.
TransfersEnd ==
  \A c \in Channels :
    c \in master \intersect busy \intersect request
      ~> c \notin master \intersect busy \intersect request
=============================================================================
