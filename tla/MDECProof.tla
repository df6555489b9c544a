----------------------------- MODULE MDECProof -----------------------------
(***************************************************************************)
(* The macroblock decoder between its two DMA channels, proved for FIFOs,  *)
(* blocks, commands and programs of any kind.                              *)
(*                                                                         *)
(* The calls in progress may nest to any depth here: the decoder's status  *)
(* updates start transfers within transfers.  What the proofs need of them *)
(* is little: which calls can be below the one on top, and that a block is *)
(* transferred only for a channel that is requested.  Which transfers may  *)
(* be in progress at once needs more, and has an invariant of its own.     *)
(***************************************************************************)
EXTENDS MDEC, DMAProof

-----------------------------------------------------------------------------
(* The invariant.                                                          *)

\* Calls that are waiting for the ones above them.
Lower(s) ==
  \A i \in 1 .. Len(s) : /\ s[i].op \in {"after", "scan", "execute", "statusOut"}
                         /\ s[i].op = "scan" => s[i].left > 0

\* A call that is about to go on, with the requests r.
OnTop(f, r) ==
  /\ f.op \in {"block", "device"} => f.ch \in r
  /\ f.op \in {"block", "scan"} => f.left > 0

Stacked(s, r) ==
  s = <<>> \/ \E t \in Seq(Frames), f \in Frames : s = Append(t, f) /\ Lower(t) /\ OnTop(f, r)

\* A channel that is started has blocks left.
Programmed == \A c \in busy : left[c] > 0

CallsOK == DMATypeOK /\ Stacked(stack, request) /\ Programmed

\* The decoder's variables, and a macroblock that waits for the event that copies it out.
DecoderOK ==
  /\ mstate \in {"idle", "decoding", "writing", "table", "none"}
  /\ remaining \in Nat /\ owed \in Nat
  /\ inFifo \in Seq(Words) /\ Len(inFifo) <= InSize
  /\ outCount \in Nat /\ outCount <= OutSize
  /\ dmaIn \in BOOLEAN /\ dmaOut \in BOOLEAN /\ copyOut \in BOOLEAN
  /\ decoded \in BOOLEAN /\ mono \in BOOLEAN
  /\ copyOut => mstate = "writing" /\ outCount = 0
  /\ mstate = "table" => remaining > 0

\* What the DMA has been told of the two FIFOs.
InTold == "MDECin" \in request <=> dmaIn /\ Space >= Threshold
OutTold == "MDECout" \in request <=> dmaOut /\ outCount > 0

\* A status update is still to come.
Updates == {"execute", "statusIn", "statusOut"}
Pending(s) == \E i \in 1 .. Len(s) : s[i].op \in Updates

\* The input request is true whenever the DMA runs, within a status update too; the output
\* request is when no update is under way.
Told ==
  /\ Idle \/ Top.op \notin {"execute", "statusIn"} => InTold
  /\ ~Pending(stack) => OutTold

DecoderInvariant == CallsOK /\ DecoderOK /\ Told

-----------------------------------------------------------------------------
(* The calls in progress.                                                  *)

\* A call is put on top of others.
LEMMA Pushed ==
  ASSUME NEW s \in Seq(Frames), NEW f \in Frames
  PROVE  /\ Append(s, f) \in Seq(Frames) /\ Append(s, f) # <<>>
         /\ Last(Append(s, f)) = f /\ Front(Append(s, f)) = s
         /\ Pending(Append(s, f)) <=> Pending(s) \/ f.op \in Updates
         /\ Lower(Append(s, f)) <=>
              Lower(s) /\ f.op \in {"after", "scan", "execute", "statusOut"}
                       /\ (f.op = "scan" => f.left > 0)
         /\ \A r : Lower(s) /\ OnTop(f, r) => Stacked(Append(s, f), r)
<1>1. /\ Len(Append(s, f)) = Len(s) + 1 /\ Len(s) \in Nat
      /\ Append(s, f)[Len(s) + 1] = f
      /\ \A i \in 1 .. Len(s) : Append(s, f)[i] = s[i]
  BY AppendProperties, LenProperties
<1>2. 1 .. Len(s) + 1 = (1 .. Len(s)) \cup {Len(s) + 1}
  BY <1>1
<1>3. Pending(Append(s, f)) <=> Pending(s) \/ f.op \in Updates
  BY <1>1, <1>2 DEF Pending
<1>4. Lower(Append(s, f)) <=>
        Lower(s) /\ f.op \in {"after", "scan", "execute", "statusOut"}
                 /\ (f.op = "scan" => f.left > 0)
  <2> DEFINE P(e) == /\ e.op \in {"after", "scan", "execute", "statusOut"}
                     /\ e.op = "scan" => e.left > 0
  <2>1. Lower(Append(s, f)) <=> \A i \in 1 .. Len(s) + 1 : P(Append(s, f)[i])
    BY <1>1 DEF Lower
  <2>2. Lower(s) <=> \A i \in 1 .. Len(s) : P(s[i])
    BY DEF Lower
  <2>. HIDE DEF P
  <2>3. (\A i \in 1 .. Len(s) + 1 : P(Append(s, f)[i])) <=> (\A i \in 1 .. Len(s) : P(s[i])) /\ P(f)
    BY <1>1, <1>2
  <2>. QED
    BY <2>1, <2>2, <2>3 DEF P
<1>. QED
  BY <1>3, <1>4, PushPop DEF Stacked

LEMMA Empty == /\ <<>> \in Seq(Frames) /\ Lower(<<>>) /\ ~Pending(<<>>)
               /\ \A r : Stacked(<<>>, r)
BY DEF Lower, Pending, Stacked

\* The call on top, and those below it.
LEMMA TopCall ==
  ASSUME CallsOK, ~Idle
  PROVE  /\ stack \in Seq(Frames) /\ stack = Append(Rest, Top)
         /\ Rest \in Seq(Frames) /\ Top \in Frames
         /\ Lower(Rest) /\ OnTop(Top, request)
         /\ Top.ch \in Channels /\ Top.pos \in Nat /\ Top.left \in Nat
         /\ Pending(stack) <=> Pending(Rest) \/ Top.op \in Updates
<1>1. stack \in Seq(Frames)
  BY TypeFact DEF CallsOK
<1>2. PICK t \in Seq(Frames), f \in Frames : stack = Append(t, f) /\ Lower(t) /\ OnTop(f, request)
  BY DEF CallsOK, Stacked, Idle
<1>3. Top = f /\ Rest = t
  BY <1>2, Pushed DEF Top, Rest
<1>. QED
  BY <1>1, <1>2, <1>3, Pushed, FramesFact

\* The call on top ends.
LEMMA Popped ==
  ASSUME NEW s \in Seq(Frames), Lower(s), s # <<>>
  PROVE  /\ s = Append(Front(s), Last(s))
         /\ Front(s) \in Seq(Frames) /\ Last(s) \in Frames
         /\ Lower(Front(s))
         /\ Last(s).op \in {"after", "scan", "execute", "statusOut"}
         /\ \A r : Stacked(s, r)
         /\ Pending(s) <=> Pending(Front(s)) \/ Last(s).op \in Updates
<1>1. PICK t \in Seq(Frames), f \in Frames : s = Append(t, f)
  BY SequenceEmptyOrAppend
<1>2. Front(s) = t /\ Last(s) = f
  BY <1>1, Pushed
<1>. QED
  BY <1>1, <1>2, Pushed DEF OnTop

\* The calls that are made have the type of calls.
LEMMA CallFact ==
  /\ \A op \in {"execute", "statusIn", "statusOut"} :
       /\ Call(op) \in Frames /\ Call(op).op = op
       /\ \A r : OnTop(Call(op), r)
  /\ Frame("scan", Order[1], 0, 1) \in Frames
  /\ Frame("scan", Order[1], 0, 1).op = "scan" /\ Frame("scan", Order[1], 0, 1).left = 1
BY FramesFact DEF Call, Frame, Frames, OnTop

LEMMA CallsFact ==
  ASSUME CallsOK
  PROVE  /\ master \subseteq Channels /\ busy \subseteq Channels /\ request \subseteq Channels
         /\ Registers /\ halted \in BOOLEAN /\ istat \in BOOLEAN /\ stack \in Seq(Frames)
         /\ irq \in [enable : SUBSET Channels, master : BOOLEAN, flags : SUBSET Channels]
BY TypeFact DEF CallsOK, DMATypeOK, Registers

LEMMA CallsFrom ==
  ASSUME Registers', Programmed', stack' \in Seq(Frames), Stacked(stack', request'),
         master' \subseteq Channels, busy' \subseteq Channels, request' \subseteq Channels,
         halted' \in BOOLEAN, istat' \in BOOLEAN,
         irq' \in [enable : SUBSET Channels, master : BOOLEAN, flags : SUBSET Channels]
  PROVE  CallsOK'
BY DEF CallsOK, DMATypeOK, Registers, Frames

\* The decoder changes the requests and the calls only.
LEMMA CallsKept ==
  ASSUME CallsOK, UNCHANGED idleDMA, request' \subseteq Channels,
         stack' \in Seq(Frames), Stacked(stack', request')
  PROVE  CallsOK'
<1>1. Programmed'
  BY DEF CallsOK, Programmed, idleDMA, channelVars
<1>. QED
  BY <1>1, CallsFact, CallsFrom DEF Registers, idleDMA, channelVars, irqVars

\* A request is raised or withdrawn while the calls s are waiting.
LEMMA RequestEffect ==
  ASSUME CallsOK, NEW c \in Channels, NEW on \in BOOLEAN,
         NEW s \in Seq(Frames), Lower(s), SetRequest(c, on, s)
  PROVE  /\ request' \subseteq Channels
         /\ c \in request' <=> on
         /\ \A d : d # c => (d \in request' <=> d \in request)
         /\ stack' \in Seq(Frames) /\ Stacked(stack', request')
         /\ Pending(stack') <=> Pending(s)
         /\ stack' = s \/ (stack' # <<>> /\ Last(stack').op = "block")
<1>1. request' = IF on THEN request \cup {c} ELSE request \ {c}
  BY DEF SetRequest
<1>2. \/ stack' = s
      \/ /\ stack' = Append(s, TransferChannel(c))
         /\ CanTransferChannel(c, request', FALSE)
  BY DEF SetRequest
<1>3. request' \subseteq Channels /\ (c \in request' <=> on)
      /\ \A d : d # c => (d \in request' <=> d \in request)
  BY <1>1, CallsFact
<1>4. CASE stack' = s
  <2>1. Stacked(s, request')
    BY Popped, Empty
  <2>. QED
    BY <1>3, <1>4, <2>1
<1>5. CASE stack' = Append(s, TransferChannel(c)) /\ CanTransferChannel(c, request', FALSE)
  <2>1. /\ TransferChannel(c) \in Frames /\ TransferChannel(c).op = "block"
        /\ TransferChannel(c).ch = c /\ TransferChannel(c).left = left[c]
    BY BlockFrame DEF CallsOK
  <2>2. c \in request' /\ left[c] > 0
    BY <1>5 DEF CanTransferChannel, CallsOK, Programmed
  <2>3. OnTop(TransferChannel(c), request')
    BY <2>1, <2>2 DEF OnTop
  <2>4. Pending(stack') <=> Pending(s)
    BY <1>5, <2>1, Pushed DEF Updates
  <2>5. stack' \in Seq(Frames) /\ Stacked(stack', request')
    BY <1>5, <2>1, <2>3, Pushed
  <2>6. stack' # <<>> /\ Last(stack').op = "block"
    BY <1>5, <2>1, Pushed
  <2>. QED
    BY <1>3, <2>4, <2>5, <2>6
<1>. QED
  BY <1>2, <1>4, <1>5

-----------------------------------------------------------------------------
(* The DMA's steps, which leave the decoder alone.                         *)

\* Neither the decoder's requests nor its updates that are still to come are touched.
Undisturbed ==
  /\ Idle \/ Top.op \notin {"execute", "statusIn"}
  /\ "MDECin" \in request' <=> "MDECin" \in request
  /\ "MDECout" \in request' <=> "MDECout" \in request
  /\ Pending(stack) => Pending(stack')

LEMMA StartKeeps ==
  ASSUME CallsOK, NEW c \in Channels, NEW n \in Nat \ {0}, StartChannel(c, n)
  PROVE  CallsOK' /\ Undisturbed
<1> DEFINE f == Frame("block", c, 0, n)
<1>1. f \in Frames /\ f.op = "block" /\ f.ch = c /\ f.left = n
  BY DEF Frame, Frames
<1>2. Registers' /\ Programmed'
  <2>1. Registers'
    BY CallsFact DEF StartChannel, Registers
  <2>2. left' = [left EXCEPT ![c] = n] /\ busy' = busy \cup {c} /\ left \in [Channels -> Nat]
    BY CallsFact DEF StartChannel, Registers
  <2>. QED
    BY <2>1, <2>2, CallsFact DEF CallsOK, Programmed
<1>3. /\ request \subseteq request' /\ request' \subseteq request \cup {"OTC"}
      /\ request' \subseteq Channels /\ busy' \subseteq Channels
  BY CallsFact DEF StartChannel
<1>4. /\ stack' = <<>> \/ (stack' = Append(<<>>, f) /\ c \in request')
      /\ Idle /\ stack = <<>>
  <2>1. Append(<<>>, f) = <<f>>
    OBVIOUS
  <2>2. CASE c \in master /\ c \in request'
    BY <2>1, <2>2 DEF StartChannel, Idle
  <2>3. CASE ~(c \in master /\ c \in request')
    BY <2>3 DEF StartChannel, Idle
  <2>. QED
    BY <2>2, <2>3
<1>. HIDE DEF f
<1>5. stack' \in Seq(Frames) /\ Stacked(stack', request')
  <2>1. c \in request' => OnTop(f, request')
    BY <1>1 DEF OnTop
  <2>2. CASE stack' = <<>>
    BY <2>2, Empty
  <2>3. CASE stack' = Append(<<>>, f) /\ c \in request'
    BY <1>1, <2>1, <2>3, Empty, Pushed
  <2>. QED
    BY <1>4, <2>2, <2>3
<1>6. UNCHANGED <<master, halted, irq, istat>>
  BY DEF StartChannel, irqVars
<1>7. CallsOK'
  BY <1>2, <1>3, <1>5, <1>6, CallsFact, CallsFrom
<1>. QED
  BY <1>3, <1>4, <1>7, Empty DEF Undisturbed

LEMMA StopKeeps == ASSUME CallsOK, NEW c \in Channels, StopChannel(c) PROVE CallsOK' /\ Undisturbed
<1>1. Registers'
  BY CallsFact DEF StopChannel, Forget, Registers
<1>2. Programmed' /\ busy' \subseteq Channels
  BY CallsFact DEF StopChannel, CallsOK, Programmed
<1>3. /\ request' \subseteq request /\ request \ {"OTC"} \subseteq request'
      /\ Idle /\ stack' = stack /\ stack = <<>>
  BY DEF StopChannel, Idle
<1>4. UNCHANGED <<master, halted, irq, istat>>
  BY DEF StopChannel, irqVars
<1>5. CallsOK'
  BY <1>1, <1>2, <1>3, <1>4, Empty, CallsFact, CallsFrom
<1>. QED
  BY <1>3, <1>5 DEF Undisturbed

\* All channels are looked at, from the first one on.
LEMMA LookKeeps ==
  ASSUME CallsOK, Idle, stack' = <<Frame("scan", Order[1], 0, 1)>>,
         master' \subseteq Channels, halted' \in BOOLEAN,
         UNCHANGED <<busy, base, left, total, moved, request, irqVars>>
  PROVE  CallsOK' /\ Undisturbed
<1> DEFINE f == Frame("scan", Order[1], 0, 1)
<1>1. f \in Frames /\ f.op = "scan" /\ f.left = 1
  BY CallFact
<1>2. stack' = Append(<<>>, f)
  OBVIOUS
<1>. HIDE DEF f
<1>3. stack' \in Seq(Frames) /\ Stacked(stack', request')
  <2>1. OnTop(f, request')
    BY <1>1 DEF OnTop
  <2>. QED
    BY <1>1, <1>2, <2>1, Empty, Pushed
<1>4. Registers' /\ Programmed'
  BY CallsFact DEF Registers, CallsOK, Programmed
<1>5. CallsOK'
  BY <1>3, <1>4, CallsFact, CallsFrom DEF irqVars
<1>. QED
  BY <1>5, Empty DEF Undisturbed, Idle

LEMMA ProgramKeeps ==
  ASSUME CallsOK, ProgramDMA \/ UnhaltTransfer
  PROVE  CallsOK' /\ Undisturbed
<1>1. ASSUME NEW s \in Starts, StartChannel(s[1], s[2]) PROVE CallsOK' /\ Undisturbed
  <2>1. s[1] \in Channels /\ s[2] \in Nat \ {0}
    BY ChannelsAssumption
  <2>. QED
    BY <1>1, <2>1, StartKeeps
<1>2. ASSUME NEW c \in Stops, StopChannel(c) PROVE CallsOK' /\ Undisturbed
  BY <1>2, StopKeeps, ChannelsAssumption
<1>3. ASSUME NEW enabled \in DpcrSettings, WriteDPCR(enabled) PROVE CallsOK' /\ Undisturbed
  <2>1. enabled \subseteq Channels
    BY ChannelsAssumption
  <2>. QED
    BY <1>3, <2>1, LookKeeps, CallsFact DEF WriteDPCR
<1>4. ASSUME NEW s \in IrqSettings, NEW ack \in {{}, irq.flags}, WriteDICR(s, ack)
      PROVE  CallsOK' /\ Undisturbed
  <2>1. s.enable \subseteq Channels /\ s.master \in BOOLEAN
    BY ChannelsAssumption
  <2>2. irq' \in [enable : SUBSET Channels, master : BOOLEAN, flags : SUBSET Channels]
    BY <1>4, <2>1, CallsFact DEF WriteDICR
  <2>3. UNCHANGED <<master, busy, base, left, total, moved, request, halted, istat, stack>> /\ Idle
    BY <1>4 DEF WriteDICR, channelVars
  <2>4. CallsOK'
    BY <2>2, <2>3, CallsFact, CallsFrom DEF CallsOK, Registers, Programmed
  <2>. QED
    BY <2>3, <2>4 DEF Undisturbed
<1>5. CASE AcknowledgeInterrupt
  <2>1. UNCHANGED <<master, busy, base, left, total, moved, request, halted, irq, stack>>
        /\ istat' = FALSE /\ Idle
    BY <1>5 DEF AcknowledgeInterrupt, channelVars
  <2>2. CallsOK'
    BY <2>1, CallsFact, CallsFrom DEF CallsOK, Registers, Programmed
  <2>. QED
    BY <2>1, <2>2 DEF Undisturbed
<1>6. ASSUME NEW c \in OtherDevices, NEW on \in BOOLEAN, DeviceRequest(c, on)
      PROVE  CallsOK' /\ Undisturbed
  <2>1. c \in Channels /\ c \notin {"MDECin", "MDECout"}
    BY DEF OtherDevices
  <2>2. SetRequest(c, on, <<>>) /\ UNCHANGED idleDMA /\ Idle
    BY <1>6 DEF DeviceRequest, idleDMA
  <2>3. /\ request' \subseteq Channels /\ stack' \in Seq(Frames) /\ Stacked(stack', request')
        /\ "MDECin" \in request' <=> "MDECin" \in request
        /\ "MDECout" \in request' <=> "MDECout" \in request
    BY <2>1, <2>2, RequestEffect, Empty
  <2>. QED
    BY <2>2, <2>3, CallsKept, Empty DEF Undisturbed, Idle
<1>7. CASE UnhaltTransfer
  BY <1>7, LookKeeps, CallsFact DEF UnhaltTransfer, channelVars
<1>. QED
  BY <1>1, <1>2, <1>3, <1>4, <1>5, <1>6, <1>7 DEF ProgramDMA

LEMMA ScanKeeps == ASSUME CallsOK, ScanChannels PROVE CallsOK' /\ Undisturbed
<1>1. /\ At("scan") /\ ~Idle /\ Top.op = "scan" /\ Top.left > 0
      /\ UNCHANGED idleDMA /\ request' = request
  BY TopCall DEF ScanChannels, At, OnTop, idleDMA
<1>2. /\ Rest \in Seq(Frames) /\ Top \in Frames /\ Lower(Rest) /\ Top.left \in Nat
      /\ Pending(stack) <=> Pending(Rest)
  BY <1>1, TopCall DEF Updates
<1>0. PICK t \in Frames : t = Top /\ t.op = "scan" /\ t.left > 0 /\ t.left \in Nat
  BY <1>1, <1>2
<1> DEFINE Can(i) == CanTransferChannel(Order[i], request, FALSE)
           ready == {i \in t.left .. Len(Order) : Can(i)}
           loop == [t EXCEPT !.left = Min(ready) + 1]
           first == TransferChannel(Order[Min(ready)])
<1>3. CASE ready = {}
  <2>1. stack' = Rest
    BY <1>0, <1>3 DEF ScanChannels
  <2>2. Stacked(stack', request')
    BY <1>2, <2>1, Popped, Empty
  <2>. QED
    BY <1>1, <1>2, <2>1, <2>2, CallsFact, CallsKept DEF Undisturbed
<1>4. CASE ready # {}
  <2>1. stack' = Rest \o <<loop, first>>
    BY <1>0, <1>4 DEF ScanChannels
  <2>2. Len(Order) \in Nat
    BY ChannelsAssumption, LenProperties
  <2>3. Min(ready) \in 1 .. Len(Order) /\ CanTransferChannel(Order[Min(ready)], request, FALSE)
    <3>1. ready \subseteq Nat
      <4>. HIDE DEF Can
      <4>. QED
        BY <1>0, <2>2
    <3>2. Min(ready) \in ready
      <4>. HIDE DEF ready
      <4>. QED
        BY <1>4, <3>1, Smallest
    <3>3. Min(ready) \in t.left .. Len(Order) /\ Can(Min(ready))
      BY <3>2
    <3>4. CanTransferChannel(Order[Min(ready)], request, FALSE)
      BY <3>3
    <3>5. Min(ready) \in 1 .. Len(Order)
      <4>. HIDE DEF ready, Can
      <4>. QED
        BY <1>0, <2>2, <3>3
    <3>. QED
      BY <3>4, <3>5
  <2>. HIDE DEF ready, Can
  <2>4. Order[Min(ready)] \in Channels
    BY <2>3, ChannelsAssumption, ElementOfSeq
  <2>5. /\ first \in Frames /\ first.op = "block" /\ first.ch = Order[Min(ready)]
        /\ first.left = left[Order[Min(ready)]]
    BY <2>4, BlockFrame DEF CallsOK
  <2>6. first.ch \in request /\ first.left > 0
    BY <2>3, <2>5 DEF CanTransferChannel, CallsOK, Programmed
  <2>7. loop \in Frames /\ loop.op = "scan" /\ loop.left > 0
    BY <1>0, <2>3 DEF Frames
  <2>. HIDE DEF loop, first
  <2>8. stack' = Append(Append(Rest, loop), first)
    BY <1>2, <2>1, <2>5, <2>7
  <2>9. /\ Append(Rest, loop) \in Seq(Frames) /\ Lower(Append(Rest, loop))
        /\ Pending(Append(Rest, loop)) <=> Pending(Rest)
    BY <1>2, <2>7, Pushed DEF Updates
  <2>10. OnTop(first, request')
    BY <1>1, <2>5, <2>6 DEF OnTop
  <2>11. /\ stack' \in Seq(Frames) /\ Stacked(stack', request')
         /\ Pending(stack') <=> Pending(Rest)
    BY <2>5, <2>8, <2>9, <2>10, Pushed DEF Updates
  <2>. QED
    BY <1>1, <1>2, <2>11, CallsFact, CallsKept DEF Undisturbed
<1>. QED
  BY <1>3, <1>4

\* What a transfer writes into the channel's registers while it is on top.
LEMMA BlockKeeps == ASSUME CallsOK, TransferBlock PROVE CallsOK' /\ Undisturbed
<1>0. PICK t \in Frames : t = Top
  BY TopCall DEF TransferBlock, At
<1> DEFINE c == t.ch
           next == [t EXCEPT !.op = "after", !.pos = @ + 1, !.left = @ - 1]
           device == Frame("device", c, 0, 0)
<1>1. /\ ~Idle /\ Top.op = "block"
      /\ UNCHANGED <<master, busy, base, left, total, request, halted, irqVars>>
      /\ moved' = [moved EXCEPT ![c] = @ + 1]
      /\ stack' \in {Append(Append(Rest, next), device), Append(Rest, next)}
  BY <1>0 DEF TransferBlock, At
<1>2. /\ Rest \in Seq(Frames) /\ Lower(Rest) /\ OnTop(t, request)
      /\ t.op = "block" /\ c \in Channels /\ t.pos \in Nat /\ t.left \in Nat
      /\ Pending(stack) <=> Pending(Rest)
  BY <1>0, <1>1, TopCall DEF Updates
<1>3. c \in request /\ t.left > 0
  BY <1>1, <1>2 DEF OnTop
<1>4. next \in Frames /\ next.op = "after" /\ next.left = t.left - 1
  <2>1. t.pos + 1 \in Nat /\ t.left - 1 \in Nat
    BY <1>2, <1>3
  <2>2. next = [t EXCEPT !.op = "after", !.pos = t.pos + 1, !.left = t.left - 1]
    BY DEF Frames
  <2>. HIDE DEF next
  <2>. QED
    BY <2>1, <2>2 DEF Frames
<1>5. device \in Frames /\ device.op = "device" /\ device.ch = c
  BY <1>2 DEF Frame, Frames
<1>6. Registers' /\ Programmed'
  BY SMTT(30), <1>1, <1>2, CallsFact DEF Registers, CallsOK, Programmed
<1>. HIDE DEF c, next, device
<1>7. /\ Append(Rest, next) \in Seq(Frames) /\ Lower(Append(Rest, next))
      /\ Pending(Append(Rest, next)) <=> Pending(Rest)
      /\ OnTop(next, request)
  <2>1. OnTop(next, request)
    BY <1>4 DEF OnTop
  <2>. QED
    BY <1>2, <1>4, <2>1, Pushed DEF Updates
<1>8. /\ stack' \in Seq(Frames) /\ Stacked(stack', request)
      /\ Pending(stack') <=> Pending(Rest)
  <2>1. CASE stack' = Append(Rest, next)
    BY <1>2, <1>4, <1>7, <2>1, Pushed
  <2>2. CASE stack' = Append(Append(Rest, next), device)
    <3>1. OnTop(device, request)
      BY <1>3, <1>5 DEF OnTop
    <3>. QED
      BY <1>5, <1>7, <2>2, <3>1, Pushed DEF Updates
  <2>. QED
    BY <1>1, <2>1, <2>2
<1>9. CallsOK'
  BY <1>1, <1>6, <1>8, CallsFact, CallsFrom DEF irqVars
<1>. QED
  BY <1>1, <1>2, <1>8, <1>9 DEF Undisturbed

LEMMA NextBlockKeeps == ASSUME CallsOK, NextBlock PROVE CallsOK' /\ Undisturbed
<1> DEFINE f == [Top EXCEPT !.op = "block"]
<1>1. /\ ~Idle /\ Top.op = "after" /\ Top.left > 0 /\ Top.ch \in request
      /\ UNCHANGED idleDMA /\ request' = request /\ stack' = Append(Rest, f)
  BY DEF NextBlock, At, idleDMA
<1>2. /\ Rest \in Seq(Frames) /\ Top \in Frames /\ Lower(Rest)
      /\ Pending(stack) <=> Pending(Rest)
  BY <1>1, TopCall DEF Updates
<1>3. f \in Frames /\ f.op = "block" /\ f.left = Top.left /\ f.ch = Top.ch
  BY <1>2 DEF Frames
<1>. HIDE DEF f
<1>4. OnTop(f, request')
  BY <1>1, <1>3 DEF OnTop
<1>5. /\ stack' \in Seq(Frames) /\ Stacked(stack', request')
      /\ Pending(stack') <=> Pending(Rest)
  BY <1>1, <1>2, <1>3, <1>4, Pushed DEF Updates
<1>. QED
  BY <1>1, <1>2, <1>5, CallsFact, CallsKept DEF Undisturbed

\* The transfer on top ends, for now or for good.
LEMMA EndKeeps ==
  ASSUME CallsOK, SuspendTransfer \/ HaltTransfer \/ CompleteTransfer
  PROVE  CallsOK' /\ Undisturbed
<1>1. ~Idle /\ Top.op = "after" /\ request' = request /\ master' = master
  BY DEF SuspendTransfer, HaltTransfer, CompleteTransfer, At
<1>2. /\ Rest \in Seq(Frames) /\ Top \in Frames /\ Lower(Rest)
      /\ Top.ch \in Channels /\ Top.pos \in Nat /\ Top.left \in Nat
      /\ Pending(stack) <=> Pending(Rest)
  BY <1>1, TopCall DEF Updates
<1>3. /\ stack' \in Seq(Frames) /\ Stacked(stack', request')
      /\ Pending(stack') <=> Pending(Rest)
  <2>1. CASE stack' = Rest
    BY <1>2, <2>1, Popped, Empty
  <2>2. CASE stack' = Front(Rest) /\ Rest # <<>> /\ Last(Rest).op = "scan"
    <3>1. /\ Front(Rest) \in Seq(Frames) /\ Lower(Front(Rest))
          /\ Pending(Rest) <=> Pending(Front(Rest))
      BY <1>2, <2>2, Popped DEF Updates
    <3>. QED
      BY <2>2, <3>1, Popped, Empty
  <2>. QED
    BY <2>1, <2>2 DEF SuspendTransfer, HaltTransfer, CompleteTransfer
<1>4. StoreProgress => /\ base' \in [Channels -> Nat] /\ left' \in [Channels -> Nat]
                       /\ left' = [left EXCEPT ![Top.ch] = Top.left]
  BY <1>2, CallsFact DEF StoreProgress, Registers
<1>5. CASE SuspendTransfer \/ HaltTransfer
  <2>1. StoreProgress /\ Top.left > 0 /\ UNCHANGED <<busy, total, moved, irqVars>>
    BY <1>5 DEF SuspendTransfer, HaltTransfer
  <2>2. Registers' /\ Programmed' /\ halted' \in BOOLEAN
    <3>1. Registers'
      BY <1>4, <2>1, CallsFact DEF Registers
    <3>2. Programmed'
      BY <1>2, <1>4, <2>1, CallsFact DEF CallsOK, Programmed, Registers
    <3>3. halted' \in BOOLEAN
      BY <1>5, CallsFact DEF SuspendTransfer, HaltTransfer
    <3>. QED
      BY <3>1, <3>2, <3>3
  <2>. QED
    BY <1>1, <1>2, <1>3, <2>1, <2>2, CallsFact, CallsFrom DEF Undisturbed, irqVars
<1>6. CASE CompleteTransfer
  <2>1. /\ busy' = busy \ {Top.ch}
        /\ UNCHANGED <<base, left>> \/ StoreProgress
        /\ Forget(Top.ch) /\ SetIRQFlag(Top.ch) /\ halted' = halted
    BY <1>6 DEF CompleteTransfer
  <2>2. /\ base' \in [Channels -> Nat] /\ left' \in [Channels -> Nat]
        /\ \A d \in Channels \ {Top.ch} : left'[d] = left[d]
    BY <1>2, <1>4, <2>1, CallsFact DEF Registers
  <2>3. Registers'
    BY <1>2, <2>1, <2>2, CallsFact DEF Forget, Registers
  <2>4. Programmed'
    BY <2>1, <2>2, CallsFact DEF CallsOK, Programmed
  <2>5. istat' \in BOOLEAN
    BY <2>1, CallsFact DEF SetIRQFlag
  <2>6. irq' \in [enable : SUBSET Channels, master : BOOLEAN, flags : SUBSET Channels]
    <3>1. irq' = irq \/ irq' = [irq EXCEPT !.flags = irq.flags \cup {Top.ch}]
      BY <2>1, CallsFact DEF SetIRQFlag
    <3>. QED
      BY <1>2, <3>1, CallsFact
  <2>7. CallsOK'
    BY <1>1, <1>3, <2>1, <2>3, <2>4, <2>5, <2>6, CallsFact, CallsFrom
  <2>. QED
    BY <1>1, <1>2, <1>3, <2>7 DEF Undisturbed
<1>. QED
  BY <1>5, <1>6

LEMMA DeviceBlockKeeps == ASSUME CallsOK, DeviceBlock PROVE CallsOK' /\ Undisturbed
<1>1. /\ ~Idle /\ Top.op = "device" /\ Top.ch \notin {"MDECin", "MDECout"}
      /\ UNCHANGED idleDMA
      /\ \E on \in BOOLEAN : SetRequest(Top.ch, on, Rest)
  BY DEF DeviceBlock, At, idleDMA
<1>2. /\ Rest \in Seq(Frames) /\ Lower(Rest) /\ Top.ch \in Channels
      /\ Pending(stack) <=> Pending(Rest)
  BY <1>1, TopCall DEF Updates
<1>3. PICK on \in BOOLEAN : SetRequest(Top.ch, on, Rest)
  BY <1>1
<1>4. /\ request' \subseteq Channels /\ stack' \in Seq(Frames) /\ Stacked(stack', request')
      /\ "MDECin" \in request' <=> "MDECin" \in request
      /\ "MDECout" \in request' <=> "MDECout" \in request
      /\ Pending(stack') <=> Pending(Rest)
  BY <1>1, <1>2, <1>3, RequestEffect
<1>. QED
  BY <1>1, <1>2, <1>4, CallsKept DEF Undisturbed

LEMMA DMAKeeps ==
  ASSUME CallsOK, ProgramDMA \/ DMAStep \/ UnhaltTransfer
  PROVE  CallsOK' /\ Undisturbed
BY ProgramKeeps, ScanKeeps, BlockKeeps, NextBlockKeeps, EndKeeps, DeviceBlockKeeps DEF DMAStep

LEMMA ToldKept ==
  ASSUME Told, Undisturbed, UNCHANGED mdecVars
  PROVE  Told'
<1>1. InTold /\ (~Pending(stack) => OutTold)
  BY DEF Told, Undisturbed
<1>2. InTold' <=> InTold
  BY DEF InTold, Undisturbed, mdecVars, Space
<1>3. OutTold' <=> OutTold
  BY DEF OutTold, Undisturbed, mdecVars, decoderVars
<1>. QED
  BY <1>1, <1>2, <1>3 DEF Told, Undisturbed

-----------------------------------------------------------------------------
(* The decoder's calls.                                                    *)

\* An update is still to come.
LEMMA UpdateToCome ==
  ASSUME CallsOK, UNCHANGED idleDMA, request' \subseteq request,
         NEW s \in Seq(Frames), Lower(s), NEW op \in {"execute", "statusIn"},
         stack' = Append(s, Call(op))
  PROVE  CallsOK' /\ Told'
<1>1. /\ Call(op) \in Frames /\ Call(op).op = op /\ op \in Updates
      /\ OnTop(Call(op), request')
  BY CallFact DEF Updates
<1>2. /\ stack' \in Seq(Frames) /\ stack' # <<>> /\ Stacked(stack', request') /\ Pending(stack')
      /\ Last(stack').op = op
  BY <1>1, Pushed
<1>3. CallsOK'
  BY <1>2, CallsFact, CallsKept
<1>4. ~Idle' /\ Top'.op = op
  BY <1>2 DEF Idle, Top
<1>. QED
  BY <1>2, <1>3, <1>4 DEF Told

\* Execute's loop goes on, or it ends.
LEMMA ExecuteGoesOn ==
  ASSUME CallsOK, At("execute"), UNCHANGED <<idleDMA, request>>,
         Continue \/ Finished \/ UNCHANGED stack
  PROVE  CallsOK' /\ Told'
<1>1. ~Idle /\ Top.op = "execute" /\ request' = request
  BY DEF At
<1>2. /\ Rest \in Seq(Frames) /\ Top \in Frames /\ Lower(Rest) /\ stack = Append(Rest, Top)
      /\ stack \in Seq(Frames)
  BY <1>1, TopCall
<1>3. Lower(stack)
  BY <1>1, <1>2, Pushed
<1>4. CASE Continue
  BY <1>1, <1>2, <1>3, <1>4, UpdateToCome DEF Continue
<1>5. CASE Finished
  BY <1>1, <1>2, <1>5, UpdateToCome DEF Finished
<1>6. CASE UNCHANGED stack
  <2>1. stack' \in Seq(Frames) /\ Stacked(stack', request')
    BY <1>1, <1>2, <1>6 DEF CallsOK
  <2>2. Pending(stack)
    BY <1>1, <1>2, TopCall DEF Updates
  <2>3. Pending(stack') /\ Top' = Top /\ ~Idle'
    BY <1>1, <1>6, <2>2 DEF Top, Idle
  <2>. QED
    BY <1>1, <1>6, <2>1, <2>3, CallsFact, CallsKept DEF Told
<1>. QED
  BY <1>4, <1>5, <1>6

LEMMA StatusInTells ==
  ASSUME CallsOK, DecoderOK, StatusIn
  PROVE  CallsOK' /\ Told'
<1> DEFINE s == Append(Rest, Call("statusOut"))
           on == dmaIn /\ Space >= Threshold
<1>1. /\ ~Idle /\ Top.op = "statusIn" /\ UNCHANGED <<idleDMA, mdecVars>>
      /\ SetRequest("MDECin", on, s)
  BY DEF StatusIn, At
<1>2. /\ Rest \in Seq(Frames) /\ Lower(Rest)
      /\ Call("statusOut") \in Frames /\ Call("statusOut").op = "statusOut"
  BY <1>1, TopCall, CallFact
<1>3. s \in Seq(Frames) /\ Lower(s) /\ Pending(s)
  BY <1>2, Pushed DEF Updates
<1>4. on \in BOOLEAN /\ "MDECin" \in Channels
  BY MDECAssumption DEF DecoderOK
<1>. HIDE DEF s, on
<1>5. /\ request' \subseteq Channels /\ stack' \in Seq(Frames) /\ Stacked(stack', request')
      /\ Pending(stack') /\ ("MDECin" \in request' <=> on)
  BY <1>1, <1>3, <1>4, RequestEffect
<1>6. InTold'
  BY <1>1, <1>5 DEF InTold, on, mdecVars, Space
<1>. QED
  BY <1>1, <1>5, <1>6, CallsKept DEF Told

LEMMA StatusOutTells ==
  ASSUME CallsOK, DecoderOK, Told, StatusOut
  PROVE  CallsOK' /\ Told'
<1> DEFINE on == dmaOut /\ outCount > 0
<1>1. /\ ~Idle /\ Top.op = "statusOut" /\ UNCHANGED <<idleDMA, mdecVars>>
      /\ SetRequest("MDECout", on, Rest)
  BY DEF StatusOut, At
<1>2. Rest \in Seq(Frames) /\ Lower(Rest)
  BY <1>1, TopCall
<1>3. on \in BOOLEAN /\ "MDECout" \in Channels
  BY MDECAssumption DEF DecoderOK
<1>. HIDE DEF on
<1>4. /\ request' \subseteq Channels /\ stack' \in Seq(Frames) /\ Stacked(stack', request')
      /\ "MDECout" \in request' <=> on
      /\ "MDECin" \in request' <=> "MDECin" \in request
  BY <1>1, <1>2, <1>3, RequestEffect
<1>5. InTold
  BY <1>1 DEF Told
<1>6. InTold' /\ OutTold'
  BY <1>1, <1>4, <1>5 DEF InTold, OutTold, on, mdecVars, decoderVars, Space
<1>. QED
  BY <1>1, <1>4, <1>6, CallsKept DEF Told

-----------------------------------------------------------------------------
(* Words and macroblocks.                                                  *)

LEMMA MinOfTwo ==
  ASSUME NEW a \in Nat, NEW b \in Nat
  PROVE  /\ Min({a, b}) \in Nat /\ Min({a, b}) <= a /\ Min({a, b}) <= b
         /\ Min({a, b}) \in {a, b}
BY Smallest

LEMMA WordsFact ==
  /\ InSize \in Nat \ {0} /\ Threshold \in Nat \ {0} /\ BlockWords \in Nat \ {0}
  /\ OutSize \in Nat \ {0}
  /\ \A c \in Commands : /\ c.kind \in {"colour", "mono", "table", "unknown"} /\ c.words \in Nat
                         /\ c.kind = "table" => c.words > 0
                         /\ c # Data
  /\ \A w \in Words : w.words \in Nat
BY MDECAssumption DEF Words, Data

\* The first n words of the input FIFO are taken.
LEMMA Taken ==
  ASSUME NEW q \in Seq(Words), NEW n \in 0 .. Len(q)
  PROVE  /\ SubSeq(q, n + 1, Len(q)) \in Seq(Words)
         /\ Len(SubSeq(q, n + 1, Len(q))) = Len(q) - n
         /\ \A i \in 1 .. Len(q) - n : SubSeq(q, n + 1, Len(q))[i] = q[n + i]
<1>1. Len(q) \in Nat /\ n + 1 \in Int /\ Len(q) \in Int
  BY LenProperties
<1>2. \A i \in n + 1 .. Len(q) : q[i] \in Words
  BY <1>1, ElementOfSeq
<1>. QED
  BY <1>1, <1>2, SubSeqProperties

LEMMA ConsumeTyped ==
  ASSUME DecoderOK, NEW n \in Nat, n <= Len(inFifo), n <= remaining, Consume(n)
  PROVE  /\ inFifo' \in Seq(Words) /\ Len(inFifo') = Len(inFifo) - n /\ Len(inFifo') <= InSize
         /\ remaining' = remaining - n /\ remaining' \in Nat
<1>1. Len(inFifo) \in Nat /\ n \in 0 .. Len(inFifo)
  BY LenProperties DEF DecoderOK
<1>2. inFifo' \in Seq(Words) /\ Len(inFifo') = Len(inFifo) - n
  BY <1>1, Taken DEF DecoderOK, Consume
<1>. QED
  BY <1>1, <1>2, WordsFact DEF DecoderOK, Consume

-----------------------------------------------------------------------------
(* The decoder's steps keep the invariant.                                 *)

LEMMA ParseKeeps == ASSUME DecoderInvariant, ParseCommand PROVE DecoderInvariant'
<1> DEFINE cw == Head(inFifo)
<1>1. /\ At("execute") /\ mstate = "idle" /\ inFifo # <<>>
      /\ UNCHANGED <<idleDMA, request, copyOut, decoded, dmaIn, dmaOut, owed>>
      /\ inFifo' = Tail(inFifo) /\ outCount' = 0 /\ Continue
      /\ mono' = (cw.kind = "mono") /\ remaining' = cw.words
  BY DEF ParseCommand
<1>2. mstate' = CASE cw.kind \in {"colour", "mono"} -> "decoding"
                  [] cw.kind = "table" -> "table"
                  [] OTHER -> "none"
  BY DEF ParseCommand
<1>3. cw \in Words /\ inFifo' \in Seq(Words) /\ Len(inFifo') <= InSize
  <2>1. /\ Head(inFifo) \in Words /\ Tail(inFifo) \in Seq(Words)
        /\ Len(Tail(inFifo)) = Len(inFifo) - 1 /\ Len(inFifo) \in Nat
    BY <1>1, HeadTailProperties, LenProperties DEF DecoderInvariant, DecoderOK
  <2>. QED
    BY <1>1, <2>1, WordsFact DEF DecoderInvariant, DecoderOK
<1>4. cw.words \in Nat /\ (cw.kind = "table" => cw.words > 0)
  BY <1>3, WordsFact DEF Words, Data
<1>. HIDE DEF cw
<1>5. /\ mstate' \in {"decoding", "table", "none"}
      /\ mstate' = "table" => cw.kind = "table"
  BY <1>2
<1>6. DecoderOK'
  BY <1>1, <1>3, <1>4, <1>5, WordsFact DEF DecoderInvariant, DecoderOK
<1>. QED
  BY <1>1, <1>6, ExecuteGoesOn DEF DecoderInvariant

LEMMA NothingKeeps == ASSUME DecoderInvariant, NothingToDo PROVE DecoderInvariant'
<1>1. DecoderOK'
  BY DEF NothingToDo, DecoderInvariant, DecoderOK, mdecVars, decoderVars
<1>. QED
  BY <1>1, ExecuteGoesOn DEF NothingToDo, DecoderInvariant

LEMMA CompleteKeeps == ASSUME DecoderInvariant, CompleteMacroblock PROVE DecoderInvariant'
<1>1. PICK n \in IF decoded THEN {0} ELSE 1 .. Available : Consume(n)
  BY DEF CompleteMacroblock
<1>2. n \in Nat /\ n <= Len(inFifo) /\ n <= remaining
  <2>1. Len(inFifo) \in Nat /\ remaining \in Nat
    BY LenProperties DEF DecoderInvariant, DecoderOK
  <2>2. Available \in Nat /\ Available <= Len(inFifo) /\ Available <= remaining
    BY <2>1, MinOfTwo DEF Available
  <2>3. CASE decoded
    BY <1>1, <2>1, <2>3
  <2>4. CASE ~decoded
    BY <1>1, <2>1, <2>2, <2>4
  <2>. QED
    BY <2>3, <2>4
<1>3. /\ inFifo' \in Seq(Words) /\ Len(inFifo') <= InSize /\ remaining' \in Nat
  BY <1>1, <1>2, ConsumeTyped DEF DecoderInvariant
<1>4. /\ At("execute") /\ mstate = "decoding"
      /\ UNCHANGED <<idleDMA, request, outCount, mono, dmaIn, dmaOut, owed>>
  BY DEF CompleteMacroblock
<1>5. \/ outCount = 0 /\ mstate' = "writing" /\ copyOut' = TRUE /\ decoded' = FALSE /\ Finished
      \/ decoded' = TRUE /\ Finished /\ UNCHANGED <<mstate, copyOut>>
  BY DEF CompleteMacroblock, CopyOutLater
<1>6. DecoderOK'
  <2>1. CASE outCount = 0 /\ mstate' = "writing" /\ copyOut' = TRUE /\ decoded' = FALSE
    BY <1>3, <1>4, <2>1 DEF DecoderInvariant, DecoderOK
  <2>2. CASE decoded' = TRUE /\ UNCHANGED <<mstate, copyOut>>
    BY <1>3, <1>4, <2>2 DEF DecoderInvariant, DecoderOK
  <2>. QED
    BY <1>5, <2>1, <2>2
<1>. QED
  BY <1>4, <1>5, <1>6, ExecuteGoesOn DEF DecoderInvariant

LEMMA AwaitKeeps == ASSUME DecoderInvariant, AwaitData PROVE DecoderInvariant'
<1>1. PICK n \in {0, Available} : Consume(n)
  BY DEF AwaitData
<1>2. n \in Nat /\ n <= Len(inFifo) /\ n <= remaining
  <2>1. Len(inFifo) \in Nat /\ remaining \in Nat
    BY LenProperties DEF DecoderInvariant, DecoderOK
  <2>. QED
    BY <1>1, <2>1, MinOfTwo DEF Available
<1>3. /\ inFifo' \in Seq(Words) /\ Len(inFifo') <= InSize /\ remaining' \in Nat
  BY <1>1, <1>2, ConsumeTyped DEF DecoderInvariant
<1>4. /\ At("execute") /\ mstate = "decoding" /\ mstate' \in {"idle", "decoding"}
      /\ UNCHANGED <<idleDMA, request, outCount, copyOut, decoded, mono, dmaIn, dmaOut, owed>>
      /\ Finished \/ UNCHANGED stack
  BY DEF AwaitData
<1>5. DecoderOK'
  BY <1>3, <1>4 DEF DecoderInvariant, DecoderOK
<1>. QED
  BY <1>4, <1>5, ExecuteGoesOn DEF DecoderInvariant

LEMMA TableKeeps == ASSUME DecoderInvariant, SetTable PROVE DecoderInvariant'
<1>1. /\ At("execute") /\ mstate = "table" /\ Len(inFifo) >= remaining /\ mstate' = "idle"
      /\ inFifo' = SubSeq(inFifo, remaining + 1, Len(inFifo)) /\ remaining' = remaining - 1
      /\ Continue
      /\ UNCHANGED <<idleDMA, request, outCount, copyOut, decoded, mono, dmaIn, dmaOut, owed>>
  BY DEF SetTable
<1>2. Len(inFifo) \in Nat /\ remaining \in 0 .. Len(inFifo) /\ remaining > 0
  BY <1>1, LenProperties DEF DecoderInvariant, DecoderOK
<1>3. inFifo' \in Seq(Words) /\ Len(inFifo') = Len(inFifo) - remaining
  BY <1>1, <1>2, Taken DEF DecoderInvariant, DecoderOK
<1>4. DecoderOK'
  BY <1>1, <1>2, <1>3, WordsFact DEF DecoderInvariant, DecoderOK
<1>. QED
  BY <1>1, <1>4, ExecuteGoesOn DEF DecoderInvariant

LEMMA SkipKeeps == ASSUME DecoderInvariant, SkipParameters PROVE DecoderInvariant'
<1>1. /\ At("execute") /\ mstate = "none" /\ mstate' \in {"none", "idle"}
      /\ Finished \/ Continue
      /\ UNCHANGED <<idleDMA, request, outCount, copyOut, decoded, mono, dmaIn, dmaOut, owed>>
      /\ Consume(Available)
  BY DEF SkipParameters
<1>2. Available \in Nat /\ Available <= Len(inFifo) /\ Available <= remaining
  BY LenProperties, MinOfTwo DEF DecoderInvariant, DecoderOK, Available
<1>3. /\ inFifo' \in Seq(Words) /\ Len(inFifo') <= InSize /\ remaining' \in Nat
  BY <1>1, <1>2, ConsumeTyped DEF DecoderInvariant
<1>4. DecoderOK'
  BY <1>1, <1>3 DEF DecoderInvariant, DecoderOK
<1>. QED
  BY <1>1, <1>4, ExecuteGoesOn DEF DecoderInvariant

\* Calls that begin with nothing else in progress.
LEMMA FirstCall ==
  ASSUME CallsOK, UNCHANGED idleDMA, request' \subseteq request,
         NEW op \in {"execute", "statusIn"}, stack' = <<Call(op)>>
  PROVE  CallsOK' /\ Told'
<1>1. stack' = Append(<<>>, Call(op))
  OBVIOUS
<1>. QED
  BY <1>1, Empty, UpdateToCome

LEMMA RegisterKeeps ==
  ASSUME DecoderInvariant, WriteCommandRegister \/ ReadDataRegister
  PROVE  DecoderInvariant'
<1>1. CASE WriteCommandRegister
  <2>1. PICK w \in NextWords(owed) : inFifo' = Append(inFifo, w) /\ owed' = NextOwed(owed, w)
    BY <1>1 DEF WriteCommandRegister
  <2>2. w \in Words /\ w.words \in Nat /\ Len(inFifo) \in Nat
    BY <2>1, WordsFact, LenProperties DEF NextWords, Words, DecoderInvariant, DecoderOK
  <2>3. /\ inFifo' \in Seq(Words) /\ Len(inFifo') = Len(inFifo) + 1
    BY <2>1, <2>2, AppendProperties DEF DecoderInvariant, DecoderOK
  <2>4. owed' \in Nat
    BY <2>1, <2>2 DEF NextOwed, DecoderInvariant, DecoderOK
  <2>5. /\ Space > 0 /\ stack' = <<Call("execute")>>
        /\ UNCHANGED <<idleDMA, request, decoderVars, dmaIn, dmaOut>>
    BY <1>1 DEF WriteCommandRegister
  <2>6. DecoderOK'
    BY <2>2, <2>3, <2>4, <2>5, WordsFact DEF DecoderInvariant, DecoderOK, decoderVars, Space
  <2>. QED
    BY <2>5, <2>6, FirstCall DEF DecoderInvariant
<1>2. CASE ReadDataRegister
  <2>1. /\ outCount > 0 /\ outCount' = outCount - 1
        /\ UNCHANGED <<idleDMA, request, mstate, remaining, copyOut, decoded, mono, inFifo>>
        /\ UNCHANGED <<dmaIn, dmaOut, owed>>
        /\ \E op \in {"execute", "statusIn"} : stack' = <<Call(op)>>
    BY <1>2 DEF ReadDataRegister
  <2>2. DecoderOK'
    BY <2>1, WordsFact DEF DecoderInvariant, DecoderOK
  <2>. QED
    BY <2>1, <2>2, FirstCall DEF DecoderInvariant
<1>. QED
  BY <1>1, <1>2

LEMMA ControlKeeps ==
  ASSUME DecoderInvariant, NEW reset \in BOOLEAN, NEW enable \in Enables,
         WriteControlRegister(reset, enable)
  PROVE  DecoderInvariant'
<1>1. /\ dmaIn' = enable.in /\ dmaOut' = enable.out /\ enable.in \in BOOLEAN
      /\ enable.out \in BOOLEAN /\ stack' = <<Call("execute")>> /\ UNCHANGED idleDMA
  BY MDECAssumption DEF WriteControlRegister
<1>2. SoftReset \/ UNCHANGED <<request, decoderVars, inFifo, owed>>
  BY DEF WriteControlRegister
<1>3. request' \subseteq request
  BY <1>2 DEF SoftReset
<1>4. DecoderOK'
  <2>1. CASE SoftReset
    <3>1. inFifo' \in Seq(Words) /\ Len(inFifo') = 0
      BY <2>1 DEF SoftReset
    <3>2. dmaIn' \in BOOLEAN /\ dmaOut' \in BOOLEAN
      BY <1>1
    <3>3. /\ mstate' = "idle" /\ remaining' = 0 /\ outCount' = 0 /\ owed' = 0
          /\ copyOut' = FALSE /\ decoded' = FALSE /\ mono' = TRUE
      BY <2>1 DEF SoftReset
    <3>4. /\ Len(inFifo') <= InSize /\ outCount' <= OutSize /\ outCount' \in Nat
          /\ remaining' \in Nat /\ owed' \in Nat
      BY <3>1, <3>3, WordsFact
    <3>5. /\ copyOut' \in BOOLEAN /\ decoded' \in BOOLEAN /\ mono' \in BOOLEAN
          /\ ~copyOut' /\ mstate' # "table"
      BY <3>3
    <3>. QED
      BY <3>1, <3>2, <3>3, <3>4, <3>5 DEF DecoderOK
  <2>2. CASE UNCHANGED <<request, decoderVars, inFifo, owed>>
    BY <1>1, <2>2 DEF DecoderInvariant, DecoderOK, decoderVars
  <2>. QED
    BY <1>2, <2>1, <2>2
<1>. QED
  BY <1>1, <1>3, <1>4, FirstCall DEF DecoderInvariant

LEMMA CopyKeeps == ASSUME DecoderInvariant, CopyOutBlock PROVE DecoderInvariant'
<1>1. /\ copyOut /\ copyOut' = FALSE /\ mstate' \in {"idle", "decoding"}
      /\ outCount' \in {outCount + 1, outCount + OutSize}
      /\ UNCHANGED <<idleDMA, request, remaining, decoded, mono, inFifo, dmaIn, dmaOut, owed>>
      /\ stack' = <<Call("execute")>>
  BY DEF CopyOutBlock
<1>2. outCount' \in Nat /\ outCount' <= OutSize
  BY <1>1, WordsFact DEF DecoderInvariant, DecoderOK
<1>3. DecoderOK'
  BY <1>1, <1>2 DEF DecoderInvariant, DecoderOK
<1>. QED
  BY <1>1, <1>3, FirstCall DEF DecoderInvariant

LEMMA DMAWriteKeeps == ASSUME DecoderInvariant, DMAWrite PROVE DecoderInvariant'
<1>1. PICK b \in Blocks : /\ owed' = b.owed[BlockWords]
                          /\ inFifo' = inFifo \o SubSeq(b.word, 1, Min({BlockWords, Space}))
  BY DEF DMAWrite
<1>2. /\ ~Idle /\ Top.op = "device" /\ Top.ch = "MDECin" /\ stack' = Append(Rest, Call("execute"))
      /\ UNCHANGED <<idleDMA, request, decoderVars, dmaIn, dmaOut>>
  BY DEF DMAWrite, At
<1>3. b.word \in [1 .. BlockWords -> Words] /\ b.owed \in [0 .. BlockWords -> Owed]
  BY DEF Blocks
<1>4. Space \in Nat /\ Len(inFifo) \in Nat /\ Len(inFifo) + Space = InSize
  BY WordsFact, LenProperties DEF DecoderInvariant, DecoderOK, Space
<1> DEFINE n == Min({BlockWords, Space})
<1>5. n \in Nat /\ n <= BlockWords /\ n <= Space
  BY <1>4, WordsFact, MinOfTwo
<1>. HIDE DEF n
<1>6. SubSeq(b.word, 1, n) \in Seq(Words) /\ Len(SubSeq(b.word, 1, n)) = n
  <2>1. \A i \in 1 .. n : b.word[i] \in Words
    BY <1>3, <1>5, WordsFact
  <2>2. SubSeq(b.word, 1, n) = [i \in 1 .. n |-> b.word[i]]
    BY <1>5
  <2>3. [i \in 1 .. n |-> b.word[i]] \in [1 .. n -> Words]
    BY <2>1
  <2>. QED
    BY <1>5, <2>2, <2>3, IsASeq, LenProperties
<1>7. inFifo' \in Seq(Words) /\ Len(inFifo') = Len(inFifo) + n
  BY <1>1, <1>6, ConcatProperties DEF n, DecoderInvariant, DecoderOK
<1>8. owed' \in Nat
  <2>1. Owed \subseteq Nat
    BY WordsFact DEF Owed
  <2>2. BlockWords \in 0 .. BlockWords
    BY WordsFact
  <2>3. b.owed[BlockWords] \in Owed
    BY <1>3, <2>2
  <2>. QED
    BY <1>1, <2>1, <2>3
<1>9. DecoderOK'
  BY <1>2, <1>4, <1>5, <1>7, <1>8 DEF DecoderInvariant, DecoderOK, decoderVars
<1>10. Rest \in Seq(Frames) /\ Lower(Rest)
  BY <1>2, TopCall DEF DecoderInvariant
<1>. QED
  BY <1>2, <1>9, <1>10, UpdateToCome DEF DecoderInvariant

LEMMA DMAReadKeeps == ASSUME DecoderInvariant, DMARead PROVE DecoderInvariant'
<1>1. /\ ~Idle /\ Top.op = "device"
      /\ outCount' = outCount - Min({1, outCount})
      /\ UNCHANGED <<idleDMA, request, mstate, remaining, copyOut, decoded, mono, inFifo>>
      /\ UNCHANGED <<dmaIn, dmaOut, owed>>
  BY DEF DMARead, At
<1>2. Min({1, outCount}) \in {1, outCount} /\ Min({1, outCount}) <= outCount
  BY MinOfTwo DEF DecoderInvariant, DecoderOK
<1>3. outCount' \in Nat /\ outCount' <= outCount /\ (outCount' > 0 => outCount > 0)
  BY <1>1, <1>2 DEF DecoderInvariant, DecoderOK
<1>4. DecoderOK'
  BY <1>1, <1>3, WordsFact DEF DecoderInvariant, DecoderOK
<1>5. /\ Rest \in Seq(Frames) /\ Lower(Rest)
      /\ Pending(stack) <=> Pending(Rest)
  BY <1>1, TopCall DEF DecoderInvariant, Updates
<1>6. CASE outCount' = 0
  <2>1. stack' = Append(Rest, Call("execute"))
    BY <1>6 DEF DMARead
  <2>. QED
    BY <1>1, <1>4, <1>5, <2>1, UpdateToCome DEF DecoderInvariant
<1>7. CASE outCount' # 0
  <2>1. stack' = Rest
    BY <1>7 DEF DMARead
  <2>2. Stacked(Rest, request)
    BY <1>5, Popped, Empty
  <2>3. CallsOK'
    BY <1>1, <1>5, <2>1, <2>2, CallsFact, CallsKept DEF DecoderInvariant
  <2>4. InTold /\ InTold'
    BY <1>1 DEF DecoderInvariant, Told, InTold, Space
  <2>5. ~Pending(stack') => OutTold'
    BY <1>1, <1>3, <1>5, <1>7, <2>1 DEF DecoderInvariant, Told, OutTold
  <2>. QED
    BY <1>4, <2>3, <2>4, <2>5 DEF DecoderInvariant, Told
<1>. QED
  BY <1>6, <1>7

LEMMA StatusKeeps == ASSUME DecoderInvariant, StatusIn \/ StatusOut PROVE DecoderInvariant'
<1>1. DecoderOK'
  BY DEF StatusIn, StatusOut, DecoderInvariant, DecoderOK, mdecVars, decoderVars
<1>. QED
  BY <1>1, StatusInTells, StatusOutTells DEF DecoderInvariant

LEMMA DMAStepKeeps ==
  ASSUME DecoderInvariant, ProgramDMA \/ DMAStep \/ UnhaltTransfer, UNCHANGED mdecVars
  PROVE  DecoderInvariant'
<1>1. DecoderOK'
  BY DEF DecoderInvariant, DecoderOK, mdecVars, decoderVars
<1>. QED
  BY <1>1, DMAKeeps, ToldKept DEF DecoderInvariant

LEMMA InitDecoder == Init => DecoderInvariant
<1>. SUFFICES ASSUME Init PROVE DecoderInvariant
  OBVIOUS
<1>1. DMATypeOK
  BY InitCalls DEF Init, Invariant
<1>2. CallsOK
  BY <1>1, Empty DEF Init, DMAInit, CallsOK, Programmed
<1>3. DecoderOK
  <2>1. inFifo \in Seq(Words) /\ Len(inFifo) = 0
    BY DEF Init
  <2>2. /\ mstate = "idle" /\ remaining = 0 /\ outCount = 0 /\ owed = 0
        /\ copyOut = FALSE /\ decoded = FALSE /\ mono = TRUE /\ dmaIn = FALSE /\ dmaOut = FALSE
    BY DEF Init
  <2>3. /\ Len(inFifo) <= InSize /\ outCount <= OutSize /\ outCount \in Nat
        /\ remaining \in Nat /\ owed \in Nat
    BY <2>1, <2>2, WordsFact
  <2>4. /\ copyOut \in BOOLEAN /\ decoded \in BOOLEAN /\ mono \in BOOLEAN
        /\ dmaIn \in BOOLEAN /\ dmaOut \in BOOLEAN /\ ~copyOut /\ mstate # "table"
    BY <2>2
  <2>. QED
    BY <2>1, <2>2, <2>3, <2>4 DEF DecoderOK
<1>4. Told
  BY DEF Init, DMAInit, Told, InTold, OutTold
<1>. QED
  BY <1>2, <1>3, <1>4 DEF DecoderInvariant

THEOREM DecoderInvariance == Spec => []DecoderInvariant
<1>1. DecoderInvariant /\ UNCHANGED vars => DecoderInvariant'
  <2>. SUFFICES ASSUME DecoderInvariant, UNCHANGED vars PROVE DecoderInvariant'
    OBVIOUS
  <2>1. UNCHANGED <<dmaVars, channelVars, irqVars, mdecVars, decoderVars>>
    BY DEF vars, dmaVars, mdecVars
  <2>2. CallsOK'
    BY <2>1 DEF DecoderInvariant, CallsOK, DMATypeOK, Programmed, dmaVars, channelVars, irqVars
  <2>3. DecoderOK'
    BY <2>1 DEF DecoderInvariant, DecoderOK, mdecVars, decoderVars
  <2>4. Told'
    BY <2>1 DEF DecoderInvariant, Told, InTold, OutTold, Idle, Top, Space, dmaVars, mdecVars,
                decoderVars
  <2>. QED
    BY <2>2, <2>3, <2>4 DEF DecoderInvariant
<1>2. DecoderInvariant /\ Next => DecoderInvariant'
  <2>. SUFFICES ASSUME DecoderInvariant, Next PROVE DecoderInvariant'
    OBVIOUS
  <2>1. CASE Program
    BY <2>1, DMAStepKeeps, RegisterKeeps, ControlKeeps DEF Program
  <2>2. CASE Step
    BY <2>2, DMAStepKeeps, StatusKeeps, ParseKeeps, NothingKeeps, CompleteKeeps, AwaitKeeps,
       TableKeeps, SkipKeeps, DMAWriteKeeps, DMAReadKeeps DEF Step
  <2>3. CASE Unhalt
    BY <2>3, DMAStepKeeps DEF Unhalt
  <2>. QED
    BY <2>1, <2>2, <2>3, CopyKeeps DEF Next
<1>. QED
  BY <1>1, <1>2, InitDecoder, PTL DEF Spec

-----------------------------------------------------------------------------
(* Streams of words: what is owed before and after.                        *)

\* Read after a parameters were owed, the words q leave z owed.
Stream(q, a, z) ==
  \E h \in [0 .. Len(q) -> Nat] :
    /\ h[0] = a /\ h[Len(q)] = z
    /\ \A i \in 1 .. Len(q) : q[i] \in NextWords(h[i - 1]) /\ h[i] = NextOwed(h[i - 1], q[i])

\* What is owed goes down by one with every parameter.
LEMMA Countdown ==
  ASSUME NEW n \in Nat, NEW h \in [0 .. n -> Nat], NEW q,
         \A i \in 1 .. n : h[i] = NextOwed(h[i - 1], q[i]),
         NEW k \in 0 .. n, k <= h[0]
  PROVE  h[k] = h[0] - k
<1> DEFINE T == {j \in 0 .. k : h[j] # h[0] - j}
<1>0. k \in Nat /\ k \in 0 .. k
  OBVIOUS
<1>1. SUFFICES ASSUME T # {} PROVE FALSE
  BY <1>0
<1>2. Min(T) \in T /\ \A j \in T : Min(T) <= j
  <2>1. T \subseteq Nat
    OBVIOUS
  <2>. HIDE DEF T
  <2>. QED
    BY <1>1, <2>1, Smallest
<1>3. PICK m \in 0 .. k : h[m] # h[0] - m /\ \A j \in T : m <= j
  BY <1>2
<1>4. m # 0
  BY <1>3
<1>5. m - 1 \in 0 .. k /\ m - 1 \notin T /\ m \in 1 .. n
  <2>1. m - 1 \in 0 .. k /\ m \in 1 .. n
    BY <1>3, <1>4
  <2>2. m - 1 \notin T
    <3>. HIDE DEF T
    <3>. QED
      BY <1>3, <2>1
  <2>. QED
    BY <2>1, <2>2
<1>6. h[m - 1] = h[0] - (m - 1)
  BY <1>5
<1>7. h[m] = NextOwed(h[m - 1], q[m]) /\ h[0] \in Nat
  BY <1>5
<1>8. h[m - 1] # 0
  BY <1>3, <1>5, <1>6, <1>7
<1>9. h[m] = h[m - 1] - 1
  BY <1>7, <1>8 DEF NextOwed
<1>. QED
  BY <1>3, <1>5, <1>6, <1>7, <1>9

LEMMA StreamEmpty == ASSUME NEW a \in Nat PROVE Stream(<<>>, a, a)
<1> DEFINE h == [i \in 0 .. 0 |-> a]
<1>1. h \in [0 .. Len(<<>>) -> Nat] /\ h[0] = a /\ h[Len(<<>>)] = a
  OBVIOUS
<1>2. 1 .. Len(<<>>) = {}
  OBVIOUS
<1>. QED
  BY <1>1, <1>2 DEF Stream

\* One word.
LEMMA StreamWord ==
  ASSUME NEW z \in Nat, NEW w \in NextWords(z)
  PROVE  Stream(<<w>>, z, NextOwed(z, w)) /\ <<w>> \in Seq(Words)
<1>1. w \in Words /\ w.words \in Nat
  BY WordsFact DEF NextWords, Words
<1>2. NextOwed(z, w) \in Nat
  BY <1>1 DEF NextOwed
<1> DEFINE h == [i \in 0 .. 1 |-> IF i = 0 THEN z ELSE NextOwed(z, w)]
<1>3. h \in [0 .. 1 -> Nat] /\ h[0] = z /\ h[1] = NextOwed(z, w)
  BY <1>2
<1>4. Len(<<w>>) = 1 /\ <<w>>[1] = w
  OBVIOUS
<1>. HIDE DEF h
<1>5. \A i \in 1 .. 1 : <<w>>[i] \in NextWords(h[i - 1]) /\ h[i] = NextOwed(h[i - 1], <<w>>[i])
  BY <1>3, <1>4
<1>. QED
  BY <1>1, <1>3, <1>4, <1>5 DEF Stream

LEMMA StreamConcat ==
  ASSUME NEW q \in Seq(Words), NEW p \in Seq(Words), NEW a, NEW z, NEW y,
         Stream(q, a, z), Stream(p, z, y)
  PROVE  Stream(q \o p, a, y)
<1>1. PICK h \in [0 .. Len(q) -> Nat] :
        /\ h[0] = a /\ h[Len(q)] = z
        /\ \A i \in 1 .. Len(q) : q[i] \in NextWords(h[i - 1]) /\ h[i] = NextOwed(h[i - 1], q[i])
  BY DEF Stream
<1>2. PICK g \in [0 .. Len(p) -> Nat] :
        /\ g[0] = z /\ g[Len(p)] = y
        /\ \A i \in 1 .. Len(p) : p[i] \in NextWords(g[i - 1]) /\ g[i] = NextOwed(g[i - 1], p[i])
  BY DEF Stream
<1>3. PICK m \in Nat, n \in Nat : m = Len(q) /\ n = Len(p)
  BY LenProperties
<1>4. /\ Len(q \o p) = m + n
      /\ \A i \in 1 .. m + n : (q \o p)[i] = IF i <= m THEN q[i] ELSE p[i - m]
  BY <1>3, ConcatProperties
<1> DEFINE f == [i \in 0 .. m + n |-> IF i <= m THEN h[i] ELSE g[i - m]]
<1>5. /\ f \in [0 .. m + n -> Nat]
      /\ \A i \in 0 .. m : f[i] = h[i]
      /\ \A i \in 0 .. n : f[m + i] = g[i]
  <2>0. h \in [0 .. m -> Nat] /\ g \in [0 .. n -> Nat]
    BY <1>3
  <2>1. \A i \in 0 .. m + n : (IF i <= m THEN h[i] ELSE g[i - m]) \in Nat
    <3>. TAKE i \in 0 .. m + n
    <3>1. CASE i <= m
      <4>1. i \in 0 .. m
        BY <1>3, <3>1
      <4>. QED
        BY <2>0, <3>1, <4>1
    <3>2. CASE ~(i <= m)
      <4>1. i - m \in 0 .. n
        BY <1>3, <3>2
      <4>. QED
        BY <2>0, <3>2, <4>1
    <3>. QED
      BY <3>1, <3>2
  <2>2. f \in [0 .. m + n -> Nat]
    BY <2>1
  <2>3. \A i \in 0 .. m : i \in 0 .. m + n /\ i <= m
    BY <1>3
  <2>4. \A i \in 0 .. m : f[i] = h[i]
    BY <2>3
  <2>5. \A i \in 0 .. n : m + i \in 0 .. m + n /\ (m + i <= m => i = 0) /\ (m + i) - m = i
    BY <1>3
  <2>6. g[0] = h[m]
    BY <1>1, <1>2, <1>3
  <2>7. \A i \in 0 .. n : f[m + i] = g[i]
    <3>. TAKE i \in 0 .. n
    <3>1. CASE i = 0
      BY <2>4, <2>6, <3>1, <1>3
    <3>2. CASE i # 0
      BY <2>5, <3>2
    <3>. QED
      BY <3>1, <3>2
  <2>. QED
    BY <2>2, <2>4, <2>7
<1>. HIDE DEF f
<1>6. f[0] = a /\ f[m + n] = y
  BY <1>1, <1>2, <1>3, <1>5
<1>7. ASSUME NEW i \in 1 .. m + n
      PROVE  (q \o p)[i] \in NextWords(f[i - 1]) /\ f[i] = NextOwed(f[i - 1], (q \o p)[i])
  <2>1. CASE i <= m
    <3>1. i \in 1 .. m /\ i \in 0 .. m /\ i - 1 \in 0 .. m
      BY <1>3, <2>1
    <3>2. (q \o p)[i] = q[i]
      BY <1>4, <2>1
    <3>3. f[i] = h[i] /\ f[i - 1] = h[i - 1]
      BY <1>5, <3>1
    <3>. QED
      BY <1>1, <1>3, <3>1, <3>2, <3>3
  <2>2. CASE i > m
    <3>1. PICK j \in 1 .. n : i = m + j
      <4>1. i - m \in 1 .. n /\ i = m + (i - m)
        BY <2>2
      <4>. QED
        BY <4>1
    <3>2. (q \o p)[i] = p[j]
      BY SMTT(30), <1>4, <3>1
    <3>3. f[i] = g[j] /\ f[i - 1] = g[j - 1]
      <4>1. j \in 0 .. n /\ j - 1 \in 0 .. n /\ i - 1 = m + (j - 1)
        BY <3>1
      <4>. QED
        BY <1>5, <3>1, <4>1
    <3>. QED
      BY <1>2, <1>3, <3>1, <3>2, <3>3
  <2>. QED
    BY <1>3, <2>1, <2>2
<1>. QED
  BY <1>4, <1>5, <1>6, <1>7 DEF Stream

\* What follows the first n words.
LEMMA StreamRest ==
  ASSUME NEW q \in Seq(Words), NEW a, NEW z, NEW n \in 0 .. Len(q),
         NEW h \in [0 .. Len(q) -> Nat], h[Len(q)] = z,
         \A i \in 1 .. Len(q) : q[i] \in NextWords(h[i - 1]) /\ h[i] = NextOwed(h[i - 1], q[i])
  PROVE  Stream(SubSeq(q, n + 1, Len(q)), h[n], z)
<1>1. PICK m \in Nat : m = Len(q)
  BY LenProperties
<1> DEFINE p == SubSeq(q, n + 1, Len(q))
           g == [i \in 0 .. m - n |-> h[n + i]]
<1>2. p \in Seq(Words) /\ Len(p) = m - n /\ \A i \in 1 .. m - n : p[i] = q[n + i]
  BY <1>1, Taken
<1>3. g \in [0 .. m - n -> Nat] /\ \A i \in 0 .. m - n : g[i] = h[n + i]
  BY <1>1
<1>4. n \in Nat /\ m - n \in Nat
  BY <1>1
<1>. HIDE DEF p, g
<1>5. g[0] = h[n] /\ g[m - n] = z
  BY <1>1, <1>3, <1>4
<1>6. ASSUME NEW i \in 1 .. m - n
      PROVE  p[i] \in NextWords(g[i - 1]) /\ g[i] = NextOwed(g[i - 1], p[i])
  <2>1. n + i \in 1 .. m /\ (n + i) - 1 = n + (i - 1) /\ i \in 0 .. m - n /\ i - 1 \in 0 .. m - n
    BY <1>4
  <2>2. p[i] = q[n + i] /\ g[i] = h[n + i] /\ g[i - 1] = h[(n + i) - 1]
    BY <1>2, <1>3, <2>1
  <2>. QED
    BY <1>1, <2>1, <2>2
<1>7. Stream(p, h[n], z)
  BY <1>2, <1>3, <1>5, <1>6 DEF Stream
<1>. QED
  BY <1>7 DEF p

\* n parameters are taken.
LEMMA StreamTaken ==
  ASSUME NEW q \in Seq(Words), NEW a \in Nat, NEW z, Stream(q, a, z),
         NEW n \in 0 .. Len(q), n <= a
  PROVE  Stream(SubSeq(q, n + 1, Len(q)), a - n, z)
<1>1. PICK h \in [0 .. Len(q) -> Nat] :
        /\ h[0] = a /\ h[Len(q)] = z
        /\ \A i \in 1 .. Len(q) : q[i] \in NextWords(h[i - 1]) /\ h[i] = NextOwed(h[i - 1], q[i])
  BY DEF Stream
<1>2. h[n] = a - n
  <2>1. Len(q) \in Nat
    BY LenProperties
  <2>. QED
    BY <1>1, <2>1, Countdown
<1>. QED
  BY <1>1, <1>2, StreamRest

\* When nothing is owed, the first word is a command.
LEMMA StreamHead ==
  ASSUME NEW q \in Seq(Words), NEW z, Stream(q, 0, z), q # <<>>
  PROVE  Head(q) \in Commands /\ Stream(Tail(q), Head(q).words, z)
<1>1. PICK h \in [0 .. Len(q) -> Nat] :
        /\ h[0] = 0 /\ h[Len(q)] = z
        /\ \A i \in 1 .. Len(q) : q[i] \in NextWords(h[i - 1]) /\ h[i] = NextOwed(h[i - 1], q[i])
  BY DEF Stream
<1>2. /\ Len(q) \in Nat /\ 1 \in 1 .. Len(q) /\ 1 \in 0 .. Len(q) /\ Head(q) = q[1]
      /\ Tail(q) = SubSeq(q, 1 + 1, Len(q))
  <2>1. Len(q) \in Nat /\ Len(q) # 0
    BY LenProperties, EmptySeq
  <2>. QED
    BY <2>1, HeadTailProperties, TailIsSubSeq
<1>3. q[1] \in NextWords(h[1 - 1]) /\ h[1] = NextOwed(h[1 - 1], q[1])
  BY <1>1, <1>2
<1>4. Head(q) \in Commands /\ h[1] = Head(q).words
  BY <1>1, <1>2, <1>3 DEF NextWords, NextOwed
<1>. QED
  BY <1>1, <1>2, <1>4, StreamRest

-----------------------------------------------------------------------------
(* The decoder and the program agree about which words are commands.       *)

\* A block fits in the space below which no more is asked for: 32 words or less.
BlocksFit == BlockWords <= Threshold

\* A command the decoder does not know has no parameters.
BareUnknowns == \A c \in Commands : c.kind = "unknown" => c.words = 0

\* The parameters the decoder has yet to take, and the words in the FIFO, lead to what the
\* program has still to send.
Expected == IF mstate = "idle" THEN 0 ELSE remaining
Aligned ==
  /\ mstate = "none" => remaining = 0
  /\ mstate # "none" => Stream(inFifo, Expected, owed)

\* The decoder has not moved.
LEMMA SameAligned ==
  ASSUME Aligned, UNCHANGED <<mstate, remaining, inFifo, owed>>
  PROVE  Aligned'
<1>1. Stream(inFifo, Expected, owed)' <=> Stream(inFifo', Expected', owed')
  OBVIOUS
<1>2. Expected' = Expected
  BY DEF Expected
<1>. QED
  BY <1>2 DEF Aligned, Stream

\* n parameters are taken; the command goes on, or it has no more.
LEMMA ConsumeAligned ==
  ASSUME DecoderInvariant, Aligned, mstate \notin {"idle", "none"}, mstate' # "none",
         NEW n \in Nat, n <= Len(inFifo), n <= remaining,
         inFifo' = SubSeq(inFifo, n + 1, Len(inFifo)), owed' = owed,
         Expected' = remaining - n
  PROVE  Aligned'
<1>1. /\ inFifo \in Seq(Words) /\ remaining \in Nat /\ Len(inFifo) \in Nat
      /\ n \in 0 .. Len(inFifo)
  BY LenProperties DEF DecoderInvariant, DecoderOK
<1>2. Stream(inFifo, remaining, owed)
  BY DEF Aligned, Expected
<1>3. Stream(SubSeq(inFifo, n + 1, Len(inFifo)), remaining - n, owed)
  BY <1>1, <1>2, StreamTaken
<1>4. Stream(inFifo', Expected', owed')
  BY <1>3
<1>. QED
  BY <1>4 DEF Aligned

LEMMA ParseAligned ==
  ASSUME DecoderInvariant, Aligned, BareUnknowns, ParseCommand
  PROVE  Aligned'
<1> DEFINE cw == Head(inFifo)
<1>1. /\ mstate = "idle" /\ inFifo # <<>> /\ inFifo' = Tail(inFifo) /\ owed' = owed
      /\ remaining' = cw.words
  BY DEF ParseCommand
<1>2. mstate' = CASE cw.kind \in {"colour", "mono"} -> "decoding"
                  [] cw.kind = "table" -> "table"
                  [] OTHER -> "none"
  BY DEF ParseCommand
<1>3. inFifo \in Seq(Words) /\ Stream(inFifo, 0, owed)
  BY <1>1 DEF DecoderInvariant, DecoderOK, Aligned, Expected
<1>4. cw \in Commands /\ Stream(Tail(inFifo), cw.words, owed)
  BY <1>1, <1>3, StreamHead
<1>5. cw.kind \in {"colour", "mono", "table", "unknown"}
  BY <1>4, WordsFact
<1>. HIDE DEF cw
<1>6. mstate' = "none" => cw.kind = "unknown"
  BY <1>2, <1>5
<1>7. mstate' # "idle"
  BY <1>2
<1>8. mstate' = "none" => remaining' = 0
  BY <1>1, <1>4, <1>6 DEF BareUnknowns
<1>9. Expected' = cw.words
  BY <1>1, <1>7 DEF Expected
<1>10. Stream(inFifo', Expected', owed')
  BY <1>1, <1>4, <1>9
<1>. QED
  BY <1>8, <1>10 DEF Aligned

LEMMA MacroblockAligned ==
  ASSUME DecoderInvariant, Aligned, CompleteMacroblock \/ AwaitData
  PROVE  Aligned'
<1>1. /\ mstate = "decoding" /\ owed' = owed
      /\ \E n \in Nat : n <= Available /\ Consume(n)
  <2>1. Available \in Nat
    BY LenProperties, MinOfTwo DEF DecoderInvariant, DecoderOK, Available
  <2>2. CASE CompleteMacroblock
    <3>1. PICK n \in IF decoded THEN {0} ELSE 1 .. Available : Consume(n)
      BY <2>2 DEF CompleteMacroblock
    <3>2. n \in Nat /\ n <= Available
      BY <2>1, <3>1
    <3>. QED
      BY <2>2, <3>1, <3>2 DEF CompleteMacroblock
  <2>3. CASE AwaitData
    <3>1. Consume(0) \/ Consume(Available)
      BY <2>3 DEF AwaitData
    <3>2. mstate = "decoding" /\ owed' = owed
      BY <2>3 DEF AwaitData
    <3>3. 0 <= Available /\ Available <= Available
      BY <2>1
    <3>. QED
      BY <2>1, <3>1, <3>2, <3>3
  <2>. QED
    BY <2>2, <2>3
<1>2. PICK n \in Nat : n <= Available /\ Consume(n)
  BY <1>1
<1>3. /\ n <= Len(inFifo) /\ n <= remaining /\ remaining' = remaining - n
      /\ inFifo' = SubSeq(inFifo, n + 1, Len(inFifo))
  <2>1. /\ Len(inFifo) \in Nat /\ remaining \in Nat /\ Available \in Nat
        /\ Available <= Len(inFifo) /\ Available <= remaining
    BY LenProperties, MinOfTwo DEF DecoderInvariant, DecoderOK, Available
  <2>. QED
    BY <1>2, <2>1 DEF Consume
<1>4. mstate' \in {"decoding", "writing"} \/ (mstate' = "idle" /\ remaining' = 0)
  BY <1>1 DEF CompleteMacroblock, AwaitData, CopyOutLater
<1>5. Expected' = remaining - n /\ mstate' # "none"
  BY <1>3, <1>4 DEF Expected
<1>. QED
  BY <1>1, <1>3, <1>5, ConsumeAligned

LEMMA TableAligned == ASSUME DecoderInvariant, Aligned, SetTable PROVE Aligned'
<1>1. /\ mstate = "table" /\ Len(inFifo) >= remaining /\ mstate' = "idle" /\ owed' = owed
      /\ inFifo' = SubSeq(inFifo, remaining + 1, Len(inFifo))
  BY DEF SetTable
<1>2. remaining \in Nat /\ Len(inFifo) \in Nat
  BY LenProperties DEF DecoderInvariant, DecoderOK
<1>3. Expected' = remaining - remaining
  BY <1>1, <1>2 DEF Expected
<1>. QED
  BY <1>1, <1>2, <1>3, ConsumeAligned

LEMMA SkipAligned == ASSUME DecoderInvariant, Aligned, SkipParameters PROVE Aligned'
<1>1. mstate = "none" /\ remaining = 0 /\ Consume(Available)
  BY DEF Aligned, SkipParameters
<1>2. Available = 0
  BY <1>1, LenProperties, MinOfTwo DEF DecoderInvariant, DecoderOK, Available
<1>3. remaining' = 0
  BY <1>1, <1>2 DEF Consume
<1>4. mstate' = mstate
  BY <1>3 DEF SkipParameters
<1>. QED
  BY <1>1, <1>3, <1>4 DEF Aligned

\* The program's words are put behind those that are there.
LEMMA SentAligned ==
  ASSUME DecoderInvariant, Aligned, UNCHANGED <<mstate, remaining>>,
         NEW p \in Seq(Words), inFifo' = inFifo \o p, Stream(p, owed, owed')
  PROVE  Aligned'
<1>1. Expected' = Expected /\ inFifo \in Seq(Words)
  BY DEF Expected, DecoderInvariant, DecoderOK
<1>2. mstate # "none" => Stream(inFifo \o p, Expected, owed')
  BY <1>1, StreamConcat DEF Aligned
<1>3. mstate' # "none" => Stream(inFifo', Expected', owed')
  BY <1>1, <1>2
<1>. QED
  BY <1>3 DEF Aligned

LEMMA RegisterAligned ==
  ASSUME DecoderInvariant, Aligned, WriteCommandRegister
  PROVE  Aligned'
<1>1. PICK w \in NextWords(owed) : inFifo' = Append(inFifo, w) /\ owed' = NextOwed(owed, w)
  BY DEF WriteCommandRegister
<1>2. UNCHANGED <<mstate, remaining>>
  BY DEF WriteCommandRegister, decoderVars
<1>3. Stream(<<w>>, owed, owed') /\ <<w>> \in Seq(Words)
  BY <1>1, StreamWord DEF DecoderInvariant, DecoderOK
<1>4. inFifo' = inFifo \o <<w>>
  <2>1. w \in Words /\ inFifo \in Seq(Words)
    BY <1>1 DEF NextWords, Words, DecoderInvariant, DecoderOK
  <2>. QED
    BY <1>1, <2>1, AppendIsConcat
<1>. QED
  BY <1>2, <1>3, <1>4, SentAligned

LEMMA Room ==
  ASSUME DecoderInvariant, BlocksFit
  PROVE  RoomForBlock
<1>. SUFFICES ASSUME At("device"), Top.ch = "MDECin" PROVE Space >= BlockWords
  BY DEF RoomForBlock
<1>1. ~Idle /\ Top.op = "device"
  BY DEF At
<1>2. "MDECin" \in request
  BY <1>1, TopCall DEF DecoderInvariant, OnTop
<1>3. Space >= Threshold
  BY <1>1, <1>2 DEF DecoderInvariant, Told, InTold
<1>4. Space \in Int
  BY WordsFact, LenProperties DEF DecoderInvariant, DecoderOK, Space
<1>. QED
  BY <1>3, <1>4, WordsFact DEF BlocksFit

LEMMA DMAWriteAligned ==
  ASSUME DecoderInvariant, Aligned, BlocksFit, DMAWrite
  PROVE  Aligned'
<1>1. PICK b \in Blocks : /\ b.owed[0] = owed /\ owed' = b.owed[BlockWords]
                          /\ inFifo' = inFifo \o SubSeq(b.word, 1, Min({BlockWords, Space}))
  BY DEF DMAWrite
<1>2. UNCHANGED <<mstate, remaining>>
  BY DEF DMAWrite, decoderVars
<1>3. /\ b.word \in [1 .. BlockWords -> Words] /\ b.owed \in [0 .. BlockWords -> Nat]
      /\ \A i \in 1 .. BlockWords : /\ b.word[i] \in NextWords(b.owed[i - 1])
                                    /\ b.owed[i] = NextOwed(b.owed[i - 1], b.word[i])
  <2>1. Owed \subseteq Nat
    BY WordsFact DEF Owed
  <2>2. b.word \in [1 .. BlockWords -> Words] /\ b.owed \in [0 .. BlockWords -> Owed]
    BY DEF Blocks
  <2>3. \A i \in 1 .. BlockWords : /\ b.word[i] \in NextWords(b.owed[i - 1])
                                   /\ b.owed[i] = NextOwed(b.owed[i - 1], b.word[i])
    BY DEF Blocks
  <2>4. b.owed \in [0 .. BlockWords -> Nat]
    BY <2>1, <2>2
  <2>. QED
    BY <2>2, <2>3, <2>4
<1>4. Min({BlockWords, Space}) = BlockWords
  <2>1. Space >= BlockWords
    BY Room DEF RoomForBlock, DMAWrite
  <2>2. Space \in Nat
    BY WordsFact, LenProperties DEF DecoderInvariant, DecoderOK, Space
  <2>. QED
    BY <2>1, <2>2, WordsFact, MinOfTwo
<1>5. /\ b.word \in Seq(Words) /\ Len(b.word) = BlockWords
      /\ SubSeq(b.word, 1, BlockWords) = b.word
  BY <1>3, WordsFact, IsASeq, LenProperties, SubSeqFull
<1>6. Stream(b.word, owed, owed')
  BY <1>1, <1>3, <1>5 DEF Stream
<1>. QED
  BY <1>1, <1>2, <1>4, <1>5, <1>6, SentAligned

LEMMA CopyAligned == ASSUME DecoderInvariant, Aligned, CopyOutBlock PROVE Aligned'
<1>1. /\ copyOut /\ UNCHANGED <<remaining, inFifo, owed>>
      /\ mstate' = IF remaining = 0 THEN "idle" ELSE "decoding"
  BY DEF CopyOutBlock
<1>2. mstate = "writing"
  BY <1>1 DEF DecoderInvariant, DecoderOK
<1>3. Expected' = Expected /\ mstate' # "none"
  BY <1>1, <1>2 DEF Expected
<1>4. Stream(inFifo', Expected', owed')
  BY <1>1, <1>2, <1>3 DEF Aligned
<1>. QED
  BY <1>3, <1>4 DEF Aligned

LEMMA ControlAligned ==
  ASSUME Aligned, NEW reset, NEW enable, WriteControlRegister(reset, enable)
  PROVE  Aligned'
<1>1. SoftReset \/ UNCHANGED <<request, decoderVars, inFifo, owed>>
  BY DEF WriteControlRegister
<1>2. CASE SoftReset
  <2>1. mstate' = "idle" /\ inFifo' = <<>> /\ owed' = 0 /\ Expected' = 0
    BY <1>2 DEF SoftReset, Expected
  <2>2. Stream(inFifo', Expected', owed')
    BY <2>1, StreamEmpty
  <2>. QED
    BY <2>1, <2>2 DEF Aligned
<1>3. CASE UNCHANGED <<request, decoderVars, inFifo, owed>>
  BY <1>3, SameAligned DEF decoderVars
<1>. QED
  BY <1>1, <1>2, <1>3

LEMMA AlignedStep ==
  ASSUME DecoderInvariant, Aligned, BlocksFit, BareUnknowns, [Next]_vars
  PROVE  Aligned'
<1>1. CASE UNCHANGED vars
  BY <1>1, SameAligned DEF vars, mdecVars, decoderVars
<1>2. CASE UNCHANGED mdecVars
  BY <1>2, SameAligned DEF mdecVars, decoderVars
<1>3. CASE ReadDataRegister \/ DMARead
  BY <1>3, SameAligned DEF ReadDataRegister, DMARead
<1>4. CASE Program
  BY <1>2, <1>3, <1>4, RegisterAligned, ControlAligned DEF Program
<1>5. CASE Step
  BY <1>2, <1>3, <1>5, ParseAligned, MacroblockAligned, TableAligned, SkipAligned, DMAWriteAligned
     DEF Step, StatusIn, StatusOut, NothingToDo
<1>6. CASE Unhalt
  BY <1>2, <1>6 DEF Unhalt
<1>. QED
  BY <1>1, <1>4, <1>5, <1>6, CopyAligned DEF Next

-----------------------------------------------------------------------------
(* Transfers within transfers.                                             *)
(*                                                                         *)
(* Why only the input channel's transfer is started within itself.  While  *)
(* nothing is going on there is none to be within, and the loop over the   *)
(* channels is the first call of all.  Other devices do not raise requests *)
(* within a block.  The output request would have to fall within its       *)
(* channel's transfer and rise again; but it falls when the output FIFO is *)
(* empty, which is filled by an event while nothing is going on.           *)

\* The call is a transfer of channel c.
IsTransfer(f, c) == f.ch = c /\ f.op \in {"block", "after"}

Carries(s, c) == \E i \in 1 .. Len(s) : IsTransfer(s[i], c)

Others == Channels \ {"MDECin"}

Once(s) ==
  \A i, j \in 1 .. Len(s) : \A c \in Others :
    IsTransfer(s[i], c) /\ IsTransfer(s[j], c) => i = j

ScanFirst(s) == \A i \in 1 .. Len(s) : s[i].op = "scan" => i = 1

Shape(s) == Once(s) /\ ScanFirst(s)

\* What is there to read within the output transfer was there when it was requested.
OutputAsked == Carries(stack, "MDECout") /\ dmaOut /\ outCount # 0 => "MDECout" \in request

Nesting == Shape(stack) /\ OutputAsked

LEMMA Nests ==
  ASSUME NEW s \in Seq(Frames), NEW f \in Frames
  PROVE  /\ \A c : Carries(Append(s, f), c) <=> Carries(s, c) \/ IsTransfer(f, c)
         /\ Shape(Append(s, f)) <=>
              /\ Shape(s)
              /\ \A c \in Others : IsTransfer(f, c) => ~Carries(s, c)
              /\ f.op = "scan" => s = <<>>
<1> DEFINE t == Append(s, f)
           n == Len(s)
<1>1. /\ Len(t) = n + 1 /\ n \in Nat /\ t[n + 1] = f
      /\ \A i \in 1 .. n : t[i] = s[i]
      /\ n = 0 <=> s = <<>>
  BY AppendProperties, LenProperties, EmptySeq
<1>. HIDE DEF t
<1>2. \A c : Carries(t, c) <=> Carries(s, c) \/ IsTransfer(f, c)
  <2>. TAKE c
  <2>1. Carries(t, c) <=> \E i \in 1 .. n + 1 : IsTransfer(t[i], c)
    BY <1>1 DEF Carries
  <2>2. Carries(s, c) <=> \E i \in 1 .. n : IsTransfer(s[i], c)
    BY DEF Carries
  <2>. HIDE DEF n
  <2>. QED
    BY <1>1, <2>1, <2>2
<1>3. Once(t) <=> Once(s) /\ \A c \in Others : IsTransfer(f, c) => ~Carries(s, c)
  <2>1. Once(t) <=> \A i, j \in 1 .. n + 1 : \A c \in Others :
                      IsTransfer(t[i], c) /\ IsTransfer(t[j], c) => i = j
    BY <1>1 DEF Once
  <2>2. Once(s) <=> \A i, j \in 1 .. n : \A c \in Others :
                      IsTransfer(s[i], c) /\ IsTransfer(s[j], c) => i = j
    BY DEF Once
  <2>3. \A c \in Others : Carries(s, c) <=> \E i \in 1 .. n : IsTransfer(s[i], c)
    BY DEF Carries
  <2>. HIDE DEF n
  <2>4. ASSUME Once(t) PROVE Once(s) /\ \A c \in Others : IsTransfer(f, c) => ~Carries(s, c)
    <3>1. Once(s)
      BY <1>1, <2>1, <2>2, <2>4
    <3>2. ASSUME NEW c \in Others, IsTransfer(f, c), NEW i \in 1 .. n, IsTransfer(s[i], c)
          PROVE  FALSE
      <4>1. i \in 1 .. n + 1 /\ n + 1 \in 1 .. n + 1 /\ i # n + 1
        BY <1>1
      <4>. QED
        BY <1>1, <2>1, <2>4, <3>2, <4>1
    <3>. QED
      BY <2>3, <3>1, <3>2
  <2>5. ASSUME Once(s), \A c \in Others : IsTransfer(f, c) => ~Carries(s, c)
        PROVE  Once(t)
    <3>. SUFFICES ASSUME NEW i \in 1 .. n + 1, NEW j \in 1 .. n + 1, NEW c \in Others,
                         IsTransfer(t[i], c), IsTransfer(t[j], c)
                  PROVE  i = j
      BY <2>1
    <3>1. CASE i = n + 1 \/ j = n + 1
      BY <1>1, <2>3, <2>5, <3>1
    <3>2. CASE i # n + 1 /\ j # n + 1
      <4>1. i \in 1 .. n /\ j \in 1 .. n
        BY <1>1, <3>2
      <4>. QED
        BY <1>1, <2>2, <2>5, <4>1
    <3>. QED
      BY <3>1, <3>2
  <2>. QED
    BY <2>4, <2>5
<1>4. ScanFirst(t) <=> ScanFirst(s) /\ (f.op = "scan" => s = <<>>)
  <2>1. ScanFirst(t) <=> \A i \in 1 .. n + 1 : t[i].op = "scan" => i = 1
    BY <1>1 DEF ScanFirst
  <2>2. ScanFirst(s) <=> \A i \in 1 .. n : s[i].op = "scan" => i = 1
    BY DEF ScanFirst
  <2>. HIDE DEF n
  <2>. QED
    BY <1>1, <2>1, <2>2
<1>. QED
  BY <1>2, <1>3, <1>4 DEF t, Shape

LEMMA NothingNests == Shape(<<>>) /\ \A c : ~Carries(<<>>, c)
BY DEF Shape, Carries, Once, ScanFirst

\* The call on top, and the shape of those below it.
LEMMA Below ==
  ASSUME DecoderInvariant, Nesting, ~Idle
  PROVE  /\ Rest \in Seq(Frames) /\ Top \in Frames /\ Shape(Rest) /\ Lower(Rest)
         /\ OnTop(Top, request)
         /\ \A c : Carries(stack, c) <=> Carries(Rest, c) \/ IsTransfer(Top, c)
         /\ Top.op = "scan" => Rest = <<>>
         /\ \A c \in Others : IsTransfer(Top, c) => ~Carries(Rest, c)
<1>1. /\ stack = Append(Rest, Top) /\ Rest \in Seq(Frames) /\ Top \in Frames
      /\ Lower(Rest) /\ OnTop(Top, request)
  BY TopCall DEF DecoderInvariant
<1>. QED
  BY <1>1, Nests DEF Nesting

\* A call that is no transfer of another channel's is put on top.
LEMMA Called ==
  ASSUME NEW s \in Seq(Frames), Shape(s), NEW f \in Frames,
         f.op = "scan" => s = <<>>,
         \A c \in Others : IsTransfer(f, c) => ~Carries(s, c)
  PROVE  /\ Append(s, f) \in Seq(Frames) /\ Shape(Append(s, f))
         /\ \A c : Carries(Append(s, f), c) <=> Carries(s, c) \/ IsTransfer(f, c)
BY Pushed, Nests

\* What has to be shown of a step.
LEMMA Moved ==
  ASSUME Nesting, Shape(stack'), UNCHANGED dmaOut, outCount' = 0 \/ UNCHANGED outCount,
         "MDECout" \in request => "MDECout" \in request',
         Carries(stack', "MDECout") => Carries(stack, "MDECout") \/ "MDECout" \in request'
  PROVE  Nesting'
BY DEF Nesting, OutputAsked

\* A call begins while nothing else is going on.
LEMMA Begins ==
  ASSUME NEW f \in Frames, stack' = <<f>>,
         \A c : IsTransfer(f, c) => c \in request'
  PROVE  Nesting'
<1> DEFINE t == Append(<<>>, f)
<1>1. /\ Shape(t) <=>
           /\ Shape(<<>>)
           /\ \A c \in Others : IsTransfer(f, c) => ~Carries(<<>>, c)
           /\ f.op = "scan" => <<>> = <<>>
      /\ \A c : Carries(t, c) <=> Carries(<<>>, c) \/ IsTransfer(f, c)
  BY Empty, Nests
<1>2. t = stack'
  OBVIOUS
<1>. HIDE DEF t
<1>3. Shape(t) /\ \A c : Carries(t, c) <=> IsTransfer(f, c)
  BY <1>1, NothingNests
<1>. QED
  BY <1>2, <1>3 DEF Nesting, OutputAsked

\* The first of the calls that are made is one of the decoder, or the loop.
LEMMA BeginsOwn ==
  ASSUME \/ \E op \in {"execute", "statusIn"} : stack' = <<Call(op)>>
         \/ stack' = <<Frame("scan", Order[1], 0, 1)>>
         \/ stack' = <<>>
  PROVE  Nesting'
<1>1. CASE stack' = <<>>
  BY <1>1, NothingNests DEF Nesting, OutputAsked
<1>2. ASSUME NEW f \in Frames, f.op \in {"execute", "statusIn", "scan"}, stack' = <<f>>
      PROVE  Nesting'
  BY <1>2, Begins DEF IsTransfer
<1>. QED
  BY <1>1, <1>2, CallFact

LEMMA ProgramNests ==
  ASSUME DecoderInvariant, ProgramDMA \/ UnhaltTransfer
  PROVE  Nesting'
<1>1. ASSUME Idle, UNCHANGED stack PROVE Nesting'
  BY <1>1, BeginsOwn DEF Idle
<1>2. ASSUME NEW s \in Starts, StartChannel(s[1], s[2]) PROVE Nesting'
  <2> DEFINE f == Frame("block", s[1], 0, s[2])
  <2>1. s[1] \in Channels /\ s[2] \in Nat
    BY ChannelsAssumption
  <2>2. f \in Frames /\ f.ch = s[1]
    BY <2>1 DEF Frame, Frames
  <2>3. stack' = <<>> \/ (stack' = <<f>> /\ s[1] \in request')
    BY <1>2 DEF StartChannel
  <2>. HIDE DEF f
  <2>4. CASE stack' = <<>>
    BY <2>4, BeginsOwn
  <2>5. CASE stack' = <<f>> /\ s[1] \in request'
    BY <2>2, <2>5, Begins DEF IsTransfer
  <2>. QED
    BY <2>3, <2>4, <2>5
<1>3. ASSUME NEW c \in Stops, StopChannel(c) PROVE Nesting'
  BY <1>1, <1>3 DEF StopChannel
<1>4. ASSUME NEW enabled \in DpcrSettings, WriteDPCR(enabled) PROVE Nesting'
  BY <1>4, BeginsOwn DEF WriteDPCR
<1>5. ASSUME NEW s \in IrqSettings, NEW ack \in {{}, irq.flags}, WriteDICR(s, ack)
      PROVE  Nesting'
  BY <1>1, <1>5 DEF WriteDICR
<1>6. CASE AcknowledgeInterrupt
  BY <1>1, <1>6 DEF AcknowledgeInterrupt
<1>7. ASSUME NEW c \in OtherDevices, NEW on \in BOOLEAN, DeviceRequest(c, on)
      PROVE  Nesting'
  <2>1. TransferChannel(c) \in Frames /\ TransferChannel(c).ch = c
    BY BlockFrame DEF DecoderInvariant, CallsOK, OtherDevices
  <2>2. stack' = <<>> \/ (stack' = <<TransferChannel(c)>> /\ c \in request')
    <3>1. Append(<<>>, TransferChannel(c)) = <<TransferChannel(c)>>
      OBVIOUS
    <3>. QED
      BY <1>7, <3>1 DEF DeviceRequest, SetRequest, CanTransferChannel
  <2>3. CASE stack' = <<>>
    BY <2>3, BeginsOwn
  <2>4. CASE stack' = <<TransferChannel(c)>> /\ c \in request'
    BY <2>1, <2>4, Begins DEF IsTransfer
  <2>. QED
    BY <2>2, <2>3, <2>4
<1>8. CASE UnhaltTransfer
  BY <1>8, BeginsOwn DEF UnhaltTransfer
<1>. QED
  BY <1>2, <1>3, <1>4, <1>5, <1>6, <1>7, <1>8 DEF ProgramDMA

\* The loop over the channels goes on: where it found a channel that can transfer.
LEMMA ScanGoesOn ==
  ASSUME DecoderInvariant, ScanChannels, stack' # Rest
  PROVE  \E loop \in Frames, i \in 1 .. Len(Order) :
           /\ loop.op = "scan" /\ stack' = Rest \o <<loop, TransferChannel(Order[i])>>
           /\ Order[i] \in request
<1>1. PICK t \in Frames : t = Top /\ t.op = "scan" /\ t.left > 0 /\ t.left \in Nat
  BY TopCall DEF DecoderInvariant, ScanChannels, At, OnTop
<1> DEFINE Can(i) == CanTransferChannel(Order[i], request, FALSE)
           ready == {i \in t.left .. Len(Order) : Can(i)}
           loop == [t EXCEPT !.left = Min(ready) + 1]
<1>2. ready # {} /\ stack' = Rest \o <<loop, TransferChannel(Order[Min(ready)])>>
  BY <1>1 DEF ScanChannels
<1>3. Len(Order) \in Nat
  BY ChannelsAssumption, LenProperties
<1>4. Min(ready) \in ready
  <2>1. ready \subseteq Nat
    <3>. HIDE DEF Can
    <3>. QED
      BY <1>1, <1>3
  <2>. HIDE DEF ready
  <2>. QED
    BY <1>2, <2>1, Smallest
<1>5. Min(ready) \in t.left .. Len(Order) /\ Can(Min(ready))
  BY <1>4
<1>6. Order[Min(ready)] \in request
  BY <1>5 DEF CanTransferChannel
<1>. HIDE DEF ready, Can
<1>7. Min(ready) \in 1 .. Len(Order) /\ Min(ready) \in Nat
  BY <1>1, <1>3, <1>5
<1>8. loop \in Frames /\ loop.op = "scan"
  BY <1>1, <1>7 DEF Frames
<1>. HIDE DEF loop
<1>. QED
  BY <1>2, <1>6, <1>7, <1>8

LEMMA ScanNests ==
  ASSUME DecoderInvariant, Nesting, ScanChannels, UNCHANGED mdecVars
  PROVE  Nesting'
<1>1. /\ ~Idle /\ Top.op = "scan" /\ request' = request
      /\ UNCHANGED <<dmaOut, outCount>>
  BY DEF ScanChannels, At, mdecVars, decoderVars
<1>2. Rest = <<>>
  BY <1>1, Below
<1>3. CASE stack' = Rest
  BY <1>2, <1>3, BeginsOwn
<1>4. CASE stack' # Rest
  <2>1. PICK loop \in Frames, i \in 1 .. Len(Order) :
          /\ loop.op = "scan" /\ stack' = <<>> \o <<loop, TransferChannel(Order[i])>>
          /\ Order[i] \in request
    BY <1>2, <1>4, ScanGoesOn
  <2> DEFINE c == Order[i]
  <2>2. c \in Channels
    BY ChannelsAssumption, ElementOfSeq
  <2>3. PICK f \in Frames : f = TransferChannel(c) /\ f.op = "block" /\ f.ch = c
    BY <2>2, BlockFrame DEF DecoderInvariant, CallsOK
  <2>4. c \in request
    BY <2>1
  <2>. HIDE DEF c
  <2>5. PICK l \in Seq(Frames) : l = Append(<<>>, loop)
    BY Pushed, Empty
  <2>6. stack' = Append(l, f)
    BY <2>1, <2>3, <2>5 DEF c
  <2>7. \A d : ~IsTransfer(loop, d)
    BY <2>1 DEF IsTransfer
  <2>8. Shape(l) /\ \A d : ~Carries(l, d)
    <3>1. /\ Shape(l) <=>
               /\ Shape(<<>>)
               /\ \A d \in Others : IsTransfer(loop, d) => ~Carries(<<>>, d)
               /\ loop.op = "scan" => <<>> = <<>>
          /\ \A d : Carries(l, d) <=> Carries(<<>>, d) \/ IsTransfer(loop, d)
      BY <2>5, Nests, Empty
    <3>. QED
      BY <2>7, <3>1, NothingNests
  <2>9. Shape(stack') /\ \A d : Carries(stack', d) <=> IsTransfer(f, d)
    BY <2>3, <2>6, <2>8, Called
  <2>10. Carries(stack', "MDECout") => "MDECout" \in request'
    BY <1>1, <2>3, <2>4, <2>9 DEF IsTransfer
  <2>. QED
    BY <1>1, <2>9, <2>10, Moved
<1>. QED
  BY <1>3, <1>4

\* The transfer on top goes on: it is the same channel's.
LEMMA GoesOn ==
  ASSUME DecoderInvariant, Nesting, ~Idle, NEW f \in Frames, f.op # "scan",
         \A c : IsTransfer(f, c) <=> IsTransfer(Top, c)
  PROVE  /\ Append(Rest, f) \in Seq(Frames) /\ Shape(Append(Rest, f))
         /\ \A c : Carries(Append(Rest, f), c) <=> Carries(stack, c)
BY Below, Called

LEMMA BlockNests ==
  ASSUME DecoderInvariant, Nesting, TransferBlock, UNCHANGED mdecVars
  PROVE  Nesting'
<1>1. PICK t \in Frames : t = Top
  BY TopCall DEF TransferBlock, At, DecoderInvariant
<1> DEFINE next == [t EXCEPT !.op = "after", !.pos = @ + 1, !.left = @ - 1]
           device == Frame("device", t.ch, 0, 0)
<1>2. /\ ~Idle /\ t.op = "block" /\ request' = request /\ UNCHANGED <<dmaOut, outCount>>
      /\ stack' \in {Append(Append(Rest, next), device), Append(Rest, next)}
  BY <1>1 DEF TransferBlock, At, mdecVars, decoderVars
<1>3. t.ch \in Channels /\ t.pos \in Nat /\ t.left \in Nat /\ t.left > 0
  BY <1>1, <1>2, TopCall DEF DecoderInvariant, OnTop
<1>4. next \in Frames /\ next.op = "after" /\ next.ch = t.ch
  <2>1. t.pos + 1 \in Nat /\ t.left - 1 \in Nat
    BY <1>3
  <2>2. next = [t EXCEPT !.op = "after", !.pos = t.pos + 1, !.left = t.left - 1]
    BY DEF Frames
  <2>. HIDE DEF next
  <2>. QED
    BY <2>1, <2>2 DEF Frames
<1>5. device \in Frames /\ device.op = "device"
  BY <1>3 DEF Frame, Frames
<1>. HIDE DEF next, device
<1>6. \A c : (IsTransfer(next, c) <=> IsTransfer(Top, c)) /\ ~IsTransfer(device, c)
  BY <1>1, <1>2, <1>4, <1>5 DEF IsTransfer
<1>7. PICK l \in Seq(Frames) : /\ l = Append(Rest, next) /\ Shape(l)
                               /\ \A c : Carries(l, c) <=> Carries(stack, c)
  BY <1>2, <1>4, <1>6, GoesOn
<1>8. Shape(Append(l, device)) /\ \A c : Carries(Append(l, device), c) <=> Carries(stack, c)
  BY <1>5, <1>6, <1>7, Called
<1>9. Shape(stack') /\ \A c : Carries(stack', c) <=> Carries(stack, c)
  BY <1>2, <1>7, <1>8
<1>. QED
  BY <1>2, <1>9, Moved

LEMMA NextBlockNests ==
  ASSUME DecoderInvariant, Nesting, NextBlock, UNCHANGED mdecVars
  PROVE  Nesting'
<1> DEFINE f == [Top EXCEPT !.op = "block"]
<1>1. /\ ~Idle /\ Top.op = "after" /\ request' = request /\ stack' = Append(Rest, f)
      /\ UNCHANGED <<dmaOut, outCount>>
  BY DEF NextBlock, At, mdecVars, decoderVars
<1>2. f \in Frames /\ f.op = "block" /\ f.ch = Top.ch
  BY <1>1, Below DEF Frames
<1>. HIDE DEF f
<1>3. \A c : IsTransfer(f, c) <=> IsTransfer(Top, c)
  BY <1>1, <1>2 DEF IsTransfer
<1>. QED
  BY <1>1, <1>2, <1>3, GoesOn, Moved

LEMMA EndNests ==
  ASSUME DecoderInvariant, Nesting, UNCHANGED mdecVars,
         SuspendTransfer \/ HaltTransfer \/ CompleteTransfer
  PROVE  Nesting'
<1>1. ~Idle /\ request' = request /\ UNCHANGED <<dmaOut, outCount>>
  BY DEF SuspendTransfer, HaltTransfer, CompleteTransfer, At, mdecVars, decoderVars
<1>2. /\ Rest \in Seq(Frames) /\ Shape(Rest) /\ Lower(Rest)
      /\ \A c : Carries(Rest, c) => Carries(stack, c)
  BY <1>1, Below
<1>3. CASE stack' = Rest
  BY <1>1, <1>2, <1>3, Moved
<1>4. CASE Rest # <<>> /\ stack' = Front(Rest)
  <2>1. PICK l \in Seq(Frames), g \in Frames : Rest = Append(l, g) /\ l = Front(Rest)
    BY <1>2, <1>4, Popped
  <2>2. Shape(l) /\ \A c : Carries(l, c) => Carries(Rest, c)
    BY <1>2, <2>1, Nests
  <2>. QED
    BY <1>1, <1>2, <1>4, <2>1, <2>2, Moved
<1>. QED
  BY <1>3, <1>4 DEF SuspendTransfer, HaltTransfer, CompleteTransfer

\* Another channel's device does not raise a request that is there already.
LEMMA DeviceBlockNests ==
  ASSUME DecoderInvariant, Nesting, DeviceBlock, UNCHANGED mdecVars
  PROVE  Nesting'
<1>1. ~Idle /\ Top.op = "device" /\ Top.ch # "MDECout" /\ UNCHANGED <<dmaOut, outCount>>
  BY DEF DeviceBlock, At, mdecVars, decoderVars
<1>2. /\ Top.ch \in request /\ Shape(Rest)
      /\ \A c : Carries(Rest, c) => Carries(stack, c)
  BY <1>1, Below DEF OnTop
<1>3. PICK on \in BOOLEAN : SetRequest(Top.ch, on, Rest)
  BY DEF DeviceBlock
<1>4. stack' = Rest
  BY <1>2, <1>3 DEF SetRequest, CanTransferChannel
<1>5. "MDECout" \in request => "MDECout" \in request'
  BY <1>1, <1>3 DEF SetRequest
<1>. QED
  BY <1>1, <1>2, <1>4, <1>5, Moved

LEMMA DMAStepNests ==
  ASSUME DecoderInvariant, Nesting, UNCHANGED mdecVars,
         ProgramDMA \/ DMAStep \/ UnhaltTransfer
  PROVE  Nesting'
BY ProgramNests, ScanNests, BlockNests, NextBlockNests, EndNests, DeviceBlockNests DEF DMAStep

-----------------------------------------------------------------------------
(* The decoder within transfers.                                           *)

\* Execute fills no output FIFO.
LEMMA ExecuteNests ==
  ASSUME DecoderInvariant, Nesting,
         \/ ParseCommand \/ NothingToDo \/ CompleteMacroblock
         \/ AwaitData \/ SetTable \/ SkipParameters
  PROVE  Nesting'
<1>1. /\ ~Idle /\ Top.op = "execute" /\ UNCHANGED <<request, dmaOut>>
      /\ Continue \/ Finished \/ UNCHANGED stack
      /\ outCount' = 0 \/ UNCHANGED outCount
  BY DEF ParseCommand, NothingToDo, CompleteMacroblock, CopyOutLater, AwaitData, SetTable,
         SkipParameters, At, mdecVars, decoderVars
<1>2. PICK f \in Frames : f = Call("statusIn") /\ f.op = "statusIn" /\ \A c : ~IsTransfer(f, c)
  BY CallFact DEF IsTransfer
<1>3. /\ Rest \in Seq(Frames) /\ Shape(Rest) /\ stack \in Seq(Frames) /\ Shape(stack)
      /\ \A c : Carries(Rest, c) => Carries(stack, c)
  BY <1>1, Below, TopCall DEF Nesting, DecoderInvariant
<1>4. Shape(stack') /\ \A c : Carries(stack', c) => Carries(stack, c)
  <2>1. CASE UNCHANGED stack
    BY <1>3, <2>1
  <2>2. CASE Continue
    BY <1>2, <1>3, <2>2, Called DEF Continue
  <2>3. CASE Finished
    BY <1>2, <1>3, <2>3, Called DEF Finished
  <2>. QED
    BY <1>1, <2>1, <2>2, <2>3
<1>. QED
  BY <1>1, <1>4, Moved

LEMMA StatusInNests ==
  ASSUME DecoderInvariant, Nesting, StatusIn PROVE Nesting'
<1> DEFINE on == dmaIn /\ Space >= Threshold
           low == Append(Rest, Call("statusOut"))
<1>1. /\ ~Idle /\ Top.op = "statusIn" /\ UNCHANGED <<dmaOut, outCount>>
      /\ SetRequest("MDECin", on, low)
  BY DEF StatusIn, At, mdecVars, decoderVars
<1>2. PICK f \in Frames : f = Call("statusOut") /\ f.op = "statusOut" /\ \A c : ~IsTransfer(f, c)
  BY CallFact DEF IsTransfer
<1>3. low \in Seq(Frames) /\ Shape(low) /\ \A c : Carries(low, c) => Carries(stack, c)
  <2>1. /\ Rest \in Seq(Frames) /\ Shape(Rest)
        /\ \A c : Carries(Rest, c) => Carries(stack, c)
    BY <1>1, Below
  <2>2. low = Append(Rest, f)
    BY <1>2
  <2>. HIDE DEF low
  <2>. QED
    BY <1>2, <2>1, <2>2, Called
<1>. HIDE DEF on, low
<1>4. PICK g \in Frames : g = TransferChannel("MDECin") /\ g.op = "block" /\ g.ch = "MDECin"
  BY MDECAssumption, BlockFrame DEF DecoderInvariant, CallsOK
<1>5. "MDECout" \in request => "MDECout" \in request'
  BY <1>1 DEF SetRequest
<1>6. stack' = low \/ stack' = Append(low, g)
  BY <1>1, <1>4 DEF SetRequest
<1>7. Shape(Append(low, g)) /\ \A c : c # "MDECin" /\ Carries(Append(low, g), c) => Carries(low, c)
  BY <1>3, <1>4, Called DEF IsTransfer, Others
<1>8. Shape(stack') /\ (Carries(stack', "MDECout") => Carries(stack, "MDECout"))
  BY <1>3, <1>6, <1>7
<1>. QED
  BY <1>1, <1>5, <1>8, Moved

\* A transfer is started only when none of the output channel is in progress.
LEMMA StatusOutNests ==
  ASSUME DecoderInvariant, Nesting, StatusOut PROVE Nesting'
<1> DEFINE on == dmaOut /\ outCount > 0
<1>1. /\ ~Idle /\ Top.op = "statusOut" /\ UNCHANGED <<dmaOut, outCount>>
      /\ SetRequest("MDECout", on, Rest)
  BY DEF StatusOut, At, mdecVars, decoderVars
<1>2. /\ Rest \in Seq(Frames) /\ Shape(Rest)
      /\ \A c : Carries(Rest, c) => Carries(stack, c)
  BY <1>1, Below
<1>3. on <=> dmaOut /\ outCount # 0
  BY DEF DecoderInvariant, DecoderOK
<1>. HIDE DEF on
<1>4. "MDECout" \in request' <=> on
  BY <1>1 DEF SetRequest
<1>5. PICK g \in Frames : g = TransferChannel("MDECout") /\ g.op = "block" /\ g.ch = "MDECout"
  BY MDECAssumption, BlockFrame DEF DecoderInvariant, CallsOK
<1>6. CASE stack' = Rest
  BY <1>1, <1>2, <1>3, <1>4, <1>6 DEF Nesting, OutputAsked
<1>7. CASE on /\ "MDECout" \notin request /\ stack' = Append(Rest, g)
  <2>1. ~Carries(stack, "MDECout")
    BY <1>3, <1>7 DEF Nesting, OutputAsked
  <2>2. Shape(stack')
    BY <1>2, <1>5, <1>7, <2>1, Called DEF IsTransfer
  <2>. QED
    BY <1>4, <1>7, <2>2 DEF Nesting, OutputAsked
<1>8. stack' = Rest \/ (stack' = Append(Rest, g) /\ on /\ "MDECout" \notin request)
  BY <1>1, <1>4, <1>5 DEF SetRequest, CanTransferChannel
<1>. QED
  BY <1>6, <1>7, <1>8

\* The program's registers and the event, while nothing is going on.
LEMMA FirstNests ==
  ASSUME \/ WriteCommandRegister \/ ReadDataRegister \/ CopyOutBlock
         \/ \E reset \in BOOLEAN, enable \in Enables : WriteControlRegister(reset, enable)
  PROVE  Nesting'
<1>1. \E op \in {"execute", "statusIn"} : stack' = <<Call(op)>>
  BY DEF WriteCommandRegister, ReadDataRegister, CopyOutBlock, WriteControlRegister
<1>. QED
  BY <1>1, BeginsOwn

\* The blocks of the decoder's own channels.
LEMMA DeviceNests ==
  ASSUME DecoderInvariant, Nesting, DMAWrite \/ DMARead PROVE Nesting'
<1>1. /\ ~Idle /\ Top.op = "device" /\ UNCHANGED <<request, dmaOut>>
      /\ stack' = Append(Rest, Call("execute")) \/ stack' = Rest
      /\ UNCHANGED outCount \/ Top.ch = "MDECout"
  BY DEF DMAWrite, DMARead, At, decoderVars
<1>2. /\ Rest \in Seq(Frames) /\ Shape(Rest) /\ Top.ch \in request
      /\ \A c : Carries(Rest, c) => Carries(stack, c)
  BY <1>1, Below DEF OnTop
<1>3. PICK f \in Frames : f = Call("execute") /\ f.op = "execute" /\ \A c : ~IsTransfer(f, c)
  BY CallFact DEF IsTransfer
<1>4. Shape(stack') /\ \A c : Carries(stack', c) => Carries(stack, c)
  <2>1. Shape(Append(Rest, f)) /\ \A c : Carries(Append(Rest, f), c) => Carries(Rest, c)
    BY <1>2, <1>3, Called
  <2>. QED
    BY <1>1, <1>2, <1>3, <2>1
<1>. QED
  BY <1>1, <1>2, <1>4 DEF Nesting, OutputAsked

LEMMA StepNests ==
  ASSUME DecoderInvariant, Nesting, [Next]_vars
  PROVE  Nesting'
<1>1. CASE Program
  BY <1>1, DMAStepNests, FirstNests DEF Program
<1>2. CASE Step
  BY <1>2, DMAStepNests, StatusInNests, StatusOutNests, ExecuteNests, DeviceNests DEF Step
<1>3. CASE Unhalt
  BY <1>3, DMAStepNests DEF Unhalt
<1>4. CASE CopyOutBlock
  BY <1>4, FirstNests
<1>5. CASE UNCHANGED vars
  <2>1. UNCHANGED <<stack, request, outCount, dmaOut>>
    BY <1>5 DEF vars, dmaVars, mdecVars, decoderVars
  <2>. QED
    BY <2>1 DEF Nesting, OutputAsked
<1>. QED
  BY <1>1, <1>2, <1>3, <1>4, <1>5 DEF Next

LEMMA OnceEach == ASSUME stack \in Seq(Frames), Once(stack) PROVE OnlyInputReenters
<1>. SUFFICES ASSUME NEW c \in Others PROVE Cardinality(Transfers(c)) <= 1
  BY DEF OnlyInputReenters, Others
<1>1. Transfers(c) = {i \in 1 .. Len(stack) : IsTransfer(stack[i], c)}
  BY DEF Transfers, IsTransfer
<1>2. CASE Transfers(c) = {}
  BY <1>2, FS_EmptySet
<1>3. ASSUME NEW i \in Transfers(c) PROVE Cardinality(Transfers(c)) <= 1
  <2>1. Transfers(c) = {i}
    BY <1>1, <1>3 DEF Once
  <2>2. Cardinality(Transfers(c)) = 1
    BY <2>1, FS_Singleton
  <2>. QED
    BY <2>2
<1>. QED
  BY <1>2, <1>3

-----------------------------------------------------------------------------
(* The theorems.                                                           *)

\* The FIFOs, the decoder's state and the calls in progress have their types; the input FIFO
\* is never overrun.
THEOREM DecoderTypeCorrect == Spec => []TypeOK
<1>1. DecoderInvariant => TypeOK
  BY DEF DecoderInvariant, CallsOK, DecoderOK, TypeOK
<1>. QED
  BY <1>1, DecoderInvariance, PTL

\* When UpdateStatus and whatever transfers it started have returned, both channels have been
\* told the truth about their FIFOs, however deep the calls were nested.
THEOREM RequestsStayFresh == Spec => []RequestsFresh
<1>1. DecoderInvariant => RequestsFresh
  <2>. SUFFICES ASSUME DecoderInvariant, Idle PROVE InTold /\ OutTold
    BY DEF RequestsFresh, InTold, OutTold
  <2>1. ~Pending(stack)
    BY Empty DEF Idle
  <2>. QED
    BY <2>1 DEF DecoderInvariant, Told
<1>. QED
  BY <1>1, DecoderInvariance, PTL

\* DMAWrite, which drops what does not fit, is only called when a block fits.
THEOREM BlocksHaveRoom == ASSUME BlocksFit PROVE Spec => []RoomForBlock
<1>1. DecoderInvariant => RoomForBlock
  BY Room
<1>. QED
  BY <1>1, DecoderInvariance, PTL

\* CopyOutBlock, which does not check, never overruns the output FIFO.
THEOREM OutputAlwaysFits == Spec => []OutputFits
<1>1. DecoderInvariant => OutputFits
  BY DEF DecoderInvariant, DecoderOK, OutputFits
<1>. QED
  BY <1>1, DecoderInvariance, PTL

\* What Execute takes for a command was sent as one, although commands and parameters come in
\* blocks and single words and are taken as the macroblocks need them.
THEOREM CommandsStayAligned ==
  ASSUME BlocksFit, BareUnknowns
  PROVE  Spec => []CommandsAligned
<1>1. Init => Aligned
  <2>. SUFFICES ASSUME Init PROVE Aligned
    OBVIOUS
  <2>1. mstate = "idle" /\ inFifo = <<>> /\ owed = 0 /\ Expected = 0
    BY DEF Init, Expected
  <2>. QED
    BY <2>1, StreamEmpty DEF Aligned
<1>2. DecoderInvariant /\ Aligned /\ [Next]_vars => Aligned'
  BY AlignedStep
<1>3. DecoderInvariant /\ Aligned => CommandsAligned
  <2>. SUFFICES ASSUME DecoderInvariant, Aligned, mstate = "idle", inFifo # <<>>
                PROVE  Head(inFifo) # Data
    BY DEF CommandsAligned
  <2>1. inFifo \in Seq(Words) /\ Stream(inFifo, 0, owed)
    BY DEF DecoderInvariant, DecoderOK, Aligned, Expected
  <2>. QED
    BY <2>1, StreamHead, WordsFact
<1>. QED
  BY <1>1, <1>2, <1>3, DecoderInvariance, PTL DEF Spec

\* No transfer but the input channel's is started within itself, although status updates start
\* transfers from within the blocks of others.
THEOREM OthersDoNotReenter == Spec => []OnlyInputReenters
<1>1. Init => Nesting
  BY NothingNests DEF Init, DMAInit, Nesting, OutputAsked
<1>2. DecoderInvariant /\ Nesting /\ [Next]_vars => Nesting'
  BY StepNests
<1>3. DecoderInvariant /\ Nesting => OnlyInputReenters
  <2>1. DecoderInvariant => stack \in Seq(Frames)
    BY CallsFact DEF DecoderInvariant
  <2>. QED
    BY <2>1, OnceEach DEF Nesting, Shape
<1>. QED
  BY <1>1, <1>2, <1>3, DecoderInvariance, PTL DEF Spec
=============================================================================
