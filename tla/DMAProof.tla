------------------------------ MODULE DMAProof ------------------------------
(***************************************************************************)
(* The DMA controller, proved for any channels, modes and block counts.    *)
(*                                                                         *)
(* As long as a device that is handed a block answers for its own channel  *)
(* only, at most one transfer is in progress, possibly within the loop     *)
(* over all channels.  The invariant says what the registers of the other  *)
(* channels hold, what the running transfer has done so far, and that      *)
(* every channel that may transfer will still be looked at.                *)
(***************************************************************************)
EXTENDS DMA, FiniteSetTheorems, SequenceTheorems, TLAPS

-----------------------------------------------------------------------------
(* Sequences and smallest elements.                                        *)

\* The calls below the one on top.
LEMMA PushPop ==
  ASSUME NEW S, NEW s \in Seq(S), NEW e \in S
  PROVE  /\ Append(s, e) \in Seq(S) /\ Append(s, e) # <<>>
         /\ Last(Append(s, e)) = e /\ Front(Append(s, e)) = s
<1>1. /\ Append(s, e) \in Seq(S) /\ Len(Append(s, e)) = Len(s) + 1 /\ Len(s) \in Nat
      /\ Append(s, e)[Len(s) + 1] = e
      /\ \A i \in 1 .. Len(s) : Append(s, e)[i] = s[i]
  BY AppendProperties, LenProperties
<1>2. Last(Append(s, e)) = e
  BY <1>1 DEF Last
<1>3. /\ SubSeq(Append(s, e), 1, Len(s)) \in Seq(S)
      /\ Len(SubSeq(Append(s, e), 1, Len(s))) = Len(s)
      /\ \A i \in 1 .. Len(s) : SubSeq(Append(s, e), 1, Len(s))[i] = s[i]
  <2>1. \A i \in 1 .. Len(s) : Append(s, e)[i] \in S
    BY <1>1, ElementOfSeq
  <2>. QED
    BY <1>1, <2>1, SubSeqProperties
<1>4. SubSeq(Append(s, e), 1, Len(s)) = s
  BY <1>1, <1>3, SeqEqual
<1>5. Front(Append(s, e)) = s
  BY <1>1, <1>4 DEF Front
<1>. QED
  BY <1>1, <1>2, <1>5

\* A set of naturals has a smallest element (the sets 0 .. n are well-founded by inclusion).
LEMMA Smallest ==
  ASSUME NEW T, T \subseteq Nat, T # {}
  PROVE  Min(T) \in T /\ \A y \in T : Min(T) <= y
<1> DEFINE F == {0 .. n : n \in T}
<1>1. \A n \in T : 0 .. n \in FiniteSubsetsOf(Nat)
  <2>. TAKE n \in T
  <2>1. IsFiniteSet(0 .. n)
    BY FS_Interval
  <2>2. 0 .. n \in SUBSET Nat
    OBVIOUS
  <2>. QED
    BY <2>1, <2>2 DEF FiniteSubsetsOf
<1>2. F \subseteq FiniteSubsetsOf(Nat) /\ F # {}
  BY <1>1
<1>3. \A s \in F : s \subseteq Nat /\ \E n \in T : s = 0 .. n
  OBVIOUS
<1>4. \A n \in T : 0 .. n \in F
  OBVIOUS
<1>. HIDE DEF F
<1>5. PICK s \in F : \A t \in F : ~ (<<t, s>> \in StrictSubsetOrdering(Nat))
  BY <1>2, FS_StrictSubsetOrderingWellFounded, WFMin
<1>6. PICK n \in T : s = 0 .. n
  BY <1>3
<1>7. ASSUME NEW m \in T, m < n PROVE FALSE
  <2>1. 0 .. m \in F /\ 0 .. m \subseteq s /\ n \in s /\ n \notin 0 .. m
    BY <1>4, <1>6, <1>7
  <2>2. <<0 .. m, s>> \in StrictSubsetOrdering(Nat)
    BY <1>3, <2>1 DEF StrictSubsetOrdering
  <2>. QED
    BY <1>5, <2>1, <2>2
<1>8. \E x \in T : \A y \in T : x <= y
  BY <1>7
<1>. QED
  BY <1>8 DEF Min

-----------------------------------------------------------------------------
(* The invariant.                                                          *)

Frames == [op : {"block", "after", "device", "scan", "execute", "statusIn", "statusOut"},
           ch : Channels, pos : Nat, left : Nat]

\* Not in progress: the registers say where to go on.
Waiting(c) == base[c] = moved[c] /\ base[c] + left[c] = total[c] /\ left[c] > 0

\* In progress: the frame says so.
Running(f) ==
  /\ f.op \in {"block", "after"} /\ f.ch \in busy
  /\ f.op = "block" => f.ch \in request /\ f.left > 0
  /\ f.pos = moved[f.ch] /\ f.pos + f.left = total[f.ch]

\* The loop over all channels, if it is in progress, is the first call of all.
Loops == {<<>>} \cup {<<f>> : f \in {g \in Frames : g.op = "scan" /\ g.left > 0}}

Ready(c) == Mode[c] # "manual" /\ CanTransferChannel(c, request, FALSE)

\* The loop has yet to look at c.
Ahead(loop, c) == loop # <<>> /\ \E i \in loop[1].left .. Len(Order) : Order[i] = c

\* No transfer is in progress.
Between(loop) ==
  /\ stack = loop
  /\ \A c \in busy : Waiting(c)
  /\ \A c \in Channels : Ready(c) => Ahead(loop, c)

\* The device is asked for its part of a block.
Asked(f) == Frame("device", f.ch, 0, 0)

\* f is in progress, or its device is.
Within(loop, f) ==
  /\ Running(f)
  /\ \/ stack = Append(loop, f)
     \/ f.op = "after" /\ f.ch \in request /\ stack = Append(Append(loop, f), Asked(f))
  /\ \A c \in busy \ {f.ch} : Waiting(c)
  /\ \A c \in Channels \ {f.ch} : Ready(c) => Ahead(loop, c)

Calls == \E loop \in Loops : Between(loop) \/ \E f \in Frames : Within(loop, f)

Invariant == DMATypeOK /\ Calls

LEMMA FramesFact ==
  /\ \A f \in Frames : /\ f.ch \in Channels /\ f.pos \in Nat /\ f.left \in Nat
                       /\ Asked(f) \in Frames /\ Asked(f).op = "device" /\ Asked(f).ch = f.ch
  /\ Order[1] \in Channels
  /\ Loops \subseteq Seq(Frames)
  /\ Frame("scan", Order[1], 0, 1) \in Frames
  /\ <<>> \in Loops /\ <<Frame("scan", Order[1], 0, 1)>> \in Loops
<1>1. \A f \in Frames : /\ f.ch \in Channels /\ f.pos \in Nat /\ f.left \in Nat
                       /\ Asked(f) \in Frames /\ Asked(f).op = "device" /\ Asked(f).ch = f.ch
  BY DEF Frames, Asked, Frame
<1>2. Order[1] \in Channels
  BY ChannelsAssumption, EmptySeq, ElementOfSeq, LenProperties
<1>3. \A f \in Frames : <<f>> \in Seq(Frames)
  OBVIOUS
<1>4. Loops \subseteq Seq(Frames)
  BY <1>3, EmptySeq DEF Loops
<1>5. /\ Frame("scan", Order[1], 0, 1) \in Frames
      /\ Frame("scan", Order[1], 0, 1).op = "scan" /\ Frame("scan", Order[1], 0, 1).left = 1
  BY <1>2 DEF Frame, Frames
<1>. QED
  BY <1>1, <1>2, <1>4, <1>5 DEF Loops

\* What is on top of the stack, and what below it.
LEMMA LoopTop ==
  ASSUME NEW loop \in Loops
  PROVE  \/ loop = <<>>
         \/ /\ loop # <<>> /\ Last(loop) = loop[1] /\ Front(loop) = <<>>
            /\ loop[1] \in Frames /\ loop[1].op = "scan" /\ loop[1].left > 0
            /\ loop = <<loop[1]>>
<1>1. CASE loop # <<>>
  <2>1. PICK f \in Frames : loop = <<f>> /\ f.op = "scan" /\ f.left > 0
    BY <1>1 DEF Loops
  <2>2. Append(<<>>, f) = <<f>> /\ <<>> \in Seq(Frames)
    OBVIOUS
  <2>3. Last(loop) = f /\ Front(loop) = <<>> /\ loop[1] = f
    BY <2>1, <2>2, PushPop
  <2>. QED
    BY <1>1, <2>1, <2>3
<1>. QED
  BY <1>1

LEMMA TransferTop ==
  ASSUME NEW loop \in Loops, NEW f \in Frames, Within(loop, f)
  PROVE  /\ stack # <<>>
         /\ \/ stack = Append(loop, f) /\ Top = f /\ Rest = loop
            \/ /\ stack = Append(Append(loop, f), Asked(f)) /\ Top = Asked(f)
               /\ Rest = Append(loop, f) /\ f.op = "after" /\ f.ch \in request
<1>1. loop \in Seq(Frames) /\ Append(loop, f) \in Seq(Frames) /\ Asked(f) \in Frames
  BY FramesFact, PushPop
<1>2. CASE stack = Append(loop, f)
  BY <1>1, <1>2, PushPop DEF Top, Rest
<1>3. CASE f.op = "after" /\ f.ch \in request /\ stack = Append(Append(loop, f), Asked(f))
  BY ZenonT(60), <1>1, <1>3, PushPop DEF Top, Rest
<1>. QED
  BY <1>2, <1>3 DEF Within

\* With nothing in progress all channels are accounted for.
LEMMA IdleCalls == ASSUME Calls, Idle PROVE Between(<<>>)
<1>1. PICK loop \in Loops : Between(loop) \/ \E f \in Frames : Within(loop, f)
  BY DEF Calls
<1>2. Between(loop)
  BY <1>1, TransferTop DEF Idle
<1>3. loop = <<>>
  BY <1>2 DEF Between, Idle
<1>. QED
  BY <1>2, <1>3

\* In the middle of a transfer, what is on top belongs to it.
LEMMA TransferCalls ==
  ASSUME Calls, NEW op \in {"block", "after"}, At(op)
  PROVE  \E loop \in Loops, t \in Frames :
           Within(loop, t) /\ stack = Append(loop, t) /\ Top = t /\ Rest = loop /\ t.op = op
<1>1. PICK loop \in Loops : Between(loop) \/ \E f \in Frames : Within(loop, f)
  BY DEF Calls
<1>2. ~Between(loop)
  BY LoopTop DEF Between, At, Idle, Top
<1>3. PICK f \in Frames : Within(loop, f)
  BY <1>1, <1>2
<1>4. stack = Append(loop, f) /\ Top = f /\ Rest = loop
  BY <1>3, TransferTop, FramesFact DEF At
<1>. QED
  BY <1>3, <1>4 DEF At

LEMMA DeviceCalls ==
  ASSUME Calls, At("device")
  PROVE  \E loop \in Loops : \E f \in Frames :
           /\ Within(loop, f) /\ Rest = Append(loop, f) /\ Top.ch = f.ch /\ f.op = "after"
           /\ f.ch \in request
<1>1. PICK loop \in Loops : Between(loop) \/ \E f \in Frames : Within(loop, f)
  BY DEF Calls
<1>2. ~Between(loop)
  BY LoopTop DEF Between, At, Idle, Top
<1>3. PICK f \in Frames : Within(loop, f)
  BY <1>1, <1>2
<1>4. Top.ch = f.ch /\ Rest = Append(loop, f) /\ f.op = "after" /\ f.ch \in request
  BY <1>3, TransferTop, FramesFact DEF At, Within, Running
<1>. QED
  BY <1>3, <1>4

LEMMA LoopCalls ==
  ASSUME Calls, At("scan")
  PROVE  \E t \in Frames : /\ Between(<<t>>) /\ Top = t /\ Rest = <<>>
                            /\ t.op = "scan" /\ t.left > 0
<1>1. PICK loop \in Loops : Between(loop) \/ \E f \in Frames : Within(loop, f)
  BY DEF Calls
<1>2. Between(loop)
  BY <1>1, TransferTop, FramesFact DEF At, Within, Running
<1>. QED
  BY <1>2, LoopTop DEF Between, At, Idle, Top, Rest

-----------------------------------------------------------------------------
(* Types.                                                                  *)

LEMMA TypeFact ==
  ASSUME DMATypeOK
  PROVE  /\ master \subseteq Channels /\ busy \subseteq Channels /\ request \subseteq Channels
         /\ base \in [Channels -> Nat] /\ left \in [Channels -> Nat]
         /\ total \in [Channels -> Nat] /\ moved \in [Channels -> Nat]
         /\ halted \in BOOLEAN /\ stack \in Seq(Frames)
BY DEF DMATypeOK, Frames

\* A channel begins where its registers say.
LEMMA BlockFrame ==
  ASSUME DMATypeOK, NEW c \in Channels
  PROVE  /\ TransferChannel(c) \in Frames
         /\ TransferChannel(c).op = "block" /\ TransferChannel(c).ch = c
         /\ TransferChannel(c).pos = base[c] /\ TransferChannel(c).left = left[c]
BY TypeFact DEF TransferChannel, Frame, Frames

StackOK == stack \in Seq(Frames)

LEMMA StackType == Calls => StackOK
<1>. SUFFICES ASSUME Calls PROVE stack \in Seq(Frames)
  BY DEF StackOK
<1>1. PICK loop \in Loops : Between(loop) \/ \E f \in Frames : Within(loop, f)
  BY DEF Calls
<1>2. loop \in Seq(Frames)
  BY FramesFact
<1>3. CASE Between(loop)
  BY <1>2, <1>3 DEF Between
<1>4. ASSUME NEW f \in Frames, Within(loop, f) PROVE stack \in Seq(Frames)
  BY ZenonT(60), <1>2, <1>4, FramesFact, PushPop DEF Within
<1>. QED
  BY <1>1, <1>3, <1>4

-----------------------------------------------------------------------------
(* The program's steps.                                                    *)

LEMMA InitCalls == DMAInit => Invariant
<1>. SUFFICES ASSUME DMAInit PROVE Invariant
  OBVIOUS
<1>1. Between(<<>>)
  BY DEF DMAInit, Between, Ready, CanTransferChannel
<1>2. stack \in Seq(Frames)
  BY EmptySeq DEF DMAInit
<1>3. irq \in [enable : SUBSET Channels, master : BOOLEAN, flags : SUBSET Channels]
  BY DEF DMAInit
<1>4. halted \in BOOLEAN /\ istat \in BOOLEAN
  BY DEF DMAInit
<1>5. {master, busy, request} \subseteq SUBSET Channels
  BY DEF DMAInit
<1>6. {base, left, total, moved} \subseteq [Channels -> Nat]
  BY DEF DMAInit
<1>7. DMATypeOK
  BY <1>2, <1>3, <1>4, <1>5, <1>6 DEF DMATypeOK, Frames
<1>. QED
  BY <1>1, <1>7, FramesFact DEF Invariant, Calls

LEMMA StartCalls ==
  ASSUME Invariant, NEW c \in Channels, NEW n \in Nat \ {0}, StartChannel(c, n)
  PROVE  Calls'
<1> DEFINE f == Frame("block", c, 0, n)
<1>1. Between(<<>>)
  BY IdleCalls DEF StartChannel, Invariant
<1>2. /\ busy' = busy \cup {c} /\ request \subseteq request' /\ request' \subseteq request \cup {c}
      /\ base'[c] = 0 /\ left'[c] = n /\ total'[c] = n /\ moved'[c] = 0
      /\ \A d \in busy : /\ base'[d] = base[d] /\ left'[d] = left[d]
                         /\ total'[d] = total[d] /\ moved'[d] = moved[d]
      /\ master' = master /\ halted' = halted /\ c \notin busy
  BY TypeFact DEF StartChannel, Invariant
<1>3. \A d \in busy : Waiting(d)'
  BY <1>1, <1>2 DEF Between, Waiting
<1>4. \A d \in Channels \ {c} : ~Ready(d)'
  BY <1>1, <1>2 DEF Between, Ready, CanTransferChannel, Ahead
<1>5. f \in Frames /\ f.op = "block" /\ f.ch = c /\ f.left = n /\ f.pos = 0
  BY DEF Frame, Frames
<1>. HIDE DEF f
<1>6. CASE c \in master /\ c \in request'
  <2>1. stack' = Append(<<>>, f)
    BY <1>6 DEF StartChannel, f
  <2>2. Running(f)'
    BY <1>2, <1>5, <1>6 DEF Running
  <2>3. Within(<<>>, f)'
    BY <1>2, <1>3, <1>4, <1>5, <2>1, <2>2 DEF Within
  <2>. QED
    BY <1>5, <2>3, FramesFact DEF Calls
<1>7. CASE ~(c \in master /\ c \in request')
  <2>1. stack' = <<>>
    BY <1>7 DEF StartChannel
  <2>2. ~Ready(c)' /\ Waiting(c)'
    BY <1>2, <1>7 DEF Ready, CanTransferChannel, Waiting
  <2>3. Between(<<>>)'
    BY <1>2, <1>3, <1>4, <2>1, <2>2 DEF Between
  <2>. QED
    BY <2>3, FramesFact DEF Calls
<1>. QED
  BY <1>6, <1>7

LEMMA StopCalls ==
  ASSUME Invariant, NEW c \in Channels, StopChannel(c)
  PROVE  Calls'
<1>1. Between(<<>>)
  BY IdleCalls DEF StopChannel, Invariant
<1>2. /\ busy' = busy \ {c} /\ request' \subseteq request /\ base' = base /\ left' = left
      /\ \A d \in busy \ {c} : total'[d] = total[d] /\ moved'[d] = moved[d]
      /\ master' = master /\ halted' = halted /\ stack' = stack
  BY TypeFact DEF StopChannel, Forget, Invariant
<1>3. Between(<<>>)'
  BY <1>1, <1>2 DEF Between, Waiting, Ready, CanTransferChannel, Ahead
<1>. QED
  BY <1>3, FramesFact DEF Calls

\* From the first channel on, the loop looks at all of them.
LEMMA LoopAhead ==
  ASSUME NEW loop, loop = <<Frame("scan", Order[1], 0, 1)>>
  PROVE  loop \in Loops /\ \A c \in Channels : Ahead(loop, c)
<1>1. loop # <<>> /\ loop[1].left = 1
  BY DEF Frame
<1>2. \A c \in Channels : \E i \in 1 .. Len(Order) : Order[i] = c
  BY ChannelsAssumption, LenProperties DEF Channels, ToSet
<1>. QED
  BY <1>1, <1>2, FramesFact DEF Ahead

LEMMA LookAtAllCalls ==
  ASSUME Invariant, Idle, stack' = <<Frame("scan", Order[1], 0, 1)>>,
         UNCHANGED <<busy, base, left, total, moved>>
  PROVE  Calls'
<1> DEFINE loop == <<Frame("scan", Order[1], 0, 1)>>
<1>1. Between(<<>>)
  BY IdleCalls DEF Invariant
<1>2. \A d \in busy' : Waiting(d)'
  BY <1>1 DEF Between, Waiting
<1>3. loop \in Loops /\ \A c \in Channels : Ahead(loop, c)
  BY LoopAhead
<1>4. stack' = loop
  OBVIOUS
<1>. HIDE DEF loop
<1>5. Between(loop)'
  BY <1>2, <1>3, <1>4 DEF Between, Ahead
<1>. QED
  BY <1>3, <1>5 DEF Calls

LEMMA RequestCalls ==
  ASSUME Invariant, NEW c \in Channels, NEW on \in BOOLEAN, DeviceRequest(c, on)
  PROVE  Calls'
<1>1. Between(<<>>)
  BY IdleCalls DEF DeviceRequest, Invariant
<1>2. /\ UNCHANGED <<master, busy, base, left, total, moved, halted>>
      /\ SetRequest(c, on, <<>>)
  BY DEF DeviceRequest, channelVars
<1>3. request' = IF on THEN request \cup {c} ELSE request \ {c}
  BY <1>2 DEF SetRequest
<1>4. \A d \in busy : Waiting(d)'
  BY <1>1, <1>2 DEF Between, Waiting
<1>5. \A d \in Channels \ {c} : ~Ready(d)'
  BY <1>1, <1>2, <1>3 DEF Between, Ready, CanTransferChannel, Ahead
<1>6. CASE request' # request /\ CanTransferChannel(c, request', FALSE)
  <2>1. stack' = Append(<<>>, TransferChannel(c))
    BY <1>2, <1>3, <1>6 DEF SetRequest
  <2>2. Running(TransferChannel(c))'
    <3>1. c \in busy /\ c \in request' /\ Waiting(c)
      BY <1>1, <1>6 DEF Between, CanTransferChannel
    <3>. QED
      BY <1>2, <3>1, BlockFrame DEF Running, Waiting, Invariant, TransferChannel, Frame
  <2>3. Within(<<>>, TransferChannel(c))'
    BY <1>2, <1>4, <1>5, <2>1, <2>2 DEF Within, TransferChannel, Frame
  <2>. QED
    BY <1>2, <2>3, FramesFact, BlockFrame DEF Calls, Invariant, TransferChannel
<1>7. CASE ~(request' # request /\ CanTransferChannel(c, request', FALSE))
  <2>1. stack' = <<>>
    BY <1>2, <1>3, <1>7 DEF SetRequest
  <2>2. ~Ready(c)'
    BY <1>1, <1>2, <1>3, <1>7 DEF Between, Ready, CanTransferChannel, Ahead
  <2>3. Between(<<>>)'
    BY <1>2, <1>4, <1>5, <2>1, <2>2 DEF Between
  <2>. QED
    BY <2>3, FramesFact DEF Calls
<1>. QED
  BY <1>6, <1>7

-----------------------------------------------------------------------------
(* The steps of the calls in progress.                                     *)

\* The loop goes on to a channel that can transfer; those it leaves behind cannot.
LEMMA ScanCalls == ASSUME Invariant, ScanChannels PROVE Calls'
<1>1. PICK t \in Frames : Between(<<t>>) /\ Top = t /\ Rest = <<>> /\ t.op = "scan" /\ t.left > 0
  BY LoopCalls DEF ScanChannels, Invariant
<1> DEFINE Can(i) == CanTransferChannel(Order[i], request, FALSE)
           ready == {i \in t.left .. Len(Order) : Can(i)}
<1>2. /\ UNCHANGED <<master, busy, base, left, total, moved, request, halted>>
      /\ stack' = IF ready = {} THEN <<>>
                  ELSE <<>> \o <<[t EXCEPT !.left = Min(ready) + 1],
                                 TransferChannel(Order[Min(ready)])>>
  BY <1>1 DEF ScanChannels, channelVars
<1>3. \A c \in Channels : Ready(c) => \E i \in t.left .. Len(Order) : Order[i] = c /\ Can(i)
  BY <1>1 DEF Between, Ready, Ahead
<1>4. Len(Order) \in Nat /\ t.left \in Nat
  BY ChannelsAssumption, LenProperties DEF Frames
<1>5. CASE ready = {}
  <2>1. \A c \in Channels : ~Ready(c)
    BY <1>3, <1>5
  <2>. HIDE DEF ready
  <2>2. stack' = <<>>
    BY <1>1, <1>2, <1>5
  <2>3. Between(<<>>)'
    BY <1>1, <1>2, <2>1, <2>2 DEF Between, Waiting, Ready, CanTransferChannel
  <2>. QED
    BY <2>3, FramesFact DEF Calls
<1>6. CASE ready # {}
  <2>1. PICK m \in t.left .. Len(Order) :
          m = Min(ready) /\ Can(m) /\ \A i \in t.left .. Len(Order) : Can(i) => m <= i
    <3>. HIDE DEF Can
    <3>1. ready \subseteq Nat
      BY <1>4
    <3>2. Min(ready) \in ready /\ \A i \in ready : Min(ready) <= i
      <4>. HIDE DEF ready
      <4>. QED
        BY <1>6, <3>1, Smallest
    <3>. QED
      BY <3>2
  <2>2. Order[m] \in Channels /\ m \in Nat /\ t.left <= m
    BY <1>4, <2>1, ChannelsAssumption, ElementOfSeq, <1>1
  <2>3. PICK c \in Channels : c = Order[m]
    BY <2>2
  <2>4. PICK f \in Frames : /\ f = TransferChannel(c)
                            /\ f.op = "block" /\ f.ch = c /\ f.pos = base[c] /\ f.left = left[c]
    BY BlockFrame DEF Invariant
  <2>5. PICK next \in Frames : /\ next = [t EXCEPT !.left = m + 1]
                               /\ next.op = "scan" /\ next.left = m + 1
    <3>1. /\ [t EXCEPT !.left = m + 1] \in Frames
          /\ [t EXCEPT !.left = m + 1].op = "scan" /\ [t EXCEPT !.left = m + 1].left = m + 1
      BY <1>1, <2>2 DEF Frames
    <3>. QED
      BY <3>1
  <2>6. stack' = <<>> \o <<next, f>>
    BY <1>2, <1>6, <2>1, <2>3, <2>4, <2>5
  <2>. HIDE DEF ready
  <2>7. <<next>> \in Loops /\ stack' = Append(<<next>>, f)
    <3>1. <<next>> \in Loops
      <4>1. m + 1 > 0
        BY <2>2
      <4>2. next \in {g \in Frames : g.op = "scan" /\ g.left > 0}
        BY <2>5, <4>1
      <4>. QED
        BY <4>2 DEF Loops
    <3>2. <<>> \o <<next, f>> = Append(<<next>>, f)
      OBVIOUS
    <3>. QED
      BY <2>6, <3>1, <3>2
  <2>8. c \in busy /\ c \in request /\ Waiting(c)
    BY <1>1, <2>1, <2>3 DEF Between, CanTransferChannel
  <2>9. Running(f)'
    BY <1>2, <2>4, <2>8 DEF Running, Waiting
  <2>10. \A d \in Channels \ {c} : Ready(d) => Ahead(<<next>>, d)
    <3>. SUFFICES ASSUME NEW d \in Channels \ {c}, Ready(d) PROVE Ahead(<<next>>, d)
      OBVIOUS
    <3>1. PICK i \in t.left .. Len(Order) : Order[i] = d /\ Can(i)
      BY <1>3
    <3>2. m <= i /\ i # m
      BY <2>1, <2>3, <3>1
    <3>3. i \in m + 1 .. Len(Order)
      BY <1>4, <2>2, <3>2
    <3>. QED
      BY <2>5, <3>1, <3>3 DEF Ahead
  <2>. HIDE DEF Can
  <2>11. Within(<<next>>, f)'
    BY <1>1, <1>2, <2>4, <2>7, <2>9, <2>10
       DEF Within, Between, Waiting, Ready, CanTransferChannel, Ahead
  <2>. QED
    BY <2>4, <2>7, <2>11 DEF Calls
<1>. QED
  BY <1>5, <1>6

LEMMA BlockCalls == ASSUME Invariant, TransferBlock PROVE Calls'
<1>1. PICK loop \in Loops, t \in Frames :
        Within(loop, t) /\ stack = Append(loop, t) /\ Top = t /\ Rest = loop /\ t.op = "block"
  BY TransferCalls DEF TransferBlock, Invariant
<1> DEFINE c == t.ch
           next == [t EXCEPT !.op = "after", !.pos = @ + 1, !.left = @ - 1]
<1>2. /\ UNCHANGED <<master, busy, base, left, total, request, halted>>
      /\ moved' = [moved EXCEPT ![c] = @ + 1]
      /\ stack' \in {Append(Append(loop, next), Asked(t)), Append(loop, next)}
  BY <1>1 DEF TransferBlock, Asked
<1>3. t \in Frames /\ t.op = "block" /\ Within(loop, t)
  BY <1>1
<1>4. c \in Channels /\ moved[c] \in Nat /\ t.left \in Nat /\ t.left > 0 /\ t.pos \in Nat
  BY <1>3, FramesFact, TypeFact DEF Within, Running, Invariant
<1>5. /\ next \in Frames /\ next.op = "after" /\ next.ch = c /\ next.pos = t.pos + 1
      /\ next.left = t.left - 1
  <2>1. t.pos + 1 \in Nat /\ t.left - 1 \in Nat
    BY <1>4
  <2>2. next = [t EXCEPT !.op = "after", !.pos = t.pos + 1, !.left = t.left - 1]
    BY <1>3 DEF Frames
  <2>. HIDE DEF next
  <2>. QED
    BY <1>3, <2>1, <2>2 DEF Frames
<1>6. moved'[c] = moved[c] + 1 /\ \A d \in Channels \ {c} : moved'[d] = moved[d]
  BY <1>2, <1>4, TypeFact DEF Invariant
<1>. HIDE DEF next
<1>7. Asked(t) = Asked(next)
  BY <1>5 DEF Asked, Frame
<1>8. Running(next)' /\ c \in request'
  BY <1>2, <1>3, <1>4, <1>5, <1>6 DEF Within, Running
<1>9. \A d \in busy \ {c} : Waiting(d)'
  BY <1>2, <1>3, <1>6, TypeFact DEF Within, Waiting, Invariant
<1>10. \A d \in Channels \ {c} : Ready(d)' => Ahead(loop, d)
  BY <1>2, <1>3 DEF Within, Ready, CanTransferChannel
<1>11. Within(loop, next)'
  BY <1>2, <1>5, <1>7, <1>8, <1>9, <1>10 DEF Within, Ahead, Asked
<1>. QED
  BY <1>1, <1>5, <1>11 DEF Calls

LEMMA NextBlockCalls == ASSUME Invariant, NextBlock PROVE Calls'
<1>1. PICK loop \in Loops, t \in Frames :
        Within(loop, t) /\ stack = Append(loop, t) /\ Top = t /\ Rest = loop /\ t.op = "after"
  BY TransferCalls DEF NextBlock, Invariant
<1> DEFINE f == [t EXCEPT !.op = "block"]
<1>2. /\ UNCHANGED <<master, busy, base, left, total, moved, request, halted>>
      /\ stack' = Append(loop, f) /\ t.left > 0 /\ t.ch \in request
  BY <1>1 DEF NextBlock, channelVars
<1>3. t \in Frames /\ Within(loop, t)
  BY <1>1
<1>4. f \in Frames /\ f.op = "block" /\ f.ch = t.ch /\ f.pos = t.pos /\ f.left = t.left
  BY <1>3 DEF Frames
<1>. HIDE DEF f
<1>5. Within(loop, f)'
  BY <1>2, <1>3, <1>4 DEF Within, Running, Waiting, Ready, CanTransferChannel, Ahead
<1>. QED
  BY <1>4, <1>5 DEF Calls

\* Where the transfer stopped is where it will go on.
LEMMA StoreWaiting ==
  ASSUME Invariant, NEW loop, NEW t \in Frames, Within(loop, t), t.left > 0,
         base' = [base EXCEPT ![t.ch] = t.pos], left' = [left EXCEPT ![t.ch] = t.left],
         UNCHANGED <<busy, total, moved>>
  PROVE  \A d \in busy : Waiting(d)'
<1>1. t.ch \in Channels /\ busy \subseteq Channels
  BY FramesFact, TypeFact DEF Invariant
<1>2. /\ base'[t.ch] = t.pos /\ left'[t.ch] = t.left
      /\ \A d \in Channels \ {t.ch} : base'[d] = base[d] /\ left'[d] = left[d]
  BY <1>1, TypeFact DEF Invariant
<1>3. Waiting(t.ch)'
  BY <1>2 DEF Within, Running, Waiting
<1>4. \A d \in busy \ {t.ch} : Waiting(d)'
  BY <1>1, <1>2 DEF Within, Waiting
<1>. QED
  BY <1>3, <1>4

LEMMA SuspendCalls == ASSUME Invariant, SuspendTransfer PROVE Calls'
<1>1. PICK loop \in Loops, t \in Frames :
        Within(loop, t) /\ stack = Append(loop, t) /\ Top = t /\ Rest = loop /\ t.op = "after"
  BY TransferCalls DEF SuspendTransfer, Invariant
<1>2. /\ UNCHANGED <<master, busy, total, moved, request, halted>>
      /\ base' = [base EXCEPT ![t.ch] = t.pos] /\ left' = [left EXCEPT ![t.ch] = t.left]
      /\ stack' = loop /\ t.left > 0 /\ t.ch \notin request
  BY <1>1 DEF SuspendTransfer, StoreProgress
<1>3. t \in Frames /\ Within(loop, t)
  BY <1>1
<1>4. \A d \in busy : Waiting(d)'
  BY <1>2, <1>3, StoreWaiting
<1>5. Between(loop)'
  BY <1>2, <1>3, <1>4 DEF Between, Within, Ready, CanTransferChannel, Ahead
<1>. QED
  BY <1>5 DEF Calls

LEMMA HaltCalls == ASSUME Invariant, HaltTransfer PROVE Calls'
<1>1. PICK loop \in Loops, t \in Frames :
        Within(loop, t) /\ stack = Append(loop, t) /\ Top = t /\ Rest = loop /\ t.op = "after"
  BY TransferCalls DEF HaltTransfer, Invariant
<1>2. /\ UNCHANGED <<master, busy, total, moved, request>> /\ halted' = TRUE
      /\ base' = [base EXCEPT ![t.ch] = t.pos] /\ left' = [left EXCEPT ![t.ch] = t.left]
      /\ t.left > 0
  BY <1>1 DEF HaltTransfer, StoreProgress
<1>3. stack' = <<>>
  BY <1>1, LoopTop DEF HaltTransfer
<1>4. t \in Frames /\ Within(loop, t)
  BY <1>1
<1>5. \A d \in busy : Waiting(d)'
  BY <1>2, <1>4, StoreWaiting
<1>6. Between(<<>>)'
  BY <1>2, <1>3, <1>5 DEF Between, Ready, CanTransferChannel
<1>. QED
  BY <1>6, FramesFact DEF Calls

LEMMA CompleteCalls == ASSUME Invariant, CompleteTransfer PROVE Calls'
<1>1. PICK loop \in Loops, t \in Frames :
        Within(loop, t) /\ stack = Append(loop, t) /\ Top = t /\ Rest = loop /\ t.op = "after"
  BY TransferCalls DEF CompleteTransfer, Invariant
<1>2. /\ UNCHANGED <<master, request, halted>>
      /\ busy' = busy \ {t.ch} /\ stack' = loop /\ Forget(t.ch)
      /\ \/ UNCHANGED <<base, left>>
         \/ base' = [base EXCEPT ![t.ch] = t.pos] /\ left' = [left EXCEPT ![t.ch] = t.left]
  BY <1>1 DEF CompleteTransfer, StoreProgress
<1>3. t \in Frames /\ Within(loop, t)
  BY <1>1
<1>4. t.ch \in Channels /\ busy \subseteq Channels
  BY <1>3, FramesFact, TypeFact DEF Invariant
<1>5. \A d \in Channels \ {t.ch} : /\ base'[d] = base[d] /\ left'[d] = left[d]
                                   /\ total'[d] = total[d] /\ moved'[d] = moved[d]
  BY <1>2, <1>4, TypeFact DEF Forget, Invariant
<1>6. Between(loop)'
  BY <1>2, <1>3, <1>4, <1>5
     DEF Between, Within, Waiting, Ready, CanTransferChannel, Ahead
<1>. QED
  BY <1>6 DEF Calls

\* The device was requested before, so that its answer starts nothing.
LEMMA DeviceBlockCalls == ASSUME Invariant, DeviceBlock PROVE Calls'
<1>1. PICK loop \in Loops, f \in Frames :
        /\ Within(loop, f) /\ Rest = Append(loop, f) /\ Top.ch = f.ch /\ f.op = "after"
        /\ f.ch \in request
  BY DeviceCalls DEF DeviceBlock, Invariant
<1>2. UNCHANGED <<master, busy, base, left, total, moved, halted>>
  BY DEF DeviceBlock, channelVars
<1>3. PICK on \in BOOLEAN : SetRequest(f.ch, on, Rest)
  BY <1>1 DEF DeviceBlock
<1>4. request' \in {request, request \ {f.ch}} /\ stack' = Append(loop, f)
  BY <1>1, <1>3 DEF SetRequest, CanTransferChannel
<1>5. Within(loop, f)'
  BY <1>1, <1>2, <1>4 DEF Within, Running, Waiting, Ready, CanTransferChannel, Ahead
<1>. QED
  BY <1>5 DEF Calls

-----------------------------------------------------------------------------
(* Types along the steps.                                                  *)

\* The registers of the channels and of the interrupt.
Registers ==
  /\ base \in [Channels -> Nat] /\ left \in [Channels -> Nat]
  /\ total \in [Channels -> Nat] /\ moved \in [Channels -> Nat]

LEMMA TypedFromCalls ==
  ASSUME Calls', Registers',
         master' \subseteq Channels, busy' \subseteq Channels, request' \subseteq Channels,
         halted' \in BOOLEAN, istat' \in BOOLEAN,
         irq' \in [enable : SUBSET Channels, master : BOOLEAN, flags : SUBSET Channels]
  PROVE  Invariant'
<1>1. StackOK'
  BY StackType, PTL
<1>. QED
  BY <1>1 DEF StackOK, Invariant, DMATypeOK, Registers, Frames

\* The interrupts are no part of it.
LEMMA SameCalls ==
  ASSUME Calls, UNCHANGED <<channelVars, request, halted, stack>>
  PROVE  Calls'
<1>1. PICK loop \in Loops : Between(loop) \/ \E f \in Frames : Within(loop, f)
  BY DEF Calls
<1>2. /\ UNCHANGED <<master, busy, base, left, total, moved>>
      /\ UNCHANGED <<request, halted, stack>>
  BY DEF channelVars
<1>3. CASE Between(loop)
  <2>1. Between(loop)'
    BY <1>2, <1>3 DEF Between, Waiting, Ready, CanTransferChannel, Ahead
  <2>. QED
    BY <2>1 DEF Calls
<1>4. ASSUME NEW f \in Frames, Within(loop, f) PROVE Calls'
  <2>1. Within(loop, f)'
    BY <1>2, <1>4 DEF Within, Running, Waiting, Ready, CanTransferChannel, Ahead
  <2>. QED
    BY <2>1 DEF Calls
<1>. QED
  BY <1>1, <1>3, <1>4

LEMMA ProgramInvariant == ASSUME Invariant, ProgramDMA \/ UnhaltTransfer PROVE Invariant'
<1>. USE TypeFact
<1>1. /\ Registers /\ master \subseteq Channels /\ busy \subseteq Channels
      /\ request \subseteq Channels /\ halted \in BOOLEAN /\ istat \in BOOLEAN
      /\ irq \in [enable : SUBSET Channels, master : BOOLEAN, flags : SUBSET Channels]
  BY DEF Invariant, DMATypeOK, Registers
<1>2. ASSUME NEW s \in Starts, StartChannel(s[1], s[2]) PROVE Invariant'
  <2>1. s[1] \in Channels /\ s[2] \in Nat \ {0}
    BY ChannelsAssumption
  <2>2. Calls'
    BY <1>2, <2>1, StartCalls
  <2>3. Registers'
    BY <1>1, <1>2, <2>1 DEF StartChannel, Registers
  <2>. QED
    BY <1>1, <1>2, <2>1, <2>2, <2>3, TypedFromCalls DEF StartChannel, irqVars
<1>3. ASSUME NEW c \in Stops, StopChannel(c) PROVE Invariant'
  <2>1. c \in Channels
    BY ChannelsAssumption
  <2>2. Calls'
    BY <1>3, <2>1, StopCalls
  <2>3. Registers'
    BY <1>1, <1>3, <2>1 DEF StopChannel, Forget, Registers
  <2>. QED
    BY <1>1, <1>3, <2>2, <2>3, TypedFromCalls DEF StopChannel, irqVars
<1>4. ASSUME NEW enabled \in DpcrSettings, WriteDPCR(enabled) PROVE Invariant'
  <2>1. enabled \subseteq Channels
    BY ChannelsAssumption
  <2>2. Calls'
    BY <1>4, LookAtAllCalls DEF WriteDPCR
  <2>3. Registers'
    BY <1>1, <1>4 DEF WriteDPCR, Registers
  <2>. QED
    BY <1>1, <1>4, <2>1, <2>2, <2>3, TypedFromCalls DEF WriteDPCR, irqVars
<1>5. ASSUME NEW s \in IrqSettings, NEW ack \in {{}, irq.flags}, WriteDICR(s, ack)
      PROVE  Invariant'
  <2>1. s.enable \subseteq Channels /\ s.master \in BOOLEAN
    BY ChannelsAssumption
  <2>2. irq' \in [enable : SUBSET Channels, master : BOOLEAN, flags : SUBSET Channels]
    BY <1>1, <1>5, <2>1 DEF WriteDICR
  <2>3. UNCHANGED <<channelVars, request, halted, istat, stack>>
    BY <1>5 DEF WriteDICR
  <2>4. Calls'
    BY <2>3, SameCalls DEF Invariant
  <2>. QED
    BY <1>1, <2>2, <2>3, <2>4, TypedFromCalls DEF channelVars, Registers
<1>6. CASE AcknowledgeInterrupt
  <2>1. UNCHANGED <<channelVars, request, halted, irq, stack>> /\ istat' = FALSE
    BY <1>6 DEF AcknowledgeInterrupt
  <2>2. Calls'
    BY <2>1, SameCalls DEF Invariant
  <2>. QED
    BY <1>1, <2>1, <2>2, TypedFromCalls DEF channelVars, Registers
<1>7. ASSUME NEW c \in OtherDevices, NEW on \in BOOLEAN, DeviceRequest(c, on) PROVE Invariant'
  <2>1. c \in Channels
    BY DEF OtherDevices
  <2>2. Calls'
    BY <1>7, <2>1, RequestCalls
  <2>3. /\ UNCHANGED <<channelVars, halted, irqVars>>
        /\ request' \in {request \cup {c}, request \ {c}}
    BY <1>7 DEF DeviceRequest, SetRequest
  <2>. QED
    BY <1>1, <2>1, <2>2, <2>3, TypedFromCalls DEF channelVars, irqVars, Registers
<1>8. CASE UnhaltTransfer
  <2>1. Calls'
    BY <1>8, LookAtAllCalls DEF UnhaltTransfer, channelVars
  <2>. QED
    BY <1>1, <1>8, <2>1, TypedFromCalls DEF UnhaltTransfer, channelVars, irqVars, Registers
<1>. QED
  BY <1>2, <1>3, <1>4, <1>5, <1>6, <1>7, <1>8 DEF ProgramDMA

LEMMA StepInvariant == ASSUME Invariant, DMAStep PROVE Invariant'
<1>1. /\ Registers /\ master \subseteq Channels /\ busy \subseteq Channels
      /\ request \subseteq Channels /\ halted \in BOOLEAN /\ istat \in BOOLEAN
      /\ irq \in [enable : SUBSET Channels, master : BOOLEAN, flags : SUBSET Channels]
  BY TypeFact DEF Invariant, DMATypeOK, Registers
<1>2. ASSUME NEW op \in {"block", "after"}, At(op)
      PROVE  Top \in Frames /\ Top.ch \in Channels /\ Top.pos \in Nat /\ Top.left \in Nat
  BY <1>2, TransferCalls, FramesFact DEF Invariant
<1>3. At("device") => Top.ch \in Channels
  BY DeviceCalls, FramesFact DEF Invariant
<1>4. At("after") /\ StoreProgress => base' \in [Channels -> Nat] /\ left' \in [Channels -> Nat]
  <2>. HAVE At("after") /\ StoreProgress
  <2>1. Top.ch \in Channels /\ Top.pos \in Nat /\ Top.left \in Nat
    BY <1>2
  <2>. QED
    BY <1>1, <2>1 DEF StoreProgress, Registers
<1>5. CASE ScanChannels
  BY <1>1, <1>5, ScanCalls, TypedFromCalls DEF ScanChannels, channelVars, irqVars, Registers
<1>6. CASE TransferBlock
  <2>1. moved' \in [Channels -> Nat]
    BY <1>1, <1>2, <1>6 DEF TransferBlock, Registers
  <2>. QED
    BY <1>1, <1>6, <2>1, BlockCalls, TypedFromCalls DEF TransferBlock, irqVars, Registers
<1>7. CASE NextBlock
  BY <1>1, <1>7, NextBlockCalls, TypedFromCalls DEF NextBlock, channelVars, irqVars, Registers
<1>8. CASE SuspendTransfer
  <2>1. base' \in [Channels -> Nat] /\ left' \in [Channels -> Nat]
    BY <1>4, <1>8 DEF SuspendTransfer
  <2>. QED
    BY <1>1, <1>8, <2>1, SuspendCalls, TypedFromCalls DEF SuspendTransfer, irqVars, Registers
<1>9. CASE HaltTransfer
  <2>1. base' \in [Channels -> Nat] /\ left' \in [Channels -> Nat]
    BY <1>4, <1>9 DEF HaltTransfer
  <2>. QED
    BY <1>1, <1>9, <2>1, HaltCalls, TypedFromCalls DEF HaltTransfer, irqVars, Registers
<1>10. CASE CompleteTransfer
  <2>1. Top.ch \in Channels
    BY <1>2, <1>10 DEF CompleteTransfer
  <2>2. base' \in [Channels -> Nat] /\ left' \in [Channels -> Nat]
    BY <1>1, <1>4, <1>10 DEF CompleteTransfer, Registers
  <2>3. total' \in [Channels -> Nat] /\ moved' \in [Channels -> Nat]
    BY <1>1, <1>10, <2>1 DEF CompleteTransfer, Forget, Registers
  <2>4. istat' \in BOOLEAN
    BY <1>1, <1>10 DEF CompleteTransfer, SetIRQFlag
  <2>5. irq' \in [enable : SUBSET Channels, master : BOOLEAN, flags : SUBSET Channels]
    <3>1. irq' = irq \/ irq' = [irq EXCEPT !.flags = irq.flags \cup {Top.ch}]
      BY <1>1, <1>10 DEF CompleteTransfer, SetIRQFlag
    <3>. QED
      BY <1>1, <2>1, <3>1
  <2>6. Registers'
    BY <2>2, <2>3 DEF Registers
  <2>7. Calls'
    BY <1>10, CompleteCalls
  <2>8. master' = master /\ request' = request /\ halted' = halted /\ busy' \subseteq busy
    BY <1>10 DEF CompleteTransfer
  <2>. QED
    BY <1>1, <2>4, <2>5, <2>6, <2>7, <2>8, TypedFromCalls
<1>11. CASE DeviceBlock
  <2>1. request' \subseteq Channels
    BY <1>1, <1>3, <1>11 DEF DeviceBlock, SetRequest
  <2>. QED
    BY <1>1, <1>11, <2>1, DeviceBlockCalls, TypedFromCalls
       DEF DeviceBlock, channelVars, irqVars, Registers
<1>. QED
  BY <1>5, <1>6, <1>7, <1>8, <1>9, <1>10, <1>11 DEF DMAStep

-----------------------------------------------------------------------------
(* The theorems.                                                           *)

THEOREM Invariance == DMASpec => []Invariant
<1>1. Invariant /\ UNCHANGED dmaVars => Invariant'
  <2>. SUFFICES ASSUME Invariant, UNCHANGED dmaVars PROVE Invariant'
    OBVIOUS
  <2>1. Calls'
    BY SameCalls DEF Invariant, dmaVars
  <2>2. DMATypeOK'
    BY DEF Invariant, DMATypeOK, dmaVars, channelVars, irqVars
  <2>. QED
    BY <2>1, <2>2 DEF Invariant
<1>2. Invariant /\ [DMANext]_dmaVars => Invariant'
  BY <1>1, ProgramInvariant, StepInvariant DEF DMANext
<1>. QED
  BY <1>2, InitCalls, PTL DEF DMASpec

\* The registers, the pending interrupt and the calls in progress have their types.
THEOREM DMATypeCorrect == DMASpec => []DMATypeOK
<1>1. Invariant => DMATypeOK
  BY DEF Invariant
<1>. QED
  BY <1>1, Invariance, PTL

\* Whatever made a channel able to transfer (DPCR, CHCR, its device's request, the end of a
\* halt) started it, or the loop over all channels reached it.
THEOREM ReadyChannelsRun == DMASpec => []ReadyChannelRuns
<1>1. Invariant => ReadyChannelRuns
  <2>. SUFFICES ASSUME Invariant, Idle, NEW c \in Channels, Mode[c] # "manual",
                       CanTransferChannel(c, request, FALSE)
                PROVE  FALSE
    BY DEF ReadyChannelRuns
  <2>1. Ready(c) /\ Between(<<>>)
    BY IdleCalls DEF Ready, Invariant
  <2>. QED
    BY <2>1 DEF Between, Ahead
<1>. QED
  BY <1>1, Invariance, PTL

\* Suspended or halted, a transfer goes on where it stopped: MADR and BCR say how much of it
\* has been done.
THEOREM BlocksMovedOnce == DMASpec => []BlocksOnce
<1>1. Invariant => BlocksOnce
  <2>. SUFFICES ASSUME Invariant, NEW c \in busy, Transfers(c) = {} PROVE Waiting(c)
    BY DEF BlocksOnce, Waiting
  <2>1. PICK loop \in Loops : Between(loop) \/ \E f \in Frames : Within(loop, f)
    BY DEF Invariant, Calls
  <2>2. CASE Between(loop)
    BY <2>2 DEF Between
  <2>3. ASSUME NEW f \in Frames, Within(loop, f) PROVE Waiting(c)
    <3>1. CASE f.ch # c
      BY <2>3, <3>1 DEF Within
    <3>2. CASE f.ch = c
      <4>1. loop \in Seq(Frames) /\ Append(loop, f) \in Seq(Frames)
        BY FramesFact, PushPop
      <4>2. /\ Append(loop, f)[Len(loop) + 1] = f
            /\ Len(Append(loop, f)) = Len(loop) + 1 /\ Len(loop) \in Nat
        BY <4>1, AppendProperties, LenProperties
      <4>3. CASE stack = Append(loop, f)
        <5>1. Len(loop) + 1 \in Transfers(c)
          BY <2>3, <3>2, <4>2, <4>3 DEF Transfers, Within, Running
        <5>. QED
          BY <5>1
      <4>4. CASE stack = Append(Append(loop, f), Asked(f))
        <5>1. /\ Append(Append(loop, f), Asked(f))[Len(loop) + 1] = f
              /\ Len(Append(Append(loop, f), Asked(f))) = Len(loop) + 2
          <6>1. Asked(f) \in Frames
            BY FramesFact
          <6>. QED
            BY <4>1, <4>2, <6>1, AppendProperties
        <5>2. Len(loop) + 1 \in Transfers(c)
          BY <2>3, <3>2, <4>2, <4>4, <5>1 DEF Transfers, Within, Running
        <5>. QED
          BY <5>2
      <4>. QED
        BY <2>3, <4>3, <4>4 DEF Within
    <3>. QED
      BY <3>1, <3>2
  <2>. QED
    BY <2>1, <2>2, <2>3
<1>. QED
  BY <1>1, Invariance, PTL
=============================================================================
