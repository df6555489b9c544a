-------------------------------- MODULE MDEC --------------------------------
(***************************************************************************)
(* The macroblock decoder, core/mdec.cpp, between the two DMA channels     *)
(* that feed and empty it.                                                 *)
(*                                                                         *)
(* Commands and their parameters come in words through the input FIFO.     *)
(* Execute consumes what it can; a decoded macroblock is put in the output *)
(* FIFO by an event.  UpdateStatus, at the end of everything, tells the    *)
(* DMA of both FIFOs and thereby starts transfers, which call DMAWrite and *)
(* DMARead, which call Execute.                                            *)
(*                                                                         *)
(* A word of the model is 16 words of the program: a quantisation table is *)
(* one or two of them, the scale table two.  How many words make up a      *)
(* macroblock depends on the data, and is left open.  The program sends    *)
(* commands with as many parameters as they announce, does not overrun the *)
(* input FIFO, and does not read the output register while the output FIFO *)
(* is empty.                                                               *)
(***************************************************************************)
EXTENDS DMA

CONSTANTS
  InSize,      \* DATA_IN_FIFO_SIZE
  Threshold,   \* the space below which UpdateStatus asks for no more
  BlockWords,  \* the block size the program gives channel MDECin
  OutSize,     \* DATA_OUT_FIFO_SIZE, which a colour macroblock fills
  Enables,     \* what the program writes to the control register: [in, out]
  Commands     \* the commands the program sends: [kind, words]

Data == [kind |-> "data", words |-> 0]
Words == Commands \union {Data}

ASSUME MDECAssumption ==
  /\ {"MDECin", "MDECout"} \subseteq Channels
  /\ {InSize, Threshold, BlockWords, OutSize} \subseteq Nat \ {0}
  /\ Enables \subseteq [in : BOOLEAN, out : BOOLEAN]
  /\ Commands \subseteq [kind : {"colour", "mono", "table", "unknown"}, words : Nat]
  /\ \A c \in Commands : c.kind = "table" => c.words > 0

VARIABLES
  mstate,      \* m_state
  remaining,   \* m_remaining_halfwords
  inFifo,      \* m_data_in_fifo
  outCount,    \* m_data_out_fifo
  dmaIn, dmaOut,
  copyOut,     \* m_block_copy_out_event is active
  decoded,     \* m_current_block = NUM_BLOCKS: waiting for the output FIFO
  mono,        \* m_status.data_output_depth
  owed         \* parameter words the program has still to send

decoderVars == <<mstate, remaining, outCount, copyOut, decoded, mono>>
mdecVars == <<decoderVars, inFifo, dmaIn, dmaOut, owed>>
vars == <<dmaVars, mdecVars>>
idleDMA == <<channelVars, halted, irqVars>>   \* what the MDEC leaves alone

Space == InSize - Len(inFifo)

-----------------------------------------------------------------------------
(* The program's stream of words.                                          *)
NextWords(o) == IF o = 0 THEN Commands ELSE {Data}
NextOwed(o, w) == IF o = 0 THEN w.words ELSE o - 1
Owed == {0} \union UNION {0 .. c.words : c \in Commands}

\* What a block in memory may hold, with what is owed before and after each word.
Blocks ==
  {b \in {[word |-> w, owed |-> o] : w \in [1 .. BlockWords -> Words], o \in [0 .. BlockWords -> Owed]} :
     \A i \in 1 .. BlockWords :
       b.word[i] \in NextWords(b.owed[i - 1]) /\ b.owed[i] = NextOwed(b.owed[i - 1], b.word[i])}

-----------------------------------------------------------------------------
(* UpdateStatus: the input channel first, then the output channel.         *)

\* Mutant of StatusIn: any space at all will do.
StatusInAnySpace ==
  /\ At("statusIn")
  /\ SetRequest("MDECin", dmaIn /\ Space > 0, Append(Rest, Call("statusOut")))
  /\ UNCHANGED <<idleDMA, mdecVars>>

StatusIn ==
  /\ At("statusIn")
  /\ SetRequest("MDECin", dmaIn /\ Space >= Threshold, Append(Rest, Call("statusOut")))
  /\ UNCHANGED <<idleDMA, mdecVars>>

StatusOut ==
  /\ At("statusOut")
  /\ SetRequest("MDECout", dmaOut /\ outCount > 0, Rest)
  /\ UNCHANGED <<idleDMA, mdecVars>>

-----------------------------------------------------------------------------
(* Execute.                                                                *)

\* UpdateStatus, and the loop goes on; or UpdateStatus, and it ends.
Continue == stack' = Append(stack, Call("statusIn"))
Finished == stack' = Append(Rest, Call("statusIn"))

\* The parameters that are there, and taking n of them.
Available == Min({Len(inFifo), remaining})
Consume(n) ==
  /\ inFifo' = SubSeq(inFifo, n + 1, Len(inFifo))
  /\ remaining' = remaining - n

\* State::Idle: a command, which empties the output FIFO.
ParseCommand ==
  /\ At("execute") /\ mstate = "idle" /\ inFifo # <<>>
  /\ LET cw == Head(inFifo)
     IN /\ mstate' = CASE cw.kind \in {"colour", "mono"} -> "decoding"
                       [] cw.kind = "table" -> "table"
                       [] OTHER -> "none"
        /\ mono' = (cw.kind = "mono")
        /\ remaining' = cw.words
  /\ inFifo' = Tail(inFifo) /\ outCount' = 0
  /\ Continue
  /\ UNCHANGED <<idleDMA, request, copyOut, decoded, dmaIn, dmaOut, owed>>

\* Idle without a command, writing, or a table that is not there in full.
NothingToDo ==
  /\ At("execute")
  /\ \/ mstate = "idle" /\ inFifo = <<>>
     \/ mstate = "writing"
     \/ mstate = "table" /\ Len(inFifo) < remaining
  /\ Finished
  /\ UNCHANGED <<idleDMA, request, mdecVars>>

\* HandleDecodeMacroblockCommand: the output FIFO holds up a monochrome
\* macroblock before it is decoded and a coloured one afterwards.
Blocked == mono /\ outCount > 0
CopyOutLater ==
  /\ mstate' = "writing" /\ copyOut' = TRUE /\ decoded' = FALSE
  /\ Finished

\* Mutant of CompleteMacroblock: the parameters that remain are not looked at.
DecodeWholeFifo ==
  /\ At("execute") /\ mstate = "decoding" /\ ~Blocked
  /\ \E n \in IF decoded THEN {0} ELSE 1 .. Len(inFifo) : Consume(n)
  /\ IF outCount = 0 THEN CopyOutLater
     ELSE decoded' = TRUE /\ Finished /\ UNCHANGED <<mstate, copyOut>>
  /\ UNCHANGED <<idleDMA, request, outCount, mono, dmaIn, dmaOut, owed>>

\* Mutant of CompleteMacroblock: the output FIFO is not looked at.
DecodeRegardless ==
  /\ At("execute") /\ mstate = "decoding" /\ ~Blocked
  /\ \E n \in IF decoded THEN {0} ELSE 1 .. Available : Consume(n)
  /\ CopyOutLater
  /\ UNCHANGED <<idleDMA, request, outCount, mono, dmaIn, dmaOut, owed>>

\* Mutant of CompleteMacroblock: the macroblock is copied out at once.
DecodeAndCopyOut ==
  /\ At("execute") /\ mstate = "decoding" /\ ~Blocked
  /\ \E n \in IF decoded THEN {0} ELSE 1 .. Available : Consume(n)
  /\ IF outCount = 0
     THEN /\ outCount' = IF mono THEN 1 ELSE OutSize
          /\ mstate' = IF remaining' = 0 THEN "idle" ELSE "decoding"
          /\ decoded' = FALSE /\ Continue
     ELSE decoded' = TRUE /\ Finished /\ UNCHANGED <<mstate, outCount>>
  /\ UNCHANGED <<idleDMA, request, copyOut, mono, dmaIn, dmaOut, owed>>

\* n words are decoded; they, or those before, complete the macroblock.
CompleteMacroblock ==
  /\ At("execute") /\ mstate = "decoding" /\ ~Blocked
  /\ \E n \in IF decoded THEN {0} ELSE 1 .. Available : Consume(n)
  /\ IF outCount = 0 THEN CopyOutLater
     ELSE decoded' = TRUE /\ Finished /\ UNCHANGED <<mstate, copyOut>>
  /\ UNCHANGED <<idleDMA, request, outCount, mono, dmaIn, dmaOut, owed>>

\* All there is is decoded, and the macroblock is not complete.  When the command
\* has no more parameters it is dropped.
AwaitData ==
  /\ At("execute") /\ mstate = "decoding" /\ ~decoded
  /\ Consume(IF Blocked THEN 0 ELSE Available)
  /\ IF remaining' = 0 THEN mstate' = "idle" /\ UNCHANGED stack
     ELSE Finished /\ UNCHANGED mstate
  /\ UNCHANGED <<idleDMA, request, outCount, copyOut, decoded, mono, dmaIn, dmaOut, owed>>

\* Mutant of SetTable: only the first part is taken from the FIFO.
SetFirstPart ==
  /\ At("execute") /\ mstate = "table" /\ Len(inFifo) >= remaining
  /\ inFifo' = Tail(inFifo)
  /\ remaining' = remaining - 1
  /\ mstate' = "idle"
  /\ Continue
  /\ UNCHANGED <<idleDMA, request, outCount, copyOut, decoded, mono, dmaIn, dmaOut, owed>>

\* HandleSetQuantTableCommand, HandleSetScaleCommand.
SetTable ==
  /\ At("execute") /\ mstate = "table" /\ Len(inFifo) >= remaining
  /\ inFifo' = SubSeq(inFifo, remaining + 1, Len(inFifo))
  /\ remaining' = remaining - 1
  /\ mstate' = "idle"
  /\ Continue
  /\ UNCHANGED <<idleDMA, request, outCount, copyOut, decoded, mono, dmaIn, dmaOut, owed>>

\* State::NoCommand.
SkipParameters ==
  /\ At("execute") /\ mstate = "none"
  /\ Consume(Available)
  /\ IF remaining' = 0 THEN Finished /\ UNCHANGED mstate
     ELSE mstate' = "idle" /\ Continue
  /\ UNCHANGED <<idleDMA, request, outCount, copyOut, decoded, mono, dmaIn, dmaOut, owed>>

-----------------------------------------------------------------------------
(* The program's registers, and the event.                                 *)

WriteCommandRegister ==
  /\ Idle /\ Space > 0 /\ "MDECin" \notin busy
  /\ \E w \in NextWords(owed) :
       /\ inFifo' = Append(inFifo, w)
       /\ owed' = NextOwed(owed, w)
  /\ stack' = <<Call("execute")>>
  /\ UNCHANGED <<idleDMA, request, decoderVars, dmaIn, dmaOut>>

ReadDataRegister ==
  /\ Idle /\ outCount > 0 /\ "MDECout" \notin busy
  /\ outCount' = outCount - 1
  /\ stack' = <<Call(IF outCount' = 0 THEN "execute" ELSE "statusIn")>>
  /\ UNCHANGED <<idleDMA, request, mstate, remaining, copyOut, decoded, mono, inFifo, dmaIn, dmaOut, owed>>

\* SoftReset; the program then starts its stream afresh.
SoftReset ==
  /\ mstate' = "idle" /\ remaining' = 0 /\ inFifo' = <<>> /\ outCount' = 0
  /\ copyOut' = FALSE /\ decoded' = FALSE /\ mono' = TRUE
  /\ request' = request \ {"MDECin", "MDECout"}
  /\ owed' = 0

WriteControlRegister(reset, enable) ==
  /\ Idle
  /\ IF reset THEN "MDECin" \notin busy /\ SoftReset
     ELSE UNCHANGED <<request, decoderVars, inFifo, owed>>
  /\ dmaIn' = enable.in /\ dmaOut' = enable.out
  /\ stack' = <<Call("execute")>>
  /\ UNCHANGED idleDMA

CopyOutBlock ==
  /\ Idle /\ copyOut
  /\ copyOut' = FALSE
  /\ outCount' = outCount + IF mono THEN 1 ELSE OutSize
  /\ mstate' = IF remaining = 0 THEN "idle" ELSE "decoding"
  /\ stack' = <<Call("execute")>>
  /\ UNCHANGED <<idleDMA, request, remaining, decoded, mono, inFifo, dmaIn, dmaOut, owed>>

-----------------------------------------------------------------------------
(* The DMA's calls.                                                        *)

\* What does not fit is lost.
DMAWrite ==
  /\ At("device") /\ Top.ch = "MDECin"
  /\ \E b \in Blocks :
       /\ b.owed[0] = owed /\ owed' = b.owed[BlockWords]
       /\ inFifo' = inFifo \o SubSeq(b.word, 1, Min({BlockWords, Space}))
  /\ stack' = Append(Rest, Call("execute"))
  /\ UNCHANGED <<idleDMA, request, decoderVars, dmaIn, dmaOut>>

\* Mutant of DMARead: the decoder is not told that the FIFO is empty.
DMAReadOnly ==
  /\ At("device") /\ Top.ch = "MDECout"
  /\ outCount' = outCount - Min({1, outCount})
  /\ stack' = Rest
  /\ UNCHANGED <<idleDMA, request, mstate, remaining, copyOut, decoded, mono, inFifo, dmaIn, dmaOut, owed>>

DMARead ==
  /\ At("device") /\ Top.ch = "MDECout"
  /\ outCount' = outCount - Min({1, outCount})
  /\ stack' = IF outCount' = 0 THEN Append(Rest, Call("execute")) ELSE Rest
  /\ UNCHANGED <<idleDMA, request, mstate, remaining, copyOut, decoded, mono, inFifo, dmaIn, dmaOut, owed>>

-----------------------------------------------------------------------------
Init ==
  /\ DMAInit
  /\ mstate = "idle" /\ remaining = 0 /\ inFifo = <<>> /\ outCount = 0
  /\ dmaIn = FALSE /\ dmaOut = FALSE /\ copyOut = FALSE /\ decoded = FALSE
  /\ mono = TRUE /\ owed = 0

Program ==
  \/ ProgramDMA /\ UNCHANGED mdecVars
  \/ WriteCommandRegister \/ ReadDataRegister
  \/ \E reset \in BOOLEAN, enable \in Enables : WriteControlRegister(reset, enable)

\* The calls in progress.
Step ==
  \/ DMAStep /\ UNCHANGED mdecVars
  \/ StatusIn \/ StatusOut
  \/ ParseCommand \/ NothingToDo \/ CompleteMacroblock \/ AwaitData \/ SetTable \/ SkipParameters
  \/ DMAWrite \/ DMARead

Unhalt == UnhaltTransfer /\ UNCHANGED mdecVars

Next == Program \/ Step \/ Unhalt \/ CopyOutBlock

Spec == Init /\ [][Next]_vars

-----------------------------------------------------------------------------
(* Properties.                                                             *)

TypeOK ==
  /\ DMATypeOK
  /\ mstate \in {"idle", "decoding", "writing", "table", "none"}
  /\ remaining \in Nat /\ owed \in Nat
  /\ inFifo \in Seq(Words) /\ Len(inFifo) <= InSize
  /\ outCount \in Nat
  /\ {dmaIn, dmaOut, copyOut, decoded, mono} \subseteq BOOLEAN

\* OnlyInputReenters: a transfer may start others from within its device.  One
\* that started itself would go over the same blocks again (TransferChannel keeps
\* its address in locals).  Only the input channel's does: the output's request
\* does not rise while it transfers, since it is the event that fills its FIFO.
OnlyInputReenters == \A c \in Channels \ {"MDECin"} : Cardinality(Transfers(c)) <= 1

\* RequestsFresh: when control is back at the program, the DMA has been told
\* the truth about both FIFOs, whatever nested transfers did to them meanwhile.
RequestsFresh ==
  Idle =>
    /\ "MDECin" \in request <=> dmaIn /\ Space >= Threshold
    /\ "MDECout" \in request <=> dmaOut /\ outCount > 0

\* RoomForBlock: no word of a block is lost in DMAWrite for want of space.
RoomForBlock == At("device") /\ Top.ch = "MDECin" => Space >= BlockWords

\* OutputFits: a macroblock is copied out to an empty FIFO.
OutputFits == outCount <= OutSize

\* CommandsAligned: what the decoder takes for a command was sent as one; the
\* parameters it consumed are those of the command before.  It does not hold when
\* commands the decoder does not know announce parameters, of which SkipParameters
\* leaves some in the FIFO (mdec.cpp:302 tests the wrong way round).
CommandsAligned ==
  mstate = "idle" /\ inFifo # <<>> => Head(inFifo) # Data
=============================================================================
