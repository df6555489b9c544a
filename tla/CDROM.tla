------------------------------- MODULE CDROM -------------------------------
(***************************************************************************)
(* The CD-ROM controller: core/cdrom.cpp.                                  *)
(*                                                                         *)
(* The program writes a command; an event executes it later, provided no   *)
(* interrupt is unacknowledged, and answers with an interrupt and a        *)
(* response.  Some commands answer a second time, from an event of their   *)
(* own; the drive (seeking, reading, playing, spinning up) has a third     *)
(* event and raises interrupts as well.  Interrupts that are not the       *)
(* immediate answer to a command wait while another one is                 *)
(* unacknowledged, in a place that holds one.  Sectors go round a ring of  *)
(* buffers, from which the program loads the data FIFO.                    *)
(*                                                                         *)
(* The methods are functions from a state of the controller to the next,   *)
(* called in the order of the code.  Left out: how long things take, where *)
(* the head is, what the mode says of sectors, the response's bytes (the   *)
(* response that waits is the sequence of the interrupts it was made for), *)
(* the data FIFO's contents and the parameter FIFO: the program may have   *)
(* written any parameters, also too few.  Commands that only answer and    *)
(* set what is left out behave like Getstat.                               *)
(***************************************************************************)
EXTENDS Integers, SequencesExt

CONSTANTS
  NumSectorBuffers,  \* NUM_SECTOR_BUFFERS
  ResponseBound      \* answers the program lets pile up in the waiting response

ASSUME CDROMAssumption == {NumSectorBuffers, ResponseBound} \subseteq Nat \ {0}

Commands ==
  {"Getstat", "Setloc", "Play", "ReadN", "MotorOn", "Stop", "Pause", "Reset", "Setmode",
   "SetSession", "SeekL", "SeekP", "GetID", "ReadTOC"}

\* s_command_info
ExpectedParameters ==
  [c \in Commands |-> CASE c = "Setloc" -> 3
                        [] c \in {"Setmode", "SetSession"} -> 1
                        [] OTHER -> 0]

\* CDROM::Interrupt; 0 is none.
DataReady == 1
Complete == 2
ACK == 3
DataEnd == 4
Error == 5
Interrupts == 1 .. 5

\* What the flag register may hold once bits have been cleared in it.
FlagsLeft == [f \in 0 .. 5 |-> {left \in 0 .. f : \A bit \in {1, 2, 4} :
                                 (left \div bit) % 2 <= (f \div bit) % 2}]

Seeking == {"SeekingPhysical", "SeekingLogical", "SeekingImplicit"}
OnDisc == Seeking \union {"Reading", "Playing"}
DriveStates ==
  OnDisc \union {"Idle", "ShellOpening", "ChangingSession", "SpinningUp", "ChangingSpeedOrTOCRead"}

Buffers == 0 .. NumSectorBuffers - 1

VARIABLES
  command, commandEvent,       \* m_command, m_command_event is active
  secondResponse,              \* m_command_second_response; its event is active unless None
  driveState, driveEvent,      \* m_drive_state, m_drive_event is active
  setlocPending, readAfterSeek, playAfterSeek,
  motorOn, hasMedia,
  flag,                        \* m_interrupt_flag_register
  pending, asyncResponse,      \* m_pending_async_interrupt, m_async_response_fifo
  readBuffer, writeBuffer,     \* m_current_read_sector_buffer, m_current_write_sector_buffer
  full,                        \* buffers whose size is not 0
  loaded                       \* history: how many sectors ago the last one loaded came in

commandVars == <<command, commandEvent, secondResponse>>
driveVars == <<driveState, driveEvent, setlocPending, readAfterSeek, playAfterSeek, motorOn, hasMedia>>
interruptVars == <<flag, pending, asyncResponse>>
bufferVars == <<readBuffer, writeBuffer, full, loaded>>
vars == <<commandVars, driveVars, interruptVars, bufferVars>>

\* The controller as a value, and a step to another one.
Now ==
  [command |-> command, commandEvent |-> commandEvent, secondResponse |-> secondResponse,
   driveState |-> driveState, driveEvent |-> driveEvent, setlocPending |-> setlocPending,
   readAfterSeek |-> readAfterSeek, playAfterSeek |-> playAfterSeek, motorOn |-> motorOn,
   hasMedia |-> hasMedia, flag |-> flag, pending |-> pending, asyncResponse |-> asyncResponse,
   readBuffer |-> readBuffer, writeBuffer |-> writeBuffer, full |-> full, loaded |-> loaded]

Become(s) ==
  /\ command' = s.command /\ commandEvent' = s.commandEvent
  /\ secondResponse' = s.secondResponse
  /\ driveState' = s.driveState /\ driveEvent' = s.driveEvent
  /\ setlocPending' = s.setlocPending
  /\ readAfterSeek' = s.readAfterSeek /\ playAfterSeek' = s.playAfterSeek
  /\ motorOn' = s.motorOn /\ hasMedia' = s.hasMedia
  /\ flag' = s.flag /\ pending' = s.pending /\ asyncResponse' = s.asyncResponse
  /\ readBuffer' = s.readBuffer /\ writeBuffer' = s.writeBuffer
  /\ full' = s.full /\ loaded' = s.loaded

CanReadMedia(s) == s.hasMedia /\ s.driveState # "ShellOpening"
IsSeeking(s) == s.driveState \in Seeking

-----------------------------------------------------------------------------
(* Interrupts.                                                             *)

\* A command that waits has its event active unless an interrupt is unacknowledged.
UpdateCommandEvent(s) ==
  [s EXCEPT !.commandEvent = s.command # "None" /\ s.flag = 0]

\* Mutant of DeliverAsyncInterrupt: the command's event is left alone.
DeliverWithoutUpdate(s) ==
  [s EXCEPT !.readBuffer = IF s.pending = DataReady THEN s.writeBuffer ELSE @,
            !.asyncResponse = <<>>, !.flag = s.pending, !.pending = 0]

DeliverAsyncInterrupt(s) ==
  UpdateCommandEvent(
    [s EXCEPT !.readBuffer = IF s.pending = DataReady THEN s.writeBuffer ELSE @,
              !.asyncResponse = <<>>, !.flag = s.pending, !.pending = 0])

\* Mutant of SetAsyncInterrupt: an interrupt that is not needed leaves its response.
SetAsyncKeepsResponse(s, interrupt) ==
  IF s.flag = interrupt THEN s
  ELSE LET p == [s EXCEPT !.pending = interrupt]
       IN IF s.flag = 0 THEN DeliverAsyncInterrupt(p) ELSE p

SetAsyncInterrupt(s, interrupt) ==
  IF s.flag = interrupt THEN [s EXCEPT !.asyncResponse = <<>>]
  ELSE LET p == [s EXCEPT !.pending = interrupt]
       IN IF s.flag = 0 THEN DeliverAsyncInterrupt(p) ELSE p

ClearAsyncInterrupt(s) == [s EXCEPT !.pending = 0, !.asyncResponse = <<>>]

\* A response is pushed and its interrupt set.
SendAsync(s, interrupt) ==
  SetAsyncInterrupt([s EXCEPT !.asyncResponse = Append(@, interrupt)], interrupt)

\* The same, without what waited before: m_async_response_fifo.Clear().
SendAsyncOnly(s, interrupt) == SendAsync([s EXCEPT !.asyncResponse = <<>>], interrupt)

\* SendACKAndStat, SendErrorResponse
Answer(s, ok) == [s EXCEPT !.flag = IF ok THEN ACK ELSE Error]

-----------------------------------------------------------------------------
(* Commands begin and end.                                                 *)

EndCommand(s) == [s EXCEPT !.command = "None", !.commandEvent = FALSE]

ClearCommandSecondResponse(s) == [s EXCEPT !.secondResponse = "None"]

QueueCommandSecondResponse(s, c) == [s EXCEPT !.secondResponse = c]

\* Mutant of BeginCommand: the second response of the last command still comes.
BeginKeepsSecondResponse(s, c) ==
  IF s.command # "None" /\ ExpectedParameters[s.command] > ExpectedParameters[c] THEN s
  ELSE UpdateCommandEvent([s EXCEPT !.command = c])

\* A command that waits for more parameters than the new one has stays.
BeginCommand(s, c) ==
  IF s.command # "None" /\ ExpectedParameters[s.command] > ExpectedParameters[c] THEN s
  ELSE UpdateCommandEvent([ClearCommandSecondResponse(s) EXCEPT !.command = c])

-----------------------------------------------------------------------------
(* The drive.                                                              *)

ClearDriveState(s) == [s EXCEPT !.driveState = "Idle", !.driveEvent = FALSE]

\* A new state, and its event scheduled.
SetDriveState(s, state) == [s EXCEPT !.driveState = state, !.driveEvent = TRUE]

StartMotor(s) == IF s.driveState = "SpinningUp" THEN s ELSE SetDriveState(s, "SpinningUp")

StopMotor(s) == [ClearDriveState(s) EXCEPT !.motorOn = FALSE]

\* The sectors read so far count no more.
ClearSectorBuffers(s) == [s EXCEPT !.full = {}, !.loaded = NumSectorBuffers]

BeginSeeking(s, logical, read, play) ==
  SetDriveState([s EXCEPT !.readAfterSeek = read, !.playAfterSeek = play,
                          !.setlocPending = FALSE, !.motorOn = TRUE],
                IF logical THEN "SeekingLogical" ELSE "SeekingPhysical")

\* From the sector under the head, from Setloc's, or once a seek in progress has ended.
BeginReading(s, afterSeek) ==
  LET c == ClearSectorBuffers(s)
  IN IF ~afterSeek /\ c.setlocPending THEN BeginSeeking(c, TRUE, TRUE, FALSE)
     ELSE IF IsSeeking(c)
          THEN [c EXCEPT !.driveState = IF @ = "SeekingImplicit" THEN "SeekingLogical" ELSE @,
                         !.readAfterSeek = TRUE, !.playAfterSeek = FALSE]
     ELSE SetDriveState([c EXCEPT !.readBuffer = 0, !.writeBuffer = 0], "Reading")

\* A track number is a Setloc to where the track begins.
BeginPlaying(s, track) ==
  IF track \/ s.setlocPending THEN BeginSeeking(s, FALSE, FALSE, TRUE)
  ELSE SetDriveState([ClearSectorBuffers(s) EXCEPT !.readBuffer = 0, !.writeBuffer = 0], "Playing")

\* What a seek was for begins, or the program is told that it has ended.
DoSeekComplete(s, ok) ==
  LET c == ClearDriveState(s)
      d == CASE ~ok -> SendAsync(c, Error)
             [] ok /\ c.readAfterSeek -> BeginReading(c, TRUE)
             [] ok /\ ~c.readAfterSeek /\ c.playAfterSeek -> BeginPlaying(c, FALSE)
             [] OTHER -> SendAsync(c, Complete)
  IN [d EXCEPT !.setlocPending = FALSE, !.readAfterSeek = FALSE, !.playAfterSeek = FALSE]

StopReadingWithDataEnd(s) == ClearDriveState(SendAsync(ClearAsyncInterrupt(s), DataEnd))

\* Mutant of ProcessDataSector: the ring does not close.
ProcessBeyondRing(s) ==
  LET b == s.writeBuffer + 1
      t == [s EXCEPT !.writeBuffer = b, !.full = @ \union {b},
                     !.loaded = IF @ < NumSectorBuffers THEN @ + 1 ELSE @]
  IN SendAsync(IF t.pending # 0 THEN ClearAsyncInterrupt(t) ELSE t, DataReady)

\* A data sector goes into the next buffer; its interrupt takes the place of the one that waits.
ProcessDataSector(s) ==
  LET b == (s.writeBuffer + 1) % NumSectorBuffers
      t == [s EXCEPT !.writeBuffer = b, !.full = @ \union {b},
                     !.loaded = IF @ < NumSectorBuffers THEN @ + 1 ELSE @]
  IN SendAsync(IF t.pending # 0 THEN ClearAsyncInterrupt(t) ELSE t, DataReady)

-----------------------------------------------------------------------------
(* Disc and console.                                                       *)

\* Mutant of RemoveMedia: the drive goes on.
RemoveMediaOnly(s, swap) ==
  LET c == ClearCommandSecondResponse(EndCommand(
             [s EXCEPT !.hasMedia = FALSE, !.motorOn = FALSE]))
      d == SendAsync(IF c.pending # 0 THEN ClearAsyncInterrupt(c) ELSE c, Error)
  IN IF swap THEN SetDriveState(d, "ShellOpening") ELSE d

\* Whatever was going on is given up.  Between two discs the shell stays open for a while.
RemoveMedia(s, swap) ==
  LET c == ClearCommandSecondResponse(EndCommand(ClearDriveState(
             [s EXCEPT !.hasMedia = FALSE, !.motorOn = FALSE])))
      d == SendAsync(IF c.pending # 0 THEN ClearAsyncInterrupt(c) ELSE c, Error)
  IN IF swap THEN SetDriveState(d, "ShellOpening") ELSE d

InsertMedia(s) ==
  LET c == IF CanReadMedia(s) THEN RemoveMedia(s, TRUE) ELSE s
      d == IF c.driveState # "ShellOpening" THEN StartMotor(c) ELSE c
  IN [d EXCEPT !.hasMedia = TRUE]

\* What CDROM::Reset and SoftReset have in common.
ResetDrive(s) ==
  LET c == ClearDriveState(ClearCommandSecondResponse(s))
  IN [c EXCEPT !.motorOn = CanReadMedia(c), !.pending = 0, !.asyncResponse = <<>>,
               !.setlocPending = FALSE, !.readAfterSeek = FALSE, !.playAfterSeek = FALSE,
               !.readBuffer = 0, !.writeBuffer = 0, !.full = {}, !.loaded = NumSectorBuffers]

\* The head may be away from the first sector.
SoftReset(s, away) ==
  LET c == ResetDrive(s)
  IN IF ~c.hasMedia THEN c
     ELSE SetDriveState(c, IF away THEN "SeekingImplicit" ELSE "ChangingSpeedOrTOCRead")

-----------------------------------------------------------------------------
(* ExecuteCommand, the command's event.                                    *)

Executes(c) == commandEvent /\ command = c

\* Too few parameters, or none that make sense.
RejectParameters ==
  /\ commandEvent /\ ExpectedParameters[command] > 0
  /\ Become(EndCommand(Answer(Now, FALSE)))

\* It stands for all that only answer; Test turns the motor on, or says it has.
Getstat ==
  /\ Executes("Getstat")
  /\ \E ok \in BOOLEAN, motor \in {motorOn, TRUE} :
       Become(EndCommand([Answer(Now, ok) EXCEPT !.motorOn = motor]))

Setloc ==
  /\ Executes("Setloc")
  /\ Become(EndCommand([Answer(Now, TRUE) EXCEPT !.setlocPending = TRUE]))

\* A change of speed keeps an idle drive busy, undoes one that has just begun,
\* and delays anything else.
ChangeSpeed(s, early) ==
  CASE s.driveState = "ChangingSpeedOrTOCRead" -> IF early THEN ClearDriveState(s) ELSE s
    [] s.driveState = "Idle" -> SetDriveState(s, "ChangingSpeedOrTOCRead")
    [] OTHER -> s

Setmode ==
  /\ Executes("Setmode")
  /\ LET s == EndCommand(Answer(Now, TRUE))
     IN Become(s) \/ \E early \in BOOLEAN : Become(ChangeSpeed(s, early))

\* GetID, ReadTOC: a second answer follows if there is a disc.
AskDisc ==
  /\ command \in {"GetID", "ReadTOC"} /\ commandEvent
  /\ Become(EndCommand(IF CanReadMedia(Now)
                       THEN QueueCommandSecondResponse(Answer(Now, TRUE), command)
                       ELSE Answer(Now, FALSE)))

SeekCommand ==
  /\ command \in {"SeekL", "SeekP"} /\ commandEvent
  /\ Become(EndCommand(IF CanReadMedia(Now)
                       THEN BeginSeeking(Answer(Now, TRUE), command = "SeekL", FALSE, FALSE)
                       ELSE Answer(Now, FALSE)))

SetSession ==
  /\ Executes("SetSession")
  /\ Become(EndCommand(IF CanReadMedia(Now) /\ driveState \notin {"Reading", "Playing"}
                       THEN SetDriveState(Answer(Now, TRUE), "ChangingSession")
                       ELSE Answer(Now, FALSE)))

\* It goes on reading if that is what it does (or will, after the seek) and
\* Setloc asks for the sector that comes next anyway.
ReadN ==
  /\ Executes("ReadN")
  /\ \/ ~CanReadMedia(Now) /\ Become(EndCommand(Answer(Now, FALSE)))
     \/ CanReadMedia(Now) /\ Become(EndCommand(Answer(Now, FALSE)))   \* not for this console
     \/ /\ CanReadMedia(Now)
        /\ \E next \in BOOLEAN :
             LET s == Answer(Now, TRUE)
                 same == /\ ~setlocPending \/ next
                         /\ driveState = "Reading" \/ (IsSeeking(Now) /\ readAfterSeek)
             IN Become(EndCommand(IF same THEN [s EXCEPT !.setlocPending = FALSE]
                                  ELSE BeginReading(s, FALSE)))

Play ==
  /\ Executes("Play")
  /\ \/ ~CanReadMedia(Now) /\ Become(EndCommand(Answer(Now, FALSE)))
     \/ /\ CanReadMedia(Now)
        /\ \E track, next \in BOOLEAN :
             LET s == Answer(Now, TRUE)
                 same == /\ ~track /\ (~setlocPending \/ next)
                         /\ driveState = "Playing" \/ (IsSeeking(Now) /\ playAfterSeek)
             IN Become(EndCommand(IF same THEN s ELSE BeginPlaying(s, track)))

\* A seek is completed at once, anything else stopped.
Pause ==
  /\ Executes("Pause")
  /\ LET s == ClearDriveState(Answer(Now, TRUE))
         t == IF driveState \in {"SeekingLogical", "SeekingPhysical"}
              THEN [s EXCEPT !.readAfterSeek = FALSE, !.playAfterSeek = FALSE] ELSE s
     IN Become(EndCommand(QueueCommandSecondResponse(t, "Pause")))

Stop ==
  /\ Executes("Stop")
  /\ Become(EndCommand(QueueCommandSecondResponse(StopMotor(Answer(Now, TRUE)), "Stop")))

MotorOn ==
  /\ Executes("MotorOn")
  /\ LET s == Answer(Now, ~motorOn)
         t == IF CanReadMedia(Now) THEN StartMotor(s) ELSE s
     IN Become(EndCommand(IF motorOn \/ secondResponse = "MotorOn" THEN s
                          ELSE QueueCommandSecondResponse(t, "MotorOn")))

\* The command is not ended: its event comes again, and then it is.
Reset ==
  /\ Executes("Reset")
  /\ IF secondResponse = "Reset" THEN Become(EndCommand(Answer(Now, TRUE)))
     ELSE \E away \in BOOLEAN :
            Become(QueueCommandSecondResponse(SoftReset(Answer(Now, TRUE), away), "Reset"))

ExecuteCommand ==
  \/ RejectParameters \/ Getstat \/ Setloc \/ Setmode \/ AskDisc \/ SeekCommand \/ SetSession
  \/ ReadN \/ Play \/ Pause \/ Stop \/ MotorOn \/ Reset

-----------------------------------------------------------------------------
(* The other two events.                                                   *)

\* DoIDRead finds the disc missing or unlicensed, or not; DoStatSecondResponse.
ExecuteCommandSecondResponse ==
  /\ secondResponse # "None"
  /\ LET done == ClearCommandSecondResponse(Now)
     IN IF secondResponse = "GetID"
        THEN \E ok \in {CanReadMedia(Now), FALSE} :
               Become(SendAsyncOnly([done EXCEPT !.motorOn = CanReadMedia(Now)],
                                    IF ok THEN Complete ELSE Error))
        ELSE Become(IF CanReadMedia(Now) THEN SendAsyncOnly(done, Complete)
                    ELSE SendAsync(done, Error))

DriveIn(states) == driveEvent /\ driveState \in states

DoShellOpenComplete ==
  /\ DriveIn({"ShellOpening"})
  /\ LET s == ClearDriveState(Now) IN Become(IF CanReadMedia(s) THEN StartMotor(s) ELSE s)

SeekEnds ==
  /\ DriveIn({"SeekingPhysical", "SeekingLogical"})
  /\ \E ok \in BOOLEAN : Become(DoSeekComplete(Now, ok))

\* The end of an implicit seek is of no consequence.
ImplicitSeekEnds == DriveIn({"SeekingImplicit"}) /\ Become(ClearDriveState(Now))

DoChangeSessionComplete ==
  /\ DriveIn({"ChangingSession"})
  /\ \E answer \in {Complete, Error} :
       Become(SendAsyncOnly([ClearDriveState(Now) EXCEPT !.motorOn = TRUE], answer))

DoSpinUpComplete ==
  /\ DriveIn({"SpinningUp"})
  /\ Become([ClearDriveState(Now) EXCEPT !.motorOn = TRUE])

DoSpeedChangeOrImplicitTOCReadComplete ==
  /\ DriveIn({"ChangingSpeedOrTOCRead"})
  /\ Become(ClearDriveState(Now))

\* What a sector does depends on what it is: the lead-out, another track than the one
\* that is played, one the program is not told of, data, or audio to report on.
DoSectorRead ==
  /\ DriveIn({"Reading", "Playing"})
  /\ LET on == [Now EXCEPT !.motorOn = TRUE]
     IN \/ Become(StopMotor(StopReadingWithDataEnd(on)))
        \/ Become(StopReadingWithDataEnd(on))
        \/ Become(on)
        \/ driveState = "Reading" /\ Become(ProcessDataSector(on))
        \/ driveState = "Playing" /\ Become(SendAsync(ClearAsyncInterrupt(on), DataReady))

ExecuteDrive ==
  \/ DoShellOpenComplete \/ SeekEnds \/ ImplicitSeekEnds \/ DoChangeSessionComplete
  \/ DoSpinUpComplete \/ DoSpeedChangeOrImplicitTOCReadComplete \/ DoSectorRead

-----------------------------------------------------------------------------
(* What the program and the user do.                                       *)

WriteCommand(c) == Become(BeginCommand(Now, c))

\* Mutant of AcknowledgeInterrupt: the command that waits is not looked at.
AcknowledgeOnly(left) ==
  LET s == [Now EXCEPT !.flag = left]
  IN Become(IF left = 0 /\ pending # 0 THEN DeliverAsyncInterrupt(s) ELSE s)

\* The flag register: the next interrupt, or else the command, has its turn.
AcknowledgeInterrupt(left) ==
  LET s == [Now EXCEPT !.flag = left]
  IN Become(CASE left = 0 /\ pending # 0 -> DeliverAsyncInterrupt(s)
              [] left = 0 /\ pending = 0 -> UpdateCommandEvent(s)
              [] OTHER -> s)

Age(b) == (writeBuffer - b) % NumSectorBuffers

\* Mutant of LoadSector: the buffer keeps its size.
LoadSectorAgain(s) ==
  [s EXCEPT !.loaded = IF readBuffer \in full THEN Age(readBuffer) ELSE @]

\* An empty buffer has a sector too, one that was loaded before.
LoadSector(s) ==
  [s EXCEPT !.full = @ \ {readBuffer},
            !.loaded = IF readBuffer \in full THEN Age(readBuffer) ELSE @]

\* BFRD: a sector for the data FIFO, if that has been read or cleared; if the newest
\* sector is still there, the program is told once more.
LoadDataFIFO ==
  /\ Len(asyncResponse) < ResponseBound
  /\ LET s == LoadSector(Now)
     IN Become(IF s.writeBuffer \in s.full THEN SendAsync(s, DataReady) ELSE s)

\* A state just saved is loaded (rewind, run-ahead): DoState makes the events up again.
LoadState ==
  Become([UpdateCommandEvent(Now) EXCEPT !.driveEvent = driveState # "Idle"])

Program ==
  \/ \E c \in Commands : WriteCommand(c)
  \/ \E left \in FlagsLeft[flag] : AcknowledgeInterrupt(left)
  \/ LoadDataFIFO

User ==
  \/ \E swap \in BOOLEAN : hasMedia /\ Become(RemoveMedia(Now, swap))
  \/ Become(InsertMedia(Now))
  \/ Become([ResetDrive(EndCommand(Now)) EXCEPT !.flag = 0])    \* CDROM::Reset
  \/ LoadState

\* CDROM::Initialize, without a disc.
Init ==
  /\ command = "None" /\ commandEvent = FALSE /\ secondResponse = "None"
  /\ driveState = "Idle" /\ driveEvent = FALSE
  /\ setlocPending = FALSE /\ readAfterSeek = FALSE /\ playAfterSeek = FALSE
  /\ motorOn = FALSE /\ hasMedia = FALSE
  /\ flag = 0 /\ pending = 0 /\ asyncResponse = <<>>
  /\ readBuffer = 0 /\ writeBuffer = 0 /\ full = {}
  /\ loaded = NumSectorBuffers

Next == ExecuteCommand \/ ExecuteCommandSecondResponse \/ ExecuteDrive \/ Program \/ User

Spec == Init /\ [][Next]_vars

-----------------------------------------------------------------------------
(* Properties.                                                             *)

\* The registers, states and buffer numbers the code declares.
TypeOK ==
  /\ command \in Commands \union {"None"} /\ commandEvent \in BOOLEAN
  /\ secondResponse \in {"None", "GetID", "ReadTOC", "Pause", "Stop", "Reset", "MotorOn"}
  /\ driveState \in DriveStates
  /\ {driveEvent, setlocPending, readAfterSeek, playAfterSeek, motorOn, hasMedia}
       \subseteq BOOLEAN
  /\ {flag, pending} \subseteq Interrupts \union {0}
  /\ asyncResponse \in Seq(Interrupts)
  /\ {readBuffer, writeBuffer} \subseteq Buffers /\ full \subseteq Buffers
  /\ loaded \in 0 .. NumSectorBuffers

\* The drive never hangs: whatever commands, ejections, speed changes and resets come in
\* between, it has its event active exactly as long as it is busy (m_drive_state and
\* m_drive_event are set separately in a dozen places), and it does not seek, read or
\* play when there is no disc.
DriveGoesOn ==
  /\ driveEvent <=> driveState # "Idle"
  /\ driveState \in OnDisc => hasMedia

\* Nothing waits in vain: an interrupt that waits (m_pending_async_interrupt) has one in
\* front of it whose acknowledgement will deliver it, and a command that waits with no
\* interrupt in front of it has its event active (UpdateCommandEvent).
NothingForgotten ==
  /\ pending # 0 => flag # 0
  /\ command # "None" /\ flag = 0 => commandEvent

\* A command is not executed while an interrupt is unacknowledged, which would overwrite its
\* response and flag (UpdateCommandEvent), whatever raises interrupts after the command was
\* written.  Reset is the exception: it is not ended, and its event comes once more.
CommandsWait == commandEvent /\ flag # 0 => command = "Reset"

\* The response that waits (m_async_response_fifo) ends with what was pushed for the
\* interrupt that waits: the program never takes the response of an interrupt that was
\* withdrawn, or that was not raised because the same one is unacknowledged, for this one's.
ResponseIsForPending ==
  asyncResponse # <<>> => pending # 0 /\ Last(asyncResponse) = pending

\* A new command cuts off the second response of the one before (BeginCommand), so that
\* the program cannot take it for its own: no command waits while a second response is
\* due, but for Reset, which waits for its own.
NoLateSecondResponse ==
  command # "None" /\ secondResponse # "None" => command = "Reset" /\ secondResponse = "Reset"

\* Sectors reach the program in order and none twice: if the buffer it will load next has
\* an unread sector, that came in after the one it loaded last.  The drive goes on filling
\* the ring (ProcessDataSector) while interrupts wait and the program falls behind.
SectorsAdvance == readBuffer \in full => Age(readBuffer) < loaded
=============================================================================
