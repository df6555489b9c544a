----------------------------- MODULE Controllers -----------------------------
(***************************************************************************)
(* Digital and analog controllers: core/digital_controller.cpp,            *)
(* core/analog_controller.cpp.                                             *)
(*                                                                         *)
(* A controller answers a poll byte by byte.  How long an analog           *)
(* controller's answer is, and what its first byte says of that, depends   *)
(* on its mode, which the user toggles, the program sets and locks in      *)
(* configuration mode, and a setting forces.                               *)
(*                                                                         *)
(* A controller is a record, its methods are functions to the next.  Left  *)
(* out: the bytes of the answers, and the motors.                          *)
(***************************************************************************)
EXTENDS Integers

\* Bytes that mean something: the first of a frame, then the commands.
SelectController == 1
Poll == 66
SetConfigMode == 67
SetMode == 68
Queries == {69, 70, 71, 76, 77}

Answer(controller, ack) == [controller |-> controller, ack |-> ack]

-----------------------------------------------------------------------------
(* The digital controller.                                                 *)

DigitalStates == {"Idle", "Ready", "IDMSB", "ButtonsLSB", "ButtonsMSB"}

DigitalNext(state, byte) ==
  CASE state = "Idle" /\ byte = SelectController -> "Ready"
    [] state = "Ready" /\ byte = Poll -> "IDMSB"
    [] state = "IDMSB" -> "ButtonsLSB"
    [] state = "ButtonsLSB" -> "ButtonsMSB"
    [] state = "ButtonsMSB" -> "Idle"
    [] OTHER -> state

\* DigitalController::Transfer.
DigitalTransfer(c, byte) ==
  LET next == DigitalNext(c.state, byte)
  IN Answer([c EXCEPT !.state = next], next \notin {c.state, "Idle"})

-----------------------------------------------------------------------------
(* The analog controller's mode.                                           *)

Commands == {"Idle", "Ready", "ReadPad", "ConfigModeSetMode", "SetAnalogMode", "Query"}
InFrame(c) == c.command \notin {"Idle", "Ready"}

\* The bytes of an answer, as its first byte announces them (GetIDByte).
ResponseLength(c) == IF c.config \/ c.analog THEN 8 ELSE 4

SetAnalogMode(c, enabled) ==
  IF c.forced /\ c.analog THEN c ELSE [c EXCEPT !.analog = enabled]

ProcessAnalogModeToggle(c) == IF c.locked THEN c ELSE SetAnalogMode(c, ~c.analog)

\* Mutant of ToggleAnalogMode: also in the middle of a frame.
ToggleAtOnce(c) == ProcessAnalogModeToggle(c)

ToggleAnalogMode(c) ==
  IF c.command = "Idle" THEN ProcessAnalogModeToggle(c) ELSE [c EXCEPT !.queued = TRUE]

\* SetButtonState: a change of the setting counts as a press of the button.
SetButtonState(c, pressed) ==
  LET d == IF c.forced # c.wasForced
           THEN ToggleAnalogMode([c EXCEPT !.wasForced = c.forced]) ELSE c
  IN IF pressed THEN ToggleAnalogMode(d) ELSE d

ResetAnalogTransfer(c) ==
  LET d == IF c.queued THEN ProcessAnalogModeToggle(c) ELSE c
  IN [d EXCEPT !.queued = FALSE, !.command = "Idle", !.step = 0]

\* AnalogController::Reset: the lock is kept.
ResetAnalog(c) ==
  [c EXCEPT !.command = "Idle", !.step = 0, !.enters = FALSE, !.analog = FALSE, !.config = FALSE]

-----------------------------------------------------------------------------
(* AnalogController::Transfer.                                             *)

\* What a byte after the select begins; only in configuration mode all of it.
CommandOf(c, byte) ==
  CASE byte = Poll -> "ReadPad"
    [] byte = SetConfigMode -> "ConfigModeSetMode"
    [] c.config /\ byte = SetMode -> "SetAnalogMode"
    [] c.config /\ byte \in Queries -> "Query"
    [] OTHER -> "Ready"

BeginCommand(c, byte) ==
  [c EXCEPT !.command = CommandOf(c, byte), !.length = ResponseLength(c)]

\* What the frame's bytes do: the third and the fourth, and in the end the third again.
Obey(c, byte) ==
  CASE c.command = "ConfigModeSetMode" ->
         LET d == IF c.step = 2 THEN [c EXCEPT !.enters = byte = 1] ELSE c
         IN IF c.step = c.length - 1 THEN [d EXCEPT !.config = d.enters] ELSE d
    [] c.command = "SetAnalogMode" /\ c.step = 2 /\ byte \in {0, 1} -> SetAnalogMode(c, byte = 1)
    [] c.command = "SetAnalogMode" /\ c.step = 3 /\ byte \in {2, 3} -> [c EXCEPT !.locked = byte = 3]
    [] OTHER -> c

\* The byte is answered; the last one is not acknowledged.
NextStep(c) ==
  IF c.step + 1 < c.length THEN Answer([c EXCEPT !.step = @ + 1], TRUE)
  ELSE Answer([c EXCEPT !.step = 0, !.command = "Idle", !.enters = FALSE], FALSE)

AnalogTransfer(c, byte) ==
  CASE c.command = "Idle" /\ byte = SelectController -> Answer([c EXCEPT !.command = "Ready"], TRUE)
    [] c.command = "Idle" /\ byte # SelectController -> Answer(c, FALSE)
    [] c.command = "Ready" /\ CommandOf(c, byte) = "Ready" -> Answer(c, FALSE)
    [] c.command = "Ready" /\ CommandOf(c, byte) # "Ready" -> NextStep(BeginCommand(c, byte))
    [] OTHER -> NextStep(Obey(c, byte))

-----------------------------------------------------------------------------
(* Either kind.                                                            *)

NewController(kind) ==
  IF kind = "Digital" THEN [kind |-> kind, state |-> "Idle"]
  ELSE [kind |-> kind, command |-> "Idle", step |-> 0, length |-> 0, enters |-> FALSE,
        analog |-> FALSE, config |-> FALSE, locked |-> FALSE, queued |-> FALSE,
        forced |-> FALSE, wasForced |-> FALSE]

ControllerTransfer(c, byte) ==
  IF c.kind = "Digital" THEN DigitalTransfer(c, byte) ELSE AnalogTransfer(c, byte)

ResetControllerTransfer(c) ==
  IF c.kind = "Digital" THEN [c EXCEPT !.state = "Idle"] ELSE ResetAnalogTransfer(c)

ResetController(c) == IF c.kind = "Digital" THEN [c EXCEPT !.state = "Idle"] ELSE ResetAnalog(c)

ControllerOK(c) ==
  IF c.kind = "Digital" THEN c.state \in DigitalStates
  ELSE c.command \in Commands /\ c.length \in {0, 4, 8} /\ c.step \in 0 .. 7
=============================================================================
