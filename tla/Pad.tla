-------------------------------- MODULE Pad --------------------------------
(***************************************************************************)
(* The serial port of controllers and memory cards: core/pad.cpp.          *)
(*                                                                         *)
(* The program selects a port and sends byte after byte; an event ends     *)
(* each transfer, and a second one follows, with an interrupt, if a device *)
(* acknowledged it.  The device that acknowledges the first byte is sent   *)
(* the others, until it does not acknowledge one.  A byte may be written   *)
(* while another is on its way and is sent after it.                       *)
(*                                                                         *)
(* Left out: what is received, the status bits and the interrupt (nothing  *)
(* in the port depends on them), the baud rate, and the second multitap.   *)
(* Which byte is sent is chosen when the device gets it.                   *)
(***************************************************************************)
EXTENDS Multitap

CONSTANTS
  Connections,  \* to choose from: the kinds of the controllers in their places, the places
                \* of cards, and whether the user has a multitap
  Controls,     \* values of m_JOY_CTRL the program writes: [reset, select, txen, slot]
  Bytes,        \* bytes it sends
  LoadedCards   \* what states that are loaded have of a card: [state, offset, changed]

ASSUME PadAssumption ==
  /\ \A c \in Connections :
       /\ (DOMAIN c.controllers) \union c.cards \subseteq Nat
       /\ \A i \in DOMAIN c.controllers : c.controllers[i] \in {"Digital", "Analog"}
       /\ c.tap \in BOOLEAN
  /\ \A c \in Controls : {c.reset, c.select, c.txen} \subseteq BOOLEAN /\ c.slot \in {0, 1}
  /\ Bytes \subseteq 0 .. 255
  /\ LoadedCards \subseteq [state : CardStates, offset : 0 .. FrameSize - 1, changed : BOOLEAN]

VARIABLES
  state,                   \* m_state
  transferEvent,           \* m_transfer_event is active
  transmitFull,            \* m_transmit_buffer_full
  select, txen, slot,      \* SELECT, TXEN and SLOT of m_JOY_CTRL
  active,                  \* m_active_device
  devices                  \* m_controllers, m_memory_cards, m_multitaps[0]

vars == <<state, transferEvent, transmitFull, select, txen, slot, active, devices>>

Controllers == DOMAIN devices.controllers
Cards == DOMAIN devices.cards

-----------------------------------------------------------------------------
(* Pad's methods, from a port to the next.                                 *)

Now ==
  [state |-> state, transferEvent |-> transferEvent, transmitFull |-> transmitFull,
   select |-> select, txen |-> txen, slot |-> slot, active |-> active, devices |-> devices]

Become(p) ==
  /\ state' = p.state /\ transferEvent' = p.transferEvent /\ transmitFull' = p.transmitFull
  /\ select' = p.select /\ txen' = p.txen /\ slot' = p.slot
  /\ active' = p.active /\ devices' = p.devices

IsTransmitting(p) == p.state # "Idle"
CanTransfer(p) == p.transmitFull /\ p.select /\ p.txen

BeginTransfer(p) ==
  [p EXCEPT !.state = "Transmitting", !.transferEvent = TRUE, !.transmitFull = FALSE]

\* Mutant of EndTransfer: the event is left to come.
EndTransferLater(p) == [p EXCEPT !.state = "Idle"]

EndTransfer(p) == [p EXCEPT !.state = "Idle", !.transferEvent = FALSE]

ResetDeviceTransferState(p) ==
  [p EXCEPT !.devices = ResetTransfers(@), !.active = "None"]

SoftReset(p) ==
  ResetDeviceTransferState(
    [(IF IsTransmitting(p) THEN EndTransfer(p) ELSE p)
       EXCEPT !.select = FALSE, !.txen = FALSE, !.slot = 0, !.transmitFull = FALSE])

-----------------------------------------------------------------------------
(* DoTransfer.                                                             *)

\* With a multitap in the first port the second port's devices come after its places.
DeviceIndex(p) == IF p.devices.tap.enabled THEN Slots ELSE p.slot

HasTap(p) == p.slot = 0 /\ p.devices.tap.enabled

\* Who answers, and is active as long as it acknowledges.
Offer(p, byte, effect) ==
  LET d == p.devices
      i == DeviceIndex(p)
      c == ToController(d, i, byte)
      m == ToCard(c.devices, i, byte, effect)
      By(device, r) == [device |-> IF r.ack THEN device ELSE "None", devices |-> r.devices]
  IN CASE p.active = "None" /\ HasTap(p) -> By("Multitap", TapTransfer(d, byte, effect))
       [] p.active = "None" /\ ~HasTap(p) -> IF c.ack THEN By("Controller", c) ELSE By("MemoryCard", m)
       [] p.active = "Controller" -> By("Controller", c)
       [] p.active = "MemoryCard" -> By("MemoryCard", ToCard(d, i, byte, effect))
       [] p.active = "Multitap" ->
            By("Multitap", IF HasTap(p) THEN TapTransfer(d, byte, effect) ELSE Reply(d, FALSE))

DoTransfer(p, byte, effect) ==
  LET a == Offer(p, byte, effect)
      q == [p EXCEPT !.active = a.device, !.devices = a.devices]
  IN IF a.device = "None" THEN EndTransfer(q)
     ELSE [q EXCEPT !.state = "WaitingForACK", !.transferEvent = TRUE]

\* Mutant of DoACK: the byte that was written meanwhile is left.
DoACKOnly(p) == EndTransfer(p)

DoACK(p) == IF CanTransfer(p) THEN BeginTransfer(EndTransfer(p)) ELSE EndTransfer(p)

-----------------------------------------------------------------------------
(* The event, the registers, the user and the console.                     *)

\* TransferEvent, also when a register is read: InvokeEarly.
Transmit ==
  /\ transferEvent /\ state = "Transmitting"
  /\ ~TapExhausted(devices)
  /\ \E byte \in Bytes,
        effect \in IF \E i \in Cards : devices.cards[i].state = "WriteData" THEN Effects ELSE {"same"} :
       Become(DoTransfer(Now, byte, effect))

Acknowledge ==
  /\ transferEvent /\ state # "Transmitting"
  /\ Become(DoACK(Now))

WriteData ==
  LET p == [Now EXCEPT !.transmitFull = TRUE]
  IN Become(IF ~IsTransmitting(p) /\ CanTransfer(p) THEN BeginTransfer(p) ELSE p)

WriteControl(control) ==
  LET p == [Now EXCEPT !.select = control.select, !.txen = control.txen, !.slot = control.slot]
      q == IF control.reset THEN SoftReset(p) ELSE p
      r == IF ~q.select THEN ResetDeviceTransferState(q) ELSE q
  IN Become(CASE ~(r.select /\ r.txen) /\ IsTransmitting(r) -> EndTransfer(r)
              [] r.select /\ r.txen /\ ~IsTransmitting(r) /\ CanTransfer(r) -> BeginTransfer(r)
              [] OTHER -> r)

Registers ==
  \/ WriteData
  \/ \E control \in Controls : WriteControl(control)

\* A card's file is saved: MemoryCard's event.
SaveEvent(i) ==
  /\ devices.cards[i].saving
  /\ devices' = [devices EXCEPT !.cards[i] = SaveIfChanged(@)]
  /\ UNCHANGED <<state, transferEvent, transmitFull, select, txen, slot, active>>

\* A controller or a card is replaced, the multitap plugged in or out, at any time.  A card
\* that cannot be read is formatted.
ChangeDevices ==
  /\ \/ \E i \in Controllers : devices' = [devices EXCEPT !.controllers[i] = NewController(@.kind)]
     \/ \E i \in Cards, formatted \in BOOLEAN :
          devices' = [devices EXCEPT !.cards[i] = NewCard(formatted)]
     \/ devices.hasTap /\ devices' = [devices EXCEPT !.tap = NewTap(~devices.tap.enabled)]
  /\ UNCHANGED <<state, transferEvent, transmitFull, select, txen, slot, active>>

\* The user presses an analog controller's buttons, its own one or others, between frames of
\* the picture, or changes the setting that forces its mode (LoadSettings).
UseController(i) ==
  LET c == devices.controllers[i]
  IN /\ c.kind = "Analog"
     /\ \E d \in {SetButtonState(c, TRUE), SetButtonState(c, FALSE), [c EXCEPT !.forced = ~@]} :
          devices' = [devices EXCEPT !.controllers[i] = d]
     /\ UNCHANGED <<state, transferEvent, transmitFull, select, txen, slot, active>>

\* Pad::Reset
Reset ==
  Become([SoftReset(Now) EXCEPT
            !.devices.controllers = [i \in Controllers |-> ResetController(@[i])],
            !.devices.cards = [i \in Cards |-> ResetCard(@[i])],
            !.devices.tap = NewTap(@.enabled)])

\* A state is loaded.  Its cards are those just saved or of any age; while the port is not
\* selected, they are idle.  Bound: its port, controllers and multitap are as just saved.
LoadState ==
  \E older \in {devices.cards}
                \union [Cards -> {c \in LoadedCards : select \/ c.state = "Idle"}] :
    Become([Now EXCEPT !.devices.cards = [i \in Cards |-> LoadCard(@[i], older[i])],
                       !.transferEvent = @ \/ IsTransmitting(Now)])

Init ==
  /\ state = "Idle" /\ transferEvent = FALSE /\ transmitFull = FALSE
  /\ select = FALSE /\ txen = FALSE /\ slot = 0 /\ active = "None"
  /\ \E c \in Connections :
       devices = [controllers |-> [i \in DOMAIN c.controllers |-> NewController(c.controllers[i])],
                  cards |-> [i \in c.cards |-> NewCard(FALSE)],
                  tap |-> NewTap(FALSE), hasTap |-> c.tap]

Next ==
  \/ Transmit \/ Acknowledge \/ Registers \/ ChangeDevices \/ Reset \/ LoadState
  \/ \E i \in Cards : SaveEvent(i)
  \/ \E i \in Controllers : UseController(i)

Spec == Init /\ [][Next]_vars

-----------------------------------------------------------------------------
(* Properties.                                                             *)

\* The states, registers and counters the code declares.
TypeOK ==
  /\ state \in {"Idle", "Transmitting", "WaitingForACK"}
  /\ {transferEvent, transmitFull, select, txen} \subseteq BOOLEAN /\ slot \in {0, 1}
  /\ active \in {"None", "Controller", "MemoryCard", "Multitap"}
  /\ \A i \in Controllers : ControllerOK(devices.controllers[i])
  /\ \A i \in Cards :
       /\ devices.cards[i].state \in CardStates
       /\ devices.cards[i].offset \in 0 .. FrameSize - 1
       /\ devices.cards[i].unsaved \subseteq 0 .. FrameSize - 1
  /\ devices.tap.state \in TapStates /\ devices.tap.slot \in 0 .. Slots - 1
  /\ devices.tap.step \in 0 .. Slots * AnswerLength

\* A transfer that has begun goes on until it ends (m_state and the event are set apart): its
\* event is active exactly while it goes on; it goes on only while the port is selected and
\* enabled, so that no acknowledgement reaches a program that has deselected the port; and
\* one that awaits its acknowledgement has a device that gave it.
TransferGoesOn ==
  /\ transferEvent <=> state # "Idle"
  /\ state # "Idle" => select /\ txen
  /\ state = "WaitingForACK" => active # "None"

Stuck == state = "Idle" /\ CanTransfer(Now)

\* A byte that may be sent is sent, whichever of the two is written first, the byte or the
\* control register, and whenever: it is left in the buffer (and TXRDY low, until the program
\* writes again) only when the byte before it was not acknowledged (DoTransfer, unlike DoACK,
\* does not look for the next one).
OnlyRefusedLeavesByte == [][~Stuck /\ Stuck' => state = "Transmitting"]_vars

\* An analog controller gives the whole answer that its first byte announced, and no more, in
\* the mode it announced (m_response_length was taken from the mode then; what is put into
\* the answer and when configuration mode is left depend on the mode now), whatever the user
\* does with its button, setting and plug, and the program with its commands, meanwhile.
AnswerAsAnnounced ==
  \A i \in Controllers :
    LET c == devices.controllers[i]
    IN c.kind = "Analog" => IF InFrame(c) THEN c.length = ResponseLength(c) /\ c.step > 0
                            ELSE c.step = 0

\* The multitap keeps its place in a packet (m_controller_transfer_step, m_selected_slot,
\* m_current_controller_done), however packets are broken off by deselection, refusal or
\* plugging: when all controllers are asked, each answer is taken from the slot its bytes
\* in the buffer belong to, and nothing is left over to shift a later packet.
TapInStep ==
  LET tap == devices.tap
  IN IF tap.state = "AllControllers"
     THEN /\ tap.slot = (tap.step \div AnswerLength) % Slots
          /\ tap.done => tap.step % AnswerLength # 0
     ELSE ~tap.done /\ tap.step = (IF tap.state = "ControllerCommand" THEN tap.step % 2 ELSE 0)

\* What the program changes in a card gets into its file, however saves, broken-off frames,
\* resets and loaded states of any age interleave with the bytes: what it has changed since the
\* data were last saved or loaded is marked (m_changed), and a complete frame of it has a save
\* coming (m_save_event).  Not so the data that a state brings along: DoState marks them only
\* as they were marked when it was saved and queues no save, so that data the file does not
\* have, and bytes written that are equal to them, wait for the next change.
FileKeepsUp ==
  \A i \in Cards :
    LET card == devices.cards[i]
    IN /\ card.unsaved # {} => card.changed
       /\ card.owed => card.saving
=============================================================================
