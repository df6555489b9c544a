------------------------------ MODULE Multitap ------------------------------
(***************************************************************************)
(* The multitap: core/multitap.cpp.                                        *)
(*                                                                         *)
(* The multitap passes a packet to one of the controllers or cards in its  *)
(* slots, or asks all controllers in turn when the packet before requested *)
(* that: it then gives the answers of the last such packet and collects    *)
(* the next ones.                                                          *)
(*                                                                         *)
(* It is a record like its devices, and Transfer a function to the next    *)
(* one and the acknowledgement.  Left out: the bytes of the answers; of the buffer *)
(* they are collected in, it is kept (history) whose bytes it holds.       *)
(***************************************************************************)
EXTENDS Controllers, MemoryCard

CONSTANTS
  Slots,         \* slots of a multitap: 4
  AnswerLength   \* bytes of a controller's answer: 8

\* The bytes that select controllers and cards differ.
ASSUME MultitapAssumption ==
  {Slots, AnswerLength} \subseteq Nat \ {0} /\ Slots <= SelectCard - SelectController

TapStates == {"Idle", "MemoryCard", "ControllerCommand", "SingleController", "AllControllers"}

\* A port's devices: a multitap, and the controllers and cards by the number of their
\* place.  The places of the multitap of the first port come first.
NewTap(enabled) ==
  [enabled |-> enabled, state |-> "Idle", slot |-> 0, step |-> 0, all |-> FALSE,
   invalid |-> FALSE, done |-> FALSE]

\* Mutant of ResetTapTransfer: a transfer that is broken off leaves its place.
ResetTapState(tap) == [tap EXCEPT !.state = "Idle", !.slot = 0, !.done = FALSE]

\* ResetTransferState: whether all are asked next is kept for the next packet.
ResetTapTransfer(tap) == [tap EXCEPT !.state = "Idle", !.slot = 0, !.step = 0, !.done = FALSE]

\* Pad's part of it.
ResetTransfers(d) ==
  [d EXCEPT !.controllers = [i \in DOMAIN @ |-> ResetControllerTransfer(@[i])],
            !.cards = [i \in DOMAIN @ |-> ResetCardTransfer(@[i])],
            !.tap = ResetTapTransfer(@)]

Reply(d, ack) == [devices |-> d, ack |-> ack]

\* TransferController, TransferMemoryCard: nothing answers from an empty place.
ToController(d, i, byte) ==
  IF i \notin DOMAIN d.controllers THEN Reply(d, FALSE)
  ELSE LET r == ControllerTransfer(d.controllers[i], byte)
       IN Reply([d EXCEPT !.controllers[i] = r.controller], r.ack)

ToCard(d, i, byte, effect) ==
  IF i \notin DOMAIN d.cards THEN Reply(d, FALSE)
  ELSE LET r == CardTransfer(d.cards[i], byte, effect)
       IN Reply([d EXCEPT !.cards[i] = r.card], r.ack)

-----------------------------------------------------------------------------
(* Multitap::Transfer, state by state.                                     *)

SelectsController(byte) == byte \in SelectController .. SelectController + Slots - 1
SelectsCard(byte) == byte \in SelectCard .. SelectCard + Slots - 1

TapIdle(d, byte, effect) ==
  LET c == ToCard([d EXCEPT !.tap.slot = byte - SelectCard], byte - SelectCard, SelectCard, effect)
      p == ToController([d EXCEPT !.tap.slot = byte - SelectController],
                        byte - SelectController, SelectController)
      AccessAll(e) ==
        [e EXCEPT !.controllers = [i \in DOMAIN @ |->
           IF i < Slots /\ i # e.tap.slot
           THEN ControllerTransfer(@[i], SelectController).controller ELSE @[i]]]
  IN CASE SelectsCard(byte) ->
            IF c.ack THEN Reply([c.devices EXCEPT !.tap.state = "MemoryCard"], TRUE) ELSE c
       [] SelectsController(byte) ->
            IF ~p.ack THEN p
            ELSE LET e == [p.devices EXCEPT !.tap.state = "ControllerCommand"]
                 IN Reply(IF e.tap.all THEN AccessAll(e) ELSE e, TRUE)
       [] OTHER -> Reply(d, FALSE)

\* A packet goes on until it is not acknowledged.
UntilRefused(r) ==
  IF r.ack THEN r ELSE Reply([r.devices EXCEPT !.tap.state = "Idle"], FALSE)

TapCommand(d, byte) ==
  LET r == IF d.tap.all THEN Reply([d EXCEPT !.tap.invalid = byte # Poll], TRUE)
           ELSE ToController(d, d.tap.slot, byte)
  IN Reply([r.devices EXCEPT !.tap.step = 1], r.ack)

\* The request byte says how the next packet is to be.
TapRequest(d, byte) ==
  LET r == IF d.tap.all
           THEN Reply([d EXCEPT !.tap.slot = 0, !.tap.state = "AllControllers"], ~d.tap.invalid)
           ELSE LET c == ToController(d, d.tap.slot, 0)
                IN Reply([c.devices EXCEPT !.tap.state = "SingleController"], c.ack)
  IN Reply([r.devices EXCEPT !.tap.all = byte % 2 = 1, !.tap.step = 0], r.ack)

\* Every controller has its time, if it has answered or not; the last one's last byte
\* is not acknowledged.
TapAll(d, byte) ==
  LET r == IF d.tap.done THEN Reply(d, FALSE) ELSE ToController(d, d.tap.slot, byte)
      step == d.tap.step + 1
      ends == step % AnswerLength = 0
      slot == IF ends THEN (d.tap.slot + 1) % Slots ELSE d.tap.slot
  IN Reply([r.devices EXCEPT !.tap.done = ~r.ack /\ ~ends, !.tap.step = step, !.tap.slot = slot],
           ~ends \/ slot # 0)

TapTransfer(d, byte, effect) ==
  CASE d.tap.state = "Idle" -> TapIdle(d, byte, effect)
    [] d.tap.state = "MemoryCard" -> UntilRefused(ToCard(d, d.tap.slot, byte, effect))
    [] d.tap.state = "ControllerCommand" /\ d.tap.step = 0 -> TapCommand(d, byte)
    [] d.tap.state = "ControllerCommand" /\ d.tap.step = 1 -> TapRequest(d, byte)
    [] d.tap.state = "SingleController" -> UntilRefused(ToController(d, d.tap.slot, byte))
    [] d.tap.state = "AllControllers" -> TapAll(d, byte)

\* The code would go on beyond m_transfer_buffer.
TapExhausted(d) == d.tap.state = "AllControllers" /\ d.tap.step = Slots * AnswerLength
=============================================================================
