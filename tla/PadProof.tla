------------------------------ MODULE PadProof ------------------------------
(***************************************************************************)
(* The pad port and what is behind it, proved for any number of            *)
(* controllers, cards and multitap slots, any length of frame and answer,  *)
(* and any bytes and control words a program writes.                       *)
(*                                                                         *)
(* The model is made of functions on records, and so is the proof: an      *)
(* invariant of each record (CardInv, ControllerInv, InStep, GoesOn), and  *)
(* a lemma for each function that it preserves it.                         *)
(***************************************************************************)
EXTENDS Pad, Remainders

-----------------------------------------------------------------------------
(* Cards.                                                                  *)

CardBytes == 0 .. FrameSize - 1

CardType ==
  [state : CardStates, offset : CardBytes, changed : BOOLEAN, saving : BOOLEAN,
   unsaved : SUBSET CardBytes, owed : BOOLEAN]

\* Beyond FileKeepsUp: a save that is owed has changes to save (SaveIfChanged does nothing
\* without them).
CardInv(card) ==
  /\ card \in CardType
  /\ card.unsaved # {} => card.changed
  /\ card.owed => card.saving /\ card.changed

LEMMA FixedReplyIsState == \A s \in DOMAIN FixedReply : FixedReply[s] \in CardStates
BY DEF FixedReply, CardStates

LEMMA CardBytesFact == /\ 0 \in CardBytes
                       /\ \A o \in CardBytes : o + 1 < FrameSize => o + 1 \in CardBytes
BY MemoryCardAssumption DEF CardBytes

LEMMA IdleIsState == "Idle" \in CardStates
BY DEF CardStates

\* A card just opened, also one formatted because its file cannot be read (MemoryCard::Open).
LEMMA NewCardInv == ASSUME NEW formatted \in BOOLEAN PROVE CardInv(NewCard(formatted))
BY MemoryCardAssumption DEF CardInv, CardType, CardStates, CardBytes, NewCard

\* SaveIfChanged leaves nothing owed.
LEMMA SaveInv == ASSUME NEW card, CardInv(card)
  PROVE CardInv(SaveIfChanged(card)) 
BY DEF CardInv, CardType, SaveIfChanged

LEMMA ResetCardTransferInv == ASSUME NEW card, CardInv(card) PROVE CardInv(ResetCardTransfer(card))
BY CardBytesFact, IdleIsState DEF CardInv, CardType, ResetCardTransfer

LEMMA ResetCardInv == ASSUME NEW card, CardInv(card) PROVE CardInv(ResetCard(card))
BY SaveInv, ResetCardTransferInv DEF ResetCard

\* What a state of any age has of a card.
Loaded(older) ==
  older.state \in CardStates /\ older.offset \in CardBytes /\ older.changed \in BOOLEAN

\* The state's data are the card's, and its mark with them: the program has changed nothing
\* in them yet (MemoryCard::DoState).
LEMMA LoadCardInv ==
  ASSUME NEW card, CardInv(card), NEW older, Loaded(older)
  PROVE  CardInv(LoadCard(card, older))
BY DEF CardInv, CardType, SaveIfChanged, LoadCard, Loaded

\* A byte written over marks the card unless it is there already.
LEMMA PutByteInv == ASSUME NEW card, CardInv(card), NEW effect \in Effects
  PROVE CardInv(PutByte(card, effect))
BY DEF CardInv, CardType, PutByte, Effects

\* The offset wraps at the end of a frame.
LEMMA NextByteInv == ASSUME NEW card, CardInv(card), NEW next \in CardStates
  PROVE CardInv(NextByte(card, next))
BY CardBytesFact DEF CardInv, CardType, NextByte

\* The last byte of a frame queues the save (QueueFileSave).
LEMMA WriteByteInv == ASSUME NEW card, CardInv(card), NEW effect \in Effects
  PROVE CardInv(WriteByte(card, effect))
<1> DEFINE c == NextByte(PutByte(card, effect), "WriteChecksum")
<1>1. CardInv(c)
  BY PutByteInv, NextByteInv DEF CardStates, FixedReply
<1>. HIDE DEF c
<1>2. CardInv([c EXCEPT !.saving = @ \/ c.changed, !.owed = c.unsaved # {}])
  BY <1>1 DEF CardInv, CardType
<1>. QED
  BY <1>1, <1>2 DEF WriteByte, c

\* Whatever is sent to a card, MemoryCard::Transfer keeps it so.
LEMMA CardTransferInv ==
  ASSUME NEW card, CardInv(card), NEW byte, NEW effect \in Effects
  PROVE  /\ CardInv(CardTransfer(card, byte, effect).card)
         /\ CardTransfer(card, byte, effect).ack \in BOOLEAN
<1> DEFINE r == CardTransfer(card, byte, effect)
<1>1. \A s \in CardStates : CardInv([card EXCEPT !.state = s])
  BY DEF CardInv, CardType
<1>2. \A s \in CardStates : CardInv([card EXCEPT !.state = s, !.offset = 0])
  BY CardBytesFact DEF CardInv, CardType
<1>3. CardInv(NextByte(card, "ReadChecksum"))
  BY NextByteInv DEF CardStates, FixedReply
<1>4. CardInv(WriteByte(card, effect))
  BY WriteByteInv
<1>5. /\ card.state \in CardStates
      /\ {"Idle", "Command", "ReadCardID1", "WriteCardID1"} \subseteq CardStates
      /\ AddressLSB \subseteq DOMAIN FixedReply
  BY DEF CardInv, CardType, CardStates, FixedReply, AddressLSB
<1>. QED
  BY <1>1, <1>2, <1>3, <1>4, <1>5, FixedReplyIsState DEF CardTransfer, CardStates

-----------------------------------------------------------------------------
(* Controllers.                                                            *)

DigitalType == [kind : {"Digital"}, state : DigitalStates]

Steps == 0 .. 7

AnalogType ==
  [kind : {"Analog"}, command : Commands, step : Steps, length : {0, 4, 8}, enters : BOOLEAN,
   analog : BOOLEAN, config : BOOLEAN, locked : BOOLEAN, queued : BOOLEAN,
   forced : BOOLEAN, wasForced : BOOLEAN]

\* Beyond AnswerAsAnnounced: SetAnalogMode is a command of configuration mode, in which the
\* length of an answer does not depend on the mode the command changes.
AnalogInv(c) ==
  /\ c \in AnalogType
  /\ InFrame(c) => c.length = ResponseLength(c) /\ c.step \in 1 .. c.length - 1
  /\ ~InFrame(c) => c.step = 0
  /\ c.command = "SetAnalogMode" => c.config

ControllerInv(c) == c \in DigitalType \/ AnalogInv(c)

LEMMA CommandsFact == {"Idle", "Ready"} \subseteq Commands
BY DEF Commands

LEMMA StepsFact ==
  /\ {0, 1} \subseteq Steps
  /\ \A step \in Steps : step + 1 < 8 => step + 1 \in Steps
  /\ \A step \in Steps : step \in Int
BY DEF Steps

LEMMA NewControllerInv ==
  ASSUME NEW kind \in {"Digital", "Analog"} PROVE ControllerInv(NewController(kind))
<1>1. kind = "Digital" => NewController(kind) \in DigitalType
  BY DEF NewController, DigitalType, DigitalStates
<1>2. kind = "Analog" => AnalogInv(NewController(kind))
  BY CommandsFact, StepsFact DEF NewController, AnalogInv, AnalogType, InFrame
<1>. QED
  BY <1>1, <1>2 DEF ControllerInv

\* DigitalController::Transfer.
LEMMA DigitalTransferInv ==
  ASSUME NEW c \in DigitalType, NEW byte
  PROVE  /\ DigitalTransfer(c, byte).controller \in DigitalType
         /\ DigitalTransfer(c, byte).ack \in BOOLEAN
<1>1. DigitalNext(c.state, byte) \in DigitalStates
  BY DEF DigitalType, DigitalStates, DigitalNext
<1>. QED
  BY <1>1 DEF DigitalType, DigitalTransfer, Answer

\* The mode is toggled only outside a frame.
LEMMA ProcessToggleInv ==
  ASSUME NEW c, AnalogInv(c), ~InFrame(c)
  PROVE  /\ AnalogInv(ProcessAnalogModeToggle(c))
         /\ ProcessAnalogModeToggle(c).command = c.command
BY ZenonT(60) DEF AnalogInv, AnalogType, InFrame, ProcessAnalogModeToggle, SetAnalogMode

\* A toggle in the middle of a frame is queued (ToggleAnalogMode).
LEMMA ToggleInv ==
  ASSUME NEW c, AnalogInv(c) PROVE AnalogInv(ToggleAnalogMode(c))
<1>1. c.command = "Idle" => ~InFrame(c)
  BY DEF InFrame
<1>2. AnalogInv([c EXCEPT !.queued = TRUE])
  BY DEF AnalogInv, AnalogType, InFrame, ResponseLength
<1>. QED
  BY <1>1, <1>2, ProcessToggleInv DEF ToggleAnalogMode

LEMMA SetButtonStateInv ==
  ASSUME NEW c, AnalogInv(c), NEW pressed \in BOOLEAN PROVE AnalogInv(SetButtonState(c, pressed))
<1>1. AnalogInv([c EXCEPT !.wasForced = c.forced])
  BY DEF AnalogInv, AnalogType, InFrame, ResponseLength
<1>. QED
  BY <1>1, ToggleInv DEF SetButtonState

LEMMA ChangeSettingInv ==
  ASSUME NEW c, AnalogInv(c) PROVE AnalogInv([c EXCEPT !.forced = ~@])
BY DEF AnalogInv, AnalogType, InFrame, ResponseLength

\* A queued toggle is done when the frame is broken off (ResetTransferState).
LEMMA ResetAnalogTransferInv ==
  ASSUME NEW c, AnalogInv(c) PROVE AnalogInv(ResetAnalogTransfer(c))
<1> DEFINE d == IF c.queued THEN ProcessAnalogModeToggle(c) ELSE c
<1>1. d \in AnalogType
  BY DEF AnalogInv, AnalogType, ProcessAnalogModeToggle, SetAnalogMode
<1>. HIDE DEF d
<1>2. AnalogInv([d EXCEPT !.queued = FALSE, !.command = "Idle", !.step = 0])
  BY <1>1, CommandsFact, StepsFact DEF AnalogInv, AnalogType, InFrame
<1>. QED
  BY <1>2 DEF ResetAnalogTransfer, d

LEMMA ResetAnalogInv ==
  ASSUME NEW c, AnalogInv(c) PROVE AnalogInv(ResetAnalog(c))
BY CommandsFact, StepsFact DEF AnalogInv, AnalogType, InFrame, ResetAnalog

\* The length is taken from the mode when the command arrives.
LEMMA BeginCommandInv ==
  ASSUME NEW c, AnalogInv(c), c.command = "Ready", NEW byte, CommandOf(c, byte) # "Ready"
  PROVE  LET r == NextStep(BeginCommand(c, byte)) IN AnalogInv(r.controller) /\ r.ack \in BOOLEAN
<1> DEFINE d == BeginCommand(c, byte)
<1>1. /\ d \in AnalogType /\ d.step = 0
      /\ d.command \in Commands \ {"Idle", "Ready"}
      /\ d.length = ResponseLength(d) /\ d.length \in {4, 8}
      /\ d.command = "SetAnalogMode" => d.config
  BY DEF AnalogInv, AnalogType, Commands, InFrame, BeginCommand, CommandOf, ResponseLength
<1>. HIDE DEF d
<1>2. /\ d.step + 1 < d.length /\ d.step + 1 = 1
      /\ 1 \in 1 .. d.length - 1
  BY <1>1
<1>3. AnalogInv([d EXCEPT !.step = @ + 1])
  BY <1>1, <1>2, StepsFact DEF AnalogInv, AnalogType, InFrame, ResponseLength
<1>. QED
  BY <1>2, <1>3 DEF NextStep, Answer, d

\* No byte of a frame changes what its length was taken from before its last byte.
LEMMA ObeyInv ==
  ASSUME NEW c, AnalogInv(c), InFrame(c), NEW byte
  PROVE  LET r == NextStep(Obey(c, byte)) IN AnalogInv(r.controller) /\ r.ack \in BOOLEAN
<1> DEFINE d == Obey(c, byte)
<1>1. /\ d \in AnalogType
      /\ d.command = c.command /\ d.step = c.step /\ d.length = c.length
  BY ZenonT(60) DEF AnalogInv, AnalogType, Obey, SetAnalogMode
<1>2. c.step < c.length - 1 => d.config = c.config
  BY DEF AnalogInv, AnalogType, Obey, SetAnalogMode
<1>3. c.command # "SetAnalogMode" => d.analog = c.analog
  BY DEF AnalogInv, AnalogType, Obey
<1>. HIDE DEF d
<1>4. CASE c.step + 1 < c.length
  <2>1. c.step + 1 \in Steps /\ c.step + 1 \in 1 .. c.length - 1 /\ c.step < c.length - 1
    BY <1>4 DEF AnalogInv, AnalogType, Steps
  <2>2. ResponseLength(d) = ResponseLength(c)
    BY <1>2, <1>3, <2>1 DEF AnalogInv, AnalogType, ResponseLength
  <2>3. AnalogInv([d EXCEPT !.step = @ + 1])
    BY <1>1, <1>2, <2>1, <2>2 DEF AnalogInv, AnalogType, InFrame, ResponseLength
  <2>. QED
    BY <1>1, <1>4, <2>3 DEF NextStep, Answer, d
<1>5. CASE ~(c.step + 1 < c.length)
  <2>1. AnalogInv([d EXCEPT !.step = 0, !.command = "Idle", !.enters = FALSE])
    BY <1>1, CommandsFact, StepsFact DEF AnalogInv, AnalogType, InFrame
  <2>. QED
    BY <1>1, <1>5, <2>1 DEF NextStep, Answer, d
<1>. QED
  BY <1>4, <1>5

\* AnalogController::Transfer.
LEMMA AnalogTransferInv ==
  ASSUME NEW c, AnalogInv(c), NEW byte
  PROVE  /\ AnalogInv(AnalogTransfer(c, byte).controller)
         /\ AnalogTransfer(c, byte).ack \in BOOLEAN
<1>1. c.command = "Idle" => AnalogInv([c EXCEPT !.command = "Ready"])
  BY CommandsFact DEF AnalogInv, AnalogType, InFrame
<1>2. c.command \notin {"Idle", "Ready"} => InFrame(c)
  BY DEF InFrame
<1>. QED
  BY <1>1, <1>2, BeginCommandInv, ObeyInv DEF AnalogTransfer, Answer

LEMMA KindsDiffer ==
  ASSUME NEW c, ControllerInv(c)
  PROVE  /\ c.kind = "Digital" => c \in DigitalType
         /\ c.kind # "Digital" => AnalogInv(c) /\ c.kind = "Analog"
         /\ c.kind \in {"Digital", "Analog"}
BY DEF ControllerInv, AnalogInv, AnalogType, DigitalType

LEMMA ControllerTransferInv ==
  ASSUME NEW c, ControllerInv(c), NEW byte
  PROVE  /\ ControllerInv(ControllerTransfer(c, byte).controller)
         /\ ControllerTransfer(c, byte).ack \in BOOLEAN
BY KindsDiffer, DigitalTransferInv, AnalogTransferInv DEF ControllerInv, ControllerTransfer

LEMMA DigitalIdle ==
  ASSUME NEW c \in DigitalType PROVE [c EXCEPT !.state = "Idle"] \in DigitalType
BY DEF DigitalType, DigitalStates

LEMMA ResetControllersInv ==
  ASSUME NEW c, ControllerInv(c)
  PROVE  ControllerInv(ResetController(c)) /\ ControllerInv(ResetControllerTransfer(c))
BY KindsDiffer, DigitalIdle, ResetAnalogInv, ResetAnalogTransferInv
   DEF ControllerInv, ResetController, ResetControllerTransfer

-----------------------------------------------------------------------------
(* The multitap.                                                           *)

TapSlots == 0 .. Slots - 1
TapSteps == 0 .. Slots * AnswerLength

TapType ==
  [enabled : BOOLEAN, state : TapStates, slot : TapSlots, step : TapSteps, all : BOOLEAN,
   invalid : BOOLEAN, done : BOOLEAN]

InStep(tap) ==
  IF tap.state = "AllControllers"
  THEN /\ tap.slot = (tap.step \div AnswerLength) % Slots
       /\ tap.done => tap.step % AnswerLength # 0
  ELSE ~tap.done /\ tap.step \in (IF tap.state = "ControllerCommand" THEN {0, 1} ELSE {0})

Taps == {tap \in TapType : InStep(tap)}

LEMMA TapStatesFact ==
  TapStates = {"Idle", "MemoryCard", "ControllerCommand", "SingleController", "AllControllers"}
BY DEF TapStates

LEMMA TapFact ==
  /\ 0 \in TapSlots /\ {0, 1} \subseteq TapSteps
  /\ Slots * AnswerLength \in Nat \ {0}
<1>1. Slots * AnswerLength \in Nat \ {0}
  BY MultitapAssumption
<1>. QED
  BY <1>1, MultitapAssumption DEF TapSlots, TapSteps

-----------------------------------------------------------------------------
(* The devices.                                                            *)

AllControllers == DigitalType \union {c \in AnalogType : AnalogInv(c)}
AllCards == {card \in CardType : CardInv(card)}

Devices(C, K) ==
  [controllers : [C -> AllControllers], cards : [K -> AllCards], tap : Taps, hasTap : BOOLEAN]

LEMMA AllControllersFact == \A c : c \in AllControllers <=> ControllerInv(c)
BY DEF AllControllers, ControllerInv, AnalogInv

LEMMA AllCardsFact == \A card : card \in AllCards <=> CardInv(card)
BY DEF AllCards, CardInv

LEMMA NewTapInv == \A enabled \in BOOLEAN : NewTap(enabled) \in Taps
BY TapFact, TapStatesFact DEF Taps, TapType, InStep, NewTap

LEMMA ResetTapInv == \A tap \in Taps : ResetTapTransfer(tap) \in Taps
BY TapFact, TapStatesFact DEF Taps, TapType, InStep, ResetTapTransfer

LEMMA ResetTransfersInv ==
  ASSUME NEW C, NEW K, NEW d \in Devices(C, K) PROVE ResetTransfers(d) \in Devices(C, K)
<1>1. \A c \in AllControllers : ResetControllerTransfer(c) \in AllControllers
  BY AllControllersFact, ResetControllersInv
<1>2. \A card \in AllCards : ResetCardTransfer(card) \in AllCards
  BY AllCardsFact, ResetCardTransferInv
<1>. QED
  BY <1>1, <1>2, ResetTapInv DEF Devices, ResetTransfers

LEMMA ToControllerInv ==
  ASSUME NEW C, NEW K, NEW d \in Devices(C, K), NEW i, NEW byte
  PROVE  /\ ToController(d, i, byte).devices \in Devices(C, K)
         /\ ToController(d, i, byte).devices.tap = d.tap
         /\ ToController(d, i, byte).ack \in BOOLEAN
<1>1. \A c \in AllControllers : /\ ControllerTransfer(c, byte).controller \in AllControllers
                                /\ ControllerTransfer(c, byte).ack \in BOOLEAN
  BY AllControllersFact, ControllerTransferInv
<1>. QED
  BY <1>1 DEF Devices, ToController, Reply

LEMMA ToCardInv ==
  ASSUME NEW C, NEW K, NEW d \in Devices(C, K), NEW i, NEW byte, NEW effect \in Effects
  PROVE  /\ ToCard(d, i, byte, effect).devices \in Devices(C, K)
         /\ ToCard(d, i, byte, effect).devices.tap = d.tap
         /\ ToCard(d, i, byte, effect).ack \in BOOLEAN
<1>1. \A card \in AllCards : /\ CardTransfer(card, byte, effect).card \in AllCards
                             /\ CardTransfer(card, byte, effect).ack \in BOOLEAN
  BY AllCardsFact, CardTransferInv
<1>. QED
  BY <1>1 DEF Devices, ToCard, Reply

LEMMA SetTap ==
  ASSUME NEW C, NEW K, NEW d \in Devices(C, K), NEW tap \in Taps
  PROVE  [d EXCEPT !.tap = tap] \in Devices(C, K)
BY DEF Devices

-----------------------------------------------------------------------------
(* Multitap::Transfer.                                                     *)

LEMMA ReplyFact == \A d, ack : Reply(d, ack).devices = d /\ Reply(d, ack).ack = ack
BY DEF Reply

\* The byte after idling chooses a slot, and the buffer is refilled from the other slots.
LEMMA TapIdleInv ==
  ASSUME NEW C, NEW K, NEW d \in Devices(C, K), d.tap.state = "Idle", NEW byte \in Int,
         NEW effect \in Effects
  PROVE  /\ TapIdle(d, byte, effect).devices \in Devices(C, K)
         /\ TapIdle(d, byte, effect).ack \in BOOLEAN
<1> DEFINE At(n) == [d EXCEPT !.tap.slot = n]
           c == ToCard(At(byte - SelectCard), byte - SelectCard, SelectCard, effect)
           p == ToController(At(byte - SelectController), byte - SelectController, SelectController)
           e == [p.devices EXCEPT !.tap.state = "ControllerCommand"]
           all == [e EXCEPT !.controllers = [i \in DOMAIN @ |->
                     IF i < Slots /\ i # e.tap.slot
                     THEN ControllerTransfer(@[i], SelectController).controller ELSE @[i]]]
<1>1. ASSUME NEW n \in TapSlots
      PROVE  /\ At(n) \in Devices(C, K) /\ At(n).tap \in TapType
             /\ At(n).tap.state = "Idle" /\ ~At(n).tap.done /\ At(n).tap.step = 0
  BY TapStatesFact DEF Devices, Taps, TapType, InStep
<1>2. ASSUME NEW x \in Devices(C, K), x.tap.state = "Idle",
             NEW s \in {"MemoryCard", "ControllerCommand"}
      PROVE  [x EXCEPT !.tap.state = s] \in Devices(C, K)
  BY <1>2, TapStatesFact DEF Devices, Taps, TapType, InStep
<1>3. SelectsCard(byte) =>
        /\ c.devices \in Devices(C, K) /\ c.devices.tap.state = "Idle" /\ c.ack \in BOOLEAN
        /\ [c.devices EXCEPT !.tap.state = "MemoryCard"] \in Devices(C, K)
  <2>. HAVE SelectsCard(byte)
  <2>1. byte - SelectCard \in TapSlots
    BY MultitapAssumption DEF SelectsCard, TapSlots, SelectCard
  <2>2. At(byte - SelectCard) \in Devices(C, K) /\ At(byte - SelectCard).tap.state = "Idle"
    BY <1>1, <2>1
  <2>. HIDE DEF At
  <2>3. /\ c.devices \in Devices(C, K) /\ c.devices.tap = At(byte - SelectCard).tap
        /\ c.ack \in BOOLEAN
    BY <2>2, ToCardInv
  <2>. HIDE DEF c
  <2>. QED
    BY <1>2, <2>2, <2>3
<1>4. SelectsController(byte) =>
        p.devices \in Devices(C, K) /\ e \in Devices(C, K) /\ p.ack \in BOOLEAN
  <2>. HAVE SelectsController(byte)
  <2>1. byte - SelectController \in TapSlots
    BY MultitapAssumption DEF SelectsController, TapSlots, SelectController
  <2>2. /\ At(byte - SelectController) \in Devices(C, K)
        /\ At(byte - SelectController).tap.state = "Idle"
    BY <1>1, <2>1
  <2>. HIDE DEF At
  <2>3. /\ p.devices \in Devices(C, K) /\ p.devices.tap = At(byte - SelectController).tap
        /\ p.ack \in BOOLEAN
    BY <2>2, ToControllerInv
  <2>. HIDE DEF p
  <2>. QED
    BY <1>2, <2>2, <2>3
<1>5. e \in Devices(C, K) => all \in Devices(C, K)
  <2>1. \A x \in AllControllers :
          ControllerTransfer(x, SelectController).controller \in AllControllers
    BY AllControllersFact, ControllerTransferInv
  <2>. HIDE DEF e
  <2>. QED
    BY <2>1 DEF Devices
<1>0. SUFFICES ASSUME NEW r, r = TapIdle(d, byte, effect)
              PROVE  r.devices \in Devices(C, K) /\ r.ack \in BOOLEAN
  OBVIOUS
<1>6. r =
        CASE SelectsCard(byte) ->
               IF c.ack THEN Reply([c.devices EXCEPT !.tap.state = "MemoryCard"], TRUE) ELSE c
          [] SelectsController(byte) ->
               IF ~p.ack THEN p ELSE Reply(IF e.tap.all THEN all ELSE e, TRUE)
          [] OTHER -> Reply(d, FALSE)
  BY <1>0 DEF TapIdle
<1>. HIDE DEF c, p, e, all
<1>7. CASE SelectsCard(byte)
  <2>1. ~SelectsController(byte)
    BY <1>7, MultitapAssumption DEF SelectsCard, SelectsController, SelectCard, SelectController
  <2>2. r =
          IF c.ack THEN Reply([c.devices EXCEPT !.tap.state = "MemoryCard"], TRUE) ELSE c
    BY <1>6, <1>7, <2>1
  <2>. QED
    BY <1>3, <1>7, <2>2, ReplyFact
<1>8. CASE ~SelectsCard(byte) /\ SelectsController(byte)
  <2>1. r = IF ~p.ack THEN p ELSE Reply(IF e.tap.all THEN all ELSE e, TRUE)
    BY <1>6, <1>8
  <2>. QED
    BY ZenonT(60), <1>4, <1>5, <1>8, <2>1, ReplyFact
<1>9. CASE ~SelectsCard(byte) /\ ~SelectsController(byte)
  <2>1. r = Reply(d, FALSE)
    BY <1>6, <1>9
  <2>. QED
    BY <2>1, ReplyFact
<1>. QED
  BY <1>7, <1>8, <1>9

\* A packet for one device ends with its refusal.
LEMMA UntilRefusedInv ==
  ASSUME NEW C, NEW K, NEW r, r.devices \in Devices(C, K), r.ack \in BOOLEAN,
         r.devices.tap.state \in {"MemoryCard", "SingleController"}
  PROVE  /\ UntilRefused(r).devices \in Devices(C, K)
         /\ UntilRefused(r).ack \in BOOLEAN
BY TapStatesFact DEF UntilRefused, Reply, Devices, Taps, TapType, InStep

\* The command byte, to one controller or to all.
LEMMA TapCommandInv ==
  ASSUME NEW C, NEW K, NEW d \in Devices(C, K), d.tap.state = "ControllerCommand", NEW byte
  PROVE  /\ TapCommand(d, byte).devices \in Devices(C, K)
         /\ TapCommand(d, byte).ack \in BOOLEAN
<1> DEFINE r == IF d.tap.all THEN Reply([d EXCEPT !.tap.invalid = byte # Poll], TRUE)
                ELSE ToController(d, d.tap.slot, byte)
<1>1. r.devices \in Devices(C, K) /\ r.ack \in BOOLEAN /\ r.devices.tap.state = "ControllerCommand"
  <2>1. /\ [d EXCEPT !.tap.invalid = byte # Poll] \in Devices(C, K)
        /\ [d EXCEPT !.tap.invalid = byte # Poll].tap.state = "ControllerCommand"
    BY DEF Devices, Taps, TapType, InStep
  <2>2. LET c == ToController(d, d.tap.slot, byte)
        IN c.devices \in Devices(C, K) /\ c.devices.tap = d.tap /\ c.ack \in BOOLEAN
    BY ToControllerInv
  <2>. QED
    BY <2>1, <2>2 DEF Reply
<1>. HIDE DEF r
<1>2. [r.devices EXCEPT !.tap.step = 1] \in Devices(C, K)
  BY <1>1, TapFact DEF Devices, Taps, TapType, InStep
<1>. QED
  BY <1>1, <1>2 DEF TapCommand, Reply, r

\* The request byte starts at the first slot and the first byte of the buffer.
LEMMA TapRequestInv ==
  ASSUME NEW C, NEW K, NEW d \in Devices(C, K), d.tap.state = "ControllerCommand", NEW byte
  PROVE  /\ TapRequest(d, byte).devices \in Devices(C, K)
         /\ TapRequest(d, byte).ack \in BOOLEAN
<1> DEFINE c == ToController(d, d.tap.slot, 0)
           last(x) == [x EXCEPT !.tap.all = byte % 2 = 1, !.tap.step = 0]
<1>1. last([d EXCEPT !.tap.slot = 0, !.tap.state = "AllControllers"]) \in Devices(C, K)
  <2>1. (0 \div AnswerLength) % Slots = 0
    BY MultitapAssumption
  <2>. QED
    BY <2>1, TapFact, TapStatesFact DEF Devices, Taps, TapType, InStep
<1>2. c.devices \in Devices(C, K) /\ c.devices.tap = d.tap /\ c.ack \in BOOLEAN
  BY ToControllerInv
<1>. HIDE DEF c
<1>3. last([c.devices EXCEPT !.tap.state = "SingleController"]) \in Devices(C, K)
  BY <1>2, TapFact, TapStatesFact DEF Devices, Taps, TapType, InStep
<1>4. d.tap.invalid \in BOOLEAN
  BY DEF Devices, Taps, TapType
<1>. HIDE DEF last
<1>5. TapRequest(d, byte) =
        IF d.tap.all
        THEN Reply(last([d EXCEPT !.tap.slot = 0, !.tap.state = "AllControllers"]), ~d.tap.invalid)
        ELSE Reply(last([c.devices EXCEPT !.tap.state = "SingleController"]), c.ack)
  BY DEF TapRequest, Reply, last, c
<1>6. CASE d.tap.all
  BY <1>1, <1>4, <1>5, <1>6 DEF Reply
<1>7. CASE ~d.tap.all
  BY <1>2, <1>3, <1>5, <1>7 DEF Reply
<1>. QED
  BY <1>6, <1>7

\* A byte of the answers of all: the slot advances exactly when the byte is the last of an
\* answer, so it stays the byte's slot.
LEMMA TapAllInv ==
  ASSUME NEW C, NEW K, NEW d \in Devices(C, K), d.tap.state = "AllControllers", ~TapExhausted(d),
         NEW byte
  PROVE  /\ TapAll(d, byte).devices \in Devices(C, K)
         /\ TapAll(d, byte).ack \in BOOLEAN
<1> DEFINE r == IF d.tap.done THEN Reply(d, FALSE) ELSE ToController(d, d.tap.slot, byte)
           step == d.tap.step + 1
           ends == step % AnswerLength = 0
           to == IF ends THEN (d.tap.slot + 1) % Slots ELSE d.tap.slot
           e == [r.devices EXCEPT !.tap.done = ~r.ack /\ ~ends, !.tap.step = step, !.tap.slot = to]
<1>1. /\ r.devices \in Devices(C, K) /\ r.devices.tap = d.tap /\ r.ack \in BOOLEAN
  <2>1. LET c == ToController(d, d.tap.slot, byte)
        IN c.devices \in Devices(C, K) /\ c.devices.tap = d.tap /\ c.ack \in BOOLEAN
    BY ToControllerInv
  <2>. QED
    BY <2>1 DEF Reply
<1>2. /\ d.tap \in TapType /\ d.tap.step \in Nat /\ d.tap.step < Slots * AnswerLength
      /\ d.tap.slot = (d.tap.step \div AnswerLength) % Slots
      /\ d.tap.slot \in TapSlots
  <2>1. d.tap \in TapType /\ InStep(d.tap)
    BY DEF Devices, Taps
  <2>2. /\ d.tap.step \in TapSteps /\ d.tap.slot \in TapSlots
        /\ d.tap.slot = (d.tap.step \div AnswerLength) % Slots
    BY <2>1 DEF TapType, InStep
  <2>. QED
    BY <2>1, <2>2, TapFact DEF TapSteps, TapExhausted
<1>3. step \in TapSteps
  BY <1>2, TapFact DEF TapSteps
<1>4. to = (step \div AnswerLength) % Slots
  <2>1. d.tap.step \div AnswerLength \in Nat
    BY <1>2, MultitapAssumption
  <2>. QED
    BY <1>2, <2>1, MultitapAssumption, DivNext, ModNext
<1>5. to \in TapSlots
  <2>1. step \div AnswerLength \in Nat
    BY <1>2, MultitapAssumption
  <2>. HIDE DEF to, step
  <2>. QED
    BY <1>4, <2>1, MultitapAssumption DEF TapSlots
<1>6. ends \in BOOLEAN /\ (~ends <=> step % AnswerLength # 0)
  OBVIOUS
<1>. HIDE DEF r, to, ends, step
<1>7. e \in Devices(C, K)
  BY ZenonT(60), <1>1, <1>3, <1>4, <1>5, <1>6 DEF Devices, Taps, TapType, InStep
<1>8. TapAll(d, byte) = Reply(e, ~ends \/ to # 0)
  BY DEF TapAll, r, to, ends, step
<1>. HIDE DEF e
<1>. QED
  BY <1>6, <1>7, <1>8 DEF Reply

\* Whatever a byte does to the devices behind a port keeps their invariant.
\* Multitap::Transfer.
LEMMA TapTransferInv ==
  ASSUME NEW C, NEW K, NEW d \in Devices(C, K), ~TapExhausted(d), NEW byte \in Int,
         NEW effect \in Effects
  PROVE  /\ TapTransfer(d, byte, effect).devices \in Devices(C, K)
         /\ TapTransfer(d, byte, effect).ack \in BOOLEAN
<1>1. /\ d.tap.state \in TapStates
      /\ d.tap.state = "ControllerCommand" => d.tap.step \in {0, 1}
  BY DEF Devices, Taps, TapType, InStep
<1>2. CASE d.tap.state = "Idle"
  BY <1>2, TapIdleInv DEF TapTransfer
<1>3. CASE d.tap.state = "MemoryCard"
  BY <1>3, ToCardInv, UntilRefusedInv DEF TapTransfer
<1>4. CASE d.tap.state = "ControllerCommand" /\ d.tap.step = 0
  BY <1>4, TapCommandInv DEF TapTransfer
<1>5. CASE d.tap.state = "ControllerCommand" /\ d.tap.step = 1
  BY <1>5, TapRequestInv DEF TapTransfer
<1>6. CASE d.tap.state = "SingleController"
  BY <1>6, ToControllerInv, UntilRefusedInv DEF TapTransfer
<1>7. CASE d.tap.state = "AllControllers"
  BY <1>7, TapAllInv DEF TapTransfer
<1>. QED
  BY <1>1, <1>2, <1>3, <1>4, <1>5, <1>6, <1>7, TapStatesFact

-----------------------------------------------------------------------------
(* The port.                                                               *)

States == {"Idle", "Transmitting", "WaitingForACK"}
Actives == {"None", "Controller", "MemoryCard", "Multitap"}

Ports(C, K) ==
  [state : States, transferEvent : BOOLEAN, transmitFull : BOOLEAN, select : BOOLEAN,
   txen : BOOLEAN, slot : {0, 1}, active : Actives, devices : Devices(C, K)]

\* TransferGoesOn, of any port.
GoesOn(p) ==
  /\ p.transferEvent <=> p.state # "Idle"
  /\ p.state # "Idle" => p.select /\ p.txen
  /\ p.state = "WaitingForACK" => p.active # "None"

\* The inductive invariant, and what becomes of it when the port is set.
Good(p) == \E C, K : p \in Ports(C, K) /\ GoesOn(p)

LEMMA EndTransferGood == ASSUME NEW C, NEW K, NEW p \in Ports(C, K)
  PROVE EndTransfer(p) \in Ports(C, K) /\ GoesOn(EndTransfer(p))
BY DEF Ports, States, GoesOn, EndTransfer

LEMMA BeginTransferGood == ASSUME NEW C, NEW K, NEW p \in Ports(C, K), p.select, p.txen
  PROVE BeginTransfer(p) \in Ports(C, K) /\ GoesOn(BeginTransfer(p))
BY DEF Ports, States, GoesOn, BeginTransfer

\* Devices that forget a transfer that awaits an acknowledgement leave it without the device
\* that gave it: the only step that breaks TransferGoesOn, and is made only to end it.
LEMMA ResetDeviceGood == ASSUME NEW C, NEW K, NEW p \in Ports(C, K)
  PROVE /\ ResetDeviceTransferState(p) \in Ports(C, K)
        /\ p.state # "WaitingForACK" /\ GoesOn(p) => GoesOn(ResetDeviceTransferState(p))
BY ResetTransfersInv DEF Ports, Actives, GoesOn, ResetDeviceTransferState

\* A soft reset ends the transfer first.
LEMMA SoftResetGood == ASSUME NEW C, NEW K, NEW p \in Ports(C, K),
    p.state = "Idle" => ~p.transferEvent
  PROVE SoftReset(p) \in Ports(C, K) /\ GoesOn(SoftReset(p)) /\ SoftReset(p).state = "Idle"
<1> DEFINE q == IF IsTransmitting(p) THEN EndTransfer(p) ELSE p
<1>1. q \in Ports(C, K) /\ q.state = "Idle" /\ ~q.transferEvent
  BY DEF IsTransmitting, EndTransfer, Ports, States
<1>. HIDE DEF q
<1> DEFINE r == [q EXCEPT !.select = FALSE, !.txen = FALSE, !.slot = 0, !.transmitFull = FALSE]
<1>2. r \in Ports(C, K) /\ GoesOn(r) /\ r.state = "Idle"
  BY <1>1 DEF Ports, GoesOn
<1>. HIDE DEF r
<1>3. ResetDeviceTransferState(r).state = "Idle"
  BY <1>2 DEF ResetDeviceTransferState, Ports
<1>. QED
  BY <1>2, <1>3, ResetDeviceGood DEF SoftReset, q, r

\* Whoever the byte is offered to.
LEMMA OfferGood ==
  ASSUME NEW C, NEW K, NEW p \in Ports(C, K), ~TapExhausted(p.devices), NEW byte \in Int,
         NEW effect \in Effects
  PROVE  LET a == Offer(p, byte, effect) IN a.device \in Actives /\ a.devices \in Devices(C, K)
<1> DEFINE d == p.devices
           i == DeviceIndex(p)
           c == ToController(d, i, byte)
           m == ToCard(c.devices, i, byte, effect)
           n == ToCard(d, i, byte, effect)
           t == TapTransfer(d, byte, effect)
           By(device, r) == [device |-> IF r.ack THEN device ELSE "None", devices |-> r.devices]
<1>1. d \in Devices(C, K) /\ p.active \in Actives
  BY DEF Ports
<1>2. c.devices \in Devices(C, K)
  BY <1>1, ToControllerInv
<1>3. m.devices \in Devices(C, K)
  <2>. HIDE DEF c
  <2>. QED
    BY <1>2, ToCardInv
<1>4. n.devices \in Devices(C, K)
  BY <1>1, ToCardInv
<1>5. t.devices \in Devices(C, K)
  BY <1>1, TapTransferInv
<1>6. Offer(p, byte, effect) =
        CASE p.active = "None" /\ HasTap(p) -> By("Multitap", t)
          [] p.active = "None" /\ ~HasTap(p) ->
               IF c.ack THEN By("Controller", c) ELSE By("MemoryCard", m)
          [] p.active = "Controller" -> By("Controller", c)
          [] p.active = "MemoryCard" -> By("MemoryCard", n)
          [] p.active = "Multitap" -> By("Multitap", IF HasTap(p) THEN t ELSE Reply(d, FALSE))
  BY DEF Offer
<1>. HIDE DEF d, c, m, n, t
<1>7. HasTap(p) \in BOOLEAN
  BY DEF HasTap, Ports, Devices, Taps, TapType
<1>8. Reply(d, FALSE).devices = d
  BY DEF Reply
<1>9. ASSUME NEW device \in Actives, NEW r, r.devices \in Devices(C, K)
      PROVE  By(device, r).device \in Actives /\ By(device, r).devices \in Devices(C, K)
  BY <1>9 DEF Actives
<1>10. {"None", "Controller", "MemoryCard", "Multitap"} = Actives
  BY DEF Actives
<1>. HIDE DEF By
<1>11. CASE p.active = "None"
  BY <1>2, <1>3, <1>5, <1>6, <1>7, <1>9, <1>10, <1>11
<1>12. CASE p.active = "Controller"
  BY <1>2, <1>6, <1>9, <1>10, <1>12
<1>13. CASE p.active = "MemoryCard"
  BY <1>4, <1>6, <1>9, <1>10, <1>13
<1>14. CASE p.active = "Multitap"
  BY <1>1, <1>5, <1>6, <1>8, <1>9, <1>10, <1>14
<1>. QED
  BY <1>1, <1>10, <1>11, <1>12, <1>13, <1>14

LEMMA DoTransferGood ==
  ASSUME NEW C, NEW K, NEW p \in Ports(C, K), p.select, p.txen, ~TapExhausted(p.devices),
         NEW byte \in Int, NEW effect \in Effects
  PROVE  DoTransfer(p, byte, effect) \in Ports(C, K) /\ GoesOn(DoTransfer(p, byte, effect))
<1> DEFINE a == Offer(p, byte, effect)
           q == [p EXCEPT !.active = a.device, !.devices = a.devices]
<1>1. a.device \in Actives /\ a.devices \in Devices(C, K)
  BY OfferGood
<1>. HIDE DEF a
<1>2. q \in Ports(C, K) /\ q.select /\ q.txen /\ q.active = a.device
  BY <1>1 DEF Ports
<1>. HIDE DEF q
<1>3. a.device # "None" =>
        LET r == [q EXCEPT !.state = "WaitingForACK", !.transferEvent = TRUE]
        IN r \in Ports(C, K) /\ GoesOn(r)
  BY <1>2 DEF Ports, GoesOn, States
<1>. QED
  BY <1>2, <1>3, EndTransferGood DEF DoTransfer, a, q

LEMMA DoACKGood ==
  ASSUME NEW C, NEW K, NEW p \in Ports(C, K)
  PROVE  DoACK(p) \in Ports(C, K) /\ GoesOn(DoACK(p))
<1>1. EndTransfer(p).select = p.select /\ EndTransfer(p).txen = p.txen
  BY DEF EndTransfer, Ports
<1>. QED
  BY <1>1, EndTransferGood, BeginTransferGood DEF DoACK, CanTransfer

-----------------------------------------------------------------------------
(* The invariant, action by action.                                        *)

\* It holds whatever devices are plugged in.
Inv == Good(Now)

LEMMA BecomeGood ==
  ASSUME NEW C, NEW K, NEW p \in Ports(C, K), GoesOn(p), Become(p)
  PROVE  Inv'
<1>1. /\ state' = p.state /\ transferEvent' = p.transferEvent /\ transmitFull' = p.transmitFull
      /\ select' = p.select /\ txen' = p.txen /\ slot' = p.slot
      /\ active' = p.active /\ devices' = p.devices
  BY DEF Become
<1>2. Now' = p
  BY <1>1 DEF Now, Ports
<1>. QED
  BY <1>2 DEF Inv, Good

\* The devices alone are changed.
LEMMA DevicesGood ==
  ASSUME NEW C, NEW K, Now \in Ports(C, K), GoesOn(Now), devices' \in Devices(C, K),
         UNCHANGED <<state, transferEvent, transmitFull, select, txen, slot, active>>
  PROVE  Inv'
<1>1. Now' \in Ports(C, K) /\ GoesOn(Now')
  BY DEF Now, Ports, GoesOn
<1>. QED
  BY <1>1 DEF Inv, Good

LEMMA NewDevicesGood ==
  /\ \A c \in AllControllers : NewController(c.kind) \in AllControllers
  /\ \A formatted \in BOOLEAN : NewCard(formatted) \in AllCards
BY AllControllersFact, AllCardsFact, KindsDiffer, NewControllerInv, NewCardInv

\* Nothing is transferred, and all devices are as new (Pad::Initialize).
THEOREM InitGood == Init => Inv
<1>. SUFFICES ASSUME Init PROVE Inv
  OBVIOUS
<1>1. PICK c \in Connections :
        devices = [controllers |-> [i \in DOMAIN c.controllers |-> NewController(c.controllers[i])],
                   cards |-> [i \in c.cards |-> NewCard(FALSE)],
                   tap |-> NewTap(FALSE), hasTap |-> c.tap]
  BY DEF Init
<1>2. devices \in Devices(DOMAIN c.controllers, c.cards)
  <2>1. \A kind \in {"Digital", "Analog"} : NewController(kind) \in AllControllers
    BY AllControllersFact, NewControllerInv
  <2>2. NewCard(FALSE) \in AllCards
    BY NewDevicesGood
  <2>. QED
    BY <1>1, <2>1, <2>2, NewTapInv, PadAssumption DEF Devices
<1>3. Now \in Ports(DOMAIN c.controllers, c.cards) /\ GoesOn(Now)
  BY <1>2 DEF Init, Now, Ports, GoesOn, States, Actives
<1>. QED
  BY <1>3 DEF Inv, Good

LEMMA WriteDataGood == Inv /\ WriteData => Inv'
<1>. SUFFICES ASSUME NEW C, NEW K, Now \in Ports(C, K), GoesOn(Now), WriteData PROVE Inv'
  BY DEF Inv, Good
<1> DEFINE p == [Now EXCEPT !.transmitFull = TRUE]
<1>1. p \in Ports(C, K) /\ GoesOn(p)
  BY DEF Ports, GoesOn
<1>2. Become(IF ~IsTransmitting(p) /\ CanTransfer(p) THEN BeginTransfer(p) ELSE p)
  BY DEF WriteData
<1>. HIDE DEF p
<1>. QED
  BY <1>1, <1>2, BecomeGood, BeginTransferGood DEF CanTransfer

LEMMA WriteControlGood == ASSUME NEW control \in Controls, Inv, WriteControl(control) PROVE Inv'
<1>0. PICK C, K : Now \in Ports(C, K) /\ GoesOn(Now)
  BY DEF Inv, Good
<1> DEFINE p == [Now EXCEPT !.select = control.select, !.txen = control.txen, !.slot = control.slot]
           q == IF control.reset THEN SoftReset(p) ELSE p
           r == IF ~q.select THEN ResetDeviceTransferState(q) ELSE q
           f == CASE ~(r.select /\ r.txen) /\ IsTransmitting(r) -> EndTransfer(r)
                  [] r.select /\ r.txen /\ ~IsTransmitting(r) /\ CanTransfer(r) -> BeginTransfer(r)
                  [] OTHER -> r
           Begun(x) == /\ x.transferEvent <=> x.state # "Idle"
                       /\ x.state = "WaitingForACK" => x.active # "None"
<1>1. Become(f)
  BY DEF WriteControl
<1>2. p \in Ports(C, K) /\ Begun(p)
  BY ZenonT(60), <1>0, PadAssumption DEF Ports, GoesOn
<1>. HIDE DEF p
<1>3. q \in Ports(C, K) /\ Begun(q)
  BY <1>2, SoftResetGood DEF GoesOn
<1>. HIDE DEF q
<1>4. /\ r \in Ports(C, K) /\ (r.transferEvent <=> r.state # "Idle")
      /\ r.select /\ r.state = "WaitingForACK" => r.active # "None"
  <2>1. /\ ResetDeviceTransferState(q) \in Ports(C, K)
        /\ ResetDeviceTransferState(q).transferEvent = q.transferEvent
        /\ ResetDeviceTransferState(q).state = q.state
        /\ ResetDeviceTransferState(q).select = q.select
    BY <1>3, ResetDeviceGood DEF ResetDeviceTransferState, Ports
  <2>. QED
    BY <1>3, <2>1
<1>. HIDE DEF r
<1>5. f \in Ports(C, K) /\ GoesOn(f)
  <2>1. CASE ~(r.select /\ r.txen) /\ IsTransmitting(r)
    <3>1. f = EndTransfer(r)
      BY <2>1
    <3>. QED
      BY <1>4, <3>1, EndTransferGood
  <2>2. CASE r.select /\ r.txen /\ ~IsTransmitting(r) /\ CanTransfer(r)
    <3>1. f = BeginTransfer(r)
      BY <2>2
    <3>. QED
      BY <1>4, <2>2, <3>1, BeginTransferGood
  <2>3. CASE /\ ~(~(r.select /\ r.txen) /\ IsTransmitting(r))
             /\ ~(r.select /\ r.txen /\ ~IsTransmitting(r) /\ CanTransfer(r))
    <3>1. f = r
      BY <2>3
    <3>. QED
      BY <1>4, <2>3, <3>1 DEF IsTransmitting, GoesOn
  <2>. QED
    BY <2>1, <2>2, <2>3
<1>. QED
  BY <1>1, <1>5, BecomeGood

LEMMA ChangeDevicesGood == Inv /\ ChangeDevices => Inv'
<1>. SUFFICES ASSUME NEW C, NEW K, Now \in Ports(C, K), GoesOn(Now), ChangeDevices PROVE Inv'
  BY DEF Inv, Good
<1>1. devices \in Devices(C, K)
  BY DEF Now, Ports
<1>2. ASSUME NEW i \in Controllers,
             devices' = [devices EXCEPT !.controllers[i] = NewController(@.kind)]
      PROVE  devices' \in Devices(C, K)
  BY <1>1, <1>2, NewDevicesGood DEF Devices, Controllers
<1>3. ASSUME NEW i \in Cards, NEW formatted \in BOOLEAN,
             devices' = [devices EXCEPT !.cards[i] = NewCard(formatted)]
      PROVE  devices' \in Devices(C, K)
  BY <1>1, <1>3, NewDevicesGood DEF Devices, Cards
<1>4. ASSUME devices' = [devices EXCEPT !.tap = NewTap(~devices.tap.enabled)]
      PROVE  devices' \in Devices(C, K)
  <2>1. (~devices.tap.enabled) \in BOOLEAN
    OBVIOUS
  <2>. QED
    BY <1>1, <1>4, <2>1, NewTapInv, SetTap
<1>. QED
  BY <1>2, <1>3, <1>4, DevicesGood DEF ChangeDevices

LEMMA SaveEventGood == ASSUME Inv, NEW i \in Cards, SaveEvent(i) PROVE Inv'
<1>0. PICK C, K : Now \in Ports(C, K) /\ GoesOn(Now)
  BY DEF Inv, Good
<1>1. devices \in Devices(C, K)
  BY <1>0 DEF Now, Ports
<1>2. \A card \in AllCards : SaveIfChanged(card) \in AllCards
  BY AllCardsFact, SaveInv
<1>3. devices' \in Devices(C, K)
  BY <1>1, <1>2 DEF SaveEvent, Devices, Cards
<1>. QED
  BY <1>0, <1>3, DevicesGood DEF SaveEvent

LEMMA UseControllerGood == ASSUME Inv, NEW i \in Controllers, UseController(i) PROVE Inv'
<1>0. PICK C, K : Now \in Ports(C, K) /\ GoesOn(Now)
  BY DEF Inv, Good
<1>1. devices \in Devices(C, K)
  BY <1>0 DEF Now, Ports
<1> DEFINE c == devices.controllers[i]
<1>2. AnalogInv(c)
  BY <1>1, AllControllersFact, KindsDiffer DEF UseController, Devices, Controllers
<1>. HIDE DEF c
<1>3. \A x \in {SetButtonState(c, TRUE), SetButtonState(c, FALSE), [c EXCEPT !.forced = ~@]} :
        x \in AllControllers
  BY <1>2, AllControllersFact, SetButtonStateInv, ChangeSettingInv DEF ControllerInv
<1>4. PICK x \in {SetButtonState(c, TRUE), SetButtonState(c, FALSE), [c EXCEPT !.forced = ~@]} :
        devices' = [devices EXCEPT !.controllers[i] = x]
  BY DEF UseController, c
<1>5. x \in AllControllers
  BY <1>3
<1>6. devices' \in Devices(C, K)
  BY <1>1, <1>4, <1>5 DEF Devices
<1>. QED
  BY <1>0, <1>6, DevicesGood DEF UseController

LEMMA ResetGood == Inv /\ Reset => Inv'
<1>. SUFFICES ASSUME NEW C, NEW K, Now \in Ports(C, K), GoesOn(Now), Reset PROVE Inv'
  BY DEF Inv, Good
<1> DEFINE p == SoftReset(Now)
           q == [p EXCEPT
                  !.devices.controllers = [i \in Controllers |-> ResetController(@[i])],
                  !.devices.cards = [i \in Cards |-> ResetCard(@[i])],
                  !.devices.tap = NewTap(@.enabled)]
<1>1. p \in Ports(C, K) /\ GoesOn(p)
  BY SoftResetGood DEF GoesOn
<1>2. Controllers = C /\ Cards = K
  BY DEF Controllers, Cards, Now, Ports, Devices
<1>. HIDE DEF p
<1>3. q.devices \in Devices(C, K)
  <2>1. \A c \in AllControllers : ResetController(c) \in AllControllers
    BY AllControllersFact, ResetControllersInv
  <2>2. \A card \in AllCards : ResetCard(card) \in AllCards
    BY AllCardsFact, ResetCardInv
  <2>3. NewTap(p.devices.tap.enabled) \in Taps
    BY <1>1, NewTapInv DEF Ports, Devices, Taps, TapType
  <2>. QED
    BY <1>1, <1>2, <2>1, <2>2, <2>3 DEF Ports, Devices
<1>4. q \in Ports(C, K) /\ GoesOn(q)
  BY <1>1, <1>3 DEF Ports, GoesOn
<1>5. Become(q)
  BY DEF Reset, p
<1>. QED
  BY <1>4, <1>5, BecomeGood

LEMMA LoadStateGood == Inv /\ LoadState => Inv'
<1>. SUFFICES ASSUME NEW C, NEW K, Now \in Ports(C, K), GoesOn(Now), LoadState PROVE Inv'
  BY DEF Inv, Good
<1> DEFINE Older == {devices.cards}
                      \union [Cards -> {c \in LoadedCards : select \/ c.state = "Idle"}]
           p(older) == [Now EXCEPT !.devices.cards = [i \in Cards |-> LoadCard(@[i], older[i])],
                                   !.transferEvent = @ \/ IsTransmitting(Now)]
<1>1. PICK older \in Older : Become(p(older))
  BY DEF LoadState
<1>2. Cards = K /\ devices \in Devices(C, K) /\ devices.cards \in [K -> AllCards]
  BY DEF Cards, Now, Ports, Devices
<1>3. \A i \in K : Loaded(older[i])
  <2>1. CASE older = devices.cards
    BY <2>1, <1>2, AllCardsFact DEF Loaded, CardInv, CardType
  <2>2. CASE older \in [Cards -> LoadedCards]
    BY <2>2, <1>2, PadAssumption DEF Loaded, CardBytes
  <2>. QED
    BY <1>1, <2>1, <2>2
<1>4. \A i \in K : LoadCard(devices.cards[i], older[i]) \in AllCards
  BY <1>2, <1>3, AllCardsFact, LoadCardInv
<1>5. p(older).devices \in Devices(C, K)
  BY <1>2, <1>4 DEF Devices, Now
<1>6. p(older) \in Ports(C, K) /\ GoesOn(p(older))
  BY <1>5 DEF Ports, GoesOn, IsTransmitting, Now
<1>. QED
  BY <1>1, <1>6, BecomeGood

LEMMA TransmitGood == Inv /\ Transmit => Inv'
<1>. SUFFICES ASSUME NEW C, NEW K, Now \in Ports(C, K), GoesOn(Now), Transmit PROVE Inv'
  BY DEF Inv, Good
<1>1. PICK byte \in Bytes, effect \in Effects : Become(DoTransfer(Now, byte, effect))
  BY DEF Transmit, Effects
<1>2. Now.select /\ Now.txen /\ ~TapExhausted(Now.devices)
  BY DEF Transmit, GoesOn, Now
<1>3. byte \in Int
  BY PadAssumption
<1>. QED
  BY <1>1, <1>2, <1>3, DoTransferGood, BecomeGood

LEMMA AcknowledgeGood == Inv /\ Acknowledge => Inv'
<1>. SUFFICES ASSUME NEW C, NEW K, Now \in Ports(C, K), GoesOn(Now), Acknowledge PROVE Inv'
  BY DEF Inv, Good
<1>. QED
  BY DoACKGood, BecomeGood DEF Acknowledge

\* Every step of the port, its devices, the user and the console keeps the invariant.
LEMMA NextGood == Inv /\ [Next]_vars => Inv'
<1>. SUFFICES ASSUME Inv, [Next]_vars PROVE Inv'
  OBVIOUS
<1>1. CASE Next
  BY <1>1, TransmitGood, AcknowledgeGood, WriteDataGood, WriteControlGood,
     ChangeDevicesGood, ResetGood, LoadStateGood, SaveEventGood, UseControllerGood
     DEF Next, Registers
<1>2. CASE UNCHANGED vars
  BY <1>2 DEF vars, Inv, Good, Now
<1>. QED
  BY <1>1, <1>2

\* The inductive invariant holds in every reachable state.
THEOREM Invariance == Spec => []Inv
<1>. QED
  BY InitGood, NextGood, PTL DEF Spec

-----------------------------------------------------------------------------
(* What the invariant gives.                                               *)

\* The parts of the invariant, in terms of the variables.
LEMMA InvParts ==
  ASSUME Inv
  PROVE  /\ TransferGoesOn
         /\ state \in States /\ active \in Actives /\ slot \in {0, 1}
         /\ {transferEvent, transmitFull, select, txen} \subseteq BOOLEAN
         /\ \A i \in Controllers : ControllerInv(devices.controllers[i])
         /\ \A i \in Cards : CardInv(devices.cards[i])
         /\ devices.tap \in TapType /\ InStep(devices.tap)
<1>0. PICK C, K : Now \in Ports(C, K) /\ GoesOn(Now)
  BY DEF Inv, Good
<1>1. devices \in Devices(C, K)
  BY <1>0 DEF Now, Ports
<1>2. /\ \A i \in Controllers : devices.controllers[i] \in AllControllers
      /\ \A i \in Cards : devices.cards[i] \in AllCards
      /\ devices.tap \in TapType /\ InStep(devices.tap)
  BY <1>1 DEF Devices, Controllers, Cards, Taps
<1>3. /\ state \in States /\ active \in Actives /\ slot \in {0, 1}
      /\ {transferEvent, transmitFull, select, txen} \subseteq BOOLEAN
  BY <1>0 DEF Now, Ports
<1>4. TransferGoesOn
  BY <1>0 DEF Now, GoesOn, TransferGoesOn
<1>. QED
  BY <1>2, <1>3, <1>4, AllControllersFact, AllCardsFact

LEMMA ControllerOKFact == ASSUME NEW c, ControllerInv(c) PROVE ControllerOK(c)
<1>1. c.kind = "Digital" => c.state \in DigitalStates
  BY KindsDiffer DEF DigitalType
<1>2. c.kind # "Digital" => c.command \in Commands /\ c.length \in {0, 4, 8} /\ c.step \in 0 .. 7
  BY KindsDiffer DEF AnalogInv, AnalogType, Steps
<1>. QED
  BY <1>1, <1>2 DEF ControllerOK

\* States, registers, offsets, lengths and counters stay in the ranges the code declares,
\* whatever bytes are sent.
THEOREM TypeCorrect == Spec => []TypeOK
<1>1. Inv => TypeOK
  <2>. SUFFICES ASSUME Inv PROVE TypeOK
    OBVIOUS
  <2>1. \A i \in Controllers : ControllerOK(devices.controllers[i])
    BY InvParts, ControllerOKFact
  <2>2. \A i \in Cards :
           /\ devices.cards[i].state \in CardStates
           /\ devices.cards[i].offset \in 0 .. FrameSize - 1
           /\ devices.cards[i].unsaved \subseteq 0 .. FrameSize - 1
    BY InvParts DEF CardInv, CardType, CardBytes
  <2>3. /\ devices.tap.state \in TapStates /\ devices.tap.slot \in 0 .. Slots - 1
        /\ devices.tap.step \in 0 .. Slots * AnswerLength
    BY InvParts DEF TapType, TapSlots, TapSteps
  <2>. QED
    BY <2>1, <2>2, <2>3, InvParts DEF TypeOK, States, Actives
<1>. QED
  BY <1>1, Invariance, PTL

\* A transfer has its event exactly while it goes on, goes on only while the port is selected
\* and enabled, and awaits an acknowledgement only from a device that gave it (Pad::DoTransfer,
\* DoACK, EndTransfer, WriteRegister).
THEOREM TransfersGoOn == Spec => []TransferGoesOn
<1>1. Inv => TransferGoesOn
  BY InvParts
<1>. QED
  BY <1>1, Invariance, PTL

\* The multitap is in the slot its place in the buffer belongs to, for any number of slots and
\* length of answers, wherever packets are broken off (Multitap::Transfer).
THEOREM TapStaysInStep == Spec => []TapInStep
<1>1. Inv => TapInStep
  <2>. SUFFICES ASSUME Inv PROVE TapInStep
    OBVIOUS
  <2>1. devices.tap.step \in {0, 1} => devices.tap.step = devices.tap.step % 2
    OBVIOUS
  <2>. QED
    BY <2>1, InvParts DEF InStep, TapInStep
<1>. QED
  BY <1>1, Invariance, PTL

\* What the program has changed in a card since its data were last saved or loaded is marked as
\* changed, and a complete frame of it has a save coming, for any length of a frame and states
\* of any age (MemoryCard::Transfer, SaveIfChanged, DoState).  It does not speak of the data
\* that a loaded state brings: see FileKeepsUp.
THEOREM FilesKeepUp == Spec => []FileKeepsUp
<1>1. Inv => FileKeepsUp
  BY InvParts DEF FileKeepsUp, CardInv
<1>. QED
  BY <1>1, Invariance, PTL

\* An analog controller keeps to the length its first byte announced, whatever changes the mode
\* meanwhile (AnalogController::Transfer, ToggleAnalogMode).
THEOREM AnswersAsAnnounced == Spec => []AnswerAsAnnounced
<1>1. Inv => AnswerAsAnnounced
  <2>. SUFFICES ASSUME Inv, NEW i \in Controllers, devices.controllers[i].kind = "Analog"
                PROVE LET c == devices.controllers[i]
                      IN IF InFrame(c) THEN c.length = ResponseLength(c) /\ c.step > 0
                         ELSE c.step = 0
    BY DEF AnswerAsAnnounced
  <2>1. AnalogInv(devices.controllers[i])
    BY InvParts, KindsDiffer
  <2>. QED
    BY <2>1 DEF AnalogInv
<1>. QED
  BY <1>1, Invariance, PTL

-----------------------------------------------------------------------------
(* Bytes that are left.                                                    *)

\* A soft reset empties the transmit buffer.
LEMMA SoftResetEmpties ==
  ASSUME NEW p, DOMAIN p = DOMAIN Now PROVE ~SoftReset(p).transmitFull
BY DEF SoftReset, ResetDeviceTransferState, IsTransmitting, EndTransfer, Now

\* A write of the control register leaves no byte that may be sent.
LEMMA ControlLeavesNone ==
  ASSUME NEW control \in Controls, WriteControl(control) PROVE ~Stuck'
<1> DEFINE p == [Now EXCEPT !.select = control.select, !.txen = control.txen, !.slot = control.slot]
           q == IF control.reset THEN SoftReset(p) ELSE p
           r == IF ~q.select THEN ResetDeviceTransferState(q) ELSE q
           f == CASE ~(r.select /\ r.txen) /\ IsTransmitting(r) -> EndTransfer(r)
                  [] r.select /\ r.txen /\ ~IsTransmitting(r) /\ CanTransfer(r) -> BeginTransfer(r)
                  [] OTHER -> r
           fields == DOMAIN Now
<1>1. Become(f)
  BY DEF WriteControl
<1>2. DOMAIN p = fields
  BY DEF Now
<1>. HIDE DEF p
<1>3. DOMAIN q = fields
  BY <1>2 DEF SoftReset, ResetDeviceTransferState, EndTransfer
<1>. HIDE DEF q
<1>4. DOMAIN r = fields
  BY <1>3 DEF ResetDeviceTransferState
<1>. HIDE DEF r
<1>5. ~(f.state = "Idle" /\ CanTransfer(f))
  <2>1. CASE ~(r.select /\ r.txen) /\ IsTransmitting(r)
    <3>1. f = EndTransfer(r)
      BY <2>1
    <3>2. EndTransfer(r).select = r.select /\ EndTransfer(r).txen = r.txen
      BY DEF EndTransfer
    <3>. HIDE DEF f
    <3>. QED
      BY <2>1, <3>1, <3>2 DEF CanTransfer
  <2>2. CASE r.select /\ r.txen /\ ~IsTransmitting(r) /\ CanTransfer(r)
    <3>1. f = BeginTransfer(r)
      BY <2>2
    <3>2. BeginTransfer(r).state = "Transmitting"
      BY <1>4 DEF BeginTransfer, Now
    <3>. HIDE DEF f
    <3>. QED
      BY <3>1, <3>2
  <2>3. CASE /\ ~(~(r.select /\ r.txen) /\ IsTransmitting(r))
             /\ ~(r.select /\ r.txen /\ ~IsTransmitting(r) /\ CanTransfer(r))
    <3>1. f = r
      BY <2>3
    <3>. HIDE DEF f
    <3>. QED
      BY <2>3, <3>1 DEF IsTransmitting, CanTransfer
  <2>. QED
    BY <2>1, <2>2, <2>3
<1>. HIDE DEF f
<1>. QED
  BY <1>1, <1>5 DEF Become, Stuck, CanTransfer, Now

\* Only the end of a byte that was refused leaves one.
LEMMA OthersLeaveNone == Next /\ ~Stuck /\ Stuck' => state = "Transmitting"
<1>. SUFFICES ASSUME Next, ~Stuck, Stuck', state # "Transmitting" PROVE FALSE
  OBVIOUS
<1>1. /\ state' = "Idle" /\ transmitFull' /\ select' /\ txen'
      /\ ~(state = "Idle" /\ transmitFull /\ select /\ txen)
  BY DEF Stuck, CanTransfer, Now
<1>2. ~Transmit
  BY DEF Transmit
<1>3. ~Acknowledge
  BY <1>1 DEF Acknowledge, Become, DoACK, CanTransfer, BeginTransfer, EndTransfer, Now
<1>4. ~WriteData
  BY <1>1 DEF WriteData, Become, IsTransmitting, CanTransfer, BeginTransfer, Now
<1>5. ~Registers
  BY <1>4, ControlLeavesNone DEF Registers
<1>6. /\ ~ChangeDevices
      /\ ~(\E i \in Cards : SaveEvent(i)) /\ ~(\E i \in Controllers : UseController(i))
  BY <1>1 DEF ChangeDevices, SaveEvent, UseController
<1>7. ~Reset
  <2>. SUFFICES ASSUME Reset PROVE FALSE
    OBVIOUS
  <2>1. transmitFull' = SoftReset(Now).transmitFull
    BY ZenonT(60) DEF Reset, Become, SoftReset, ResetDeviceTransferState, IsTransmitting, EndTransfer, Now
  <2>. QED
    BY <1>1, <2>1, SoftResetEmpties
<1>8. ~LoadState
  BY <1>1 DEF LoadState, Become, Now
<1>. QED
  BY <1>2, <1>3, <1>5, <1>6, <1>7, <1>8 DEF Next

\* A byte that may be sent is left in the buffer only when the byte before it was refused
\* (DoTransfer does not look for the next one, DoACK and WriteRegister do).
THEOREM OnlyRefusedLeaves == Spec => OnlyRefusedLeavesByte
<1>1. [Next]_vars => [~Stuck /\ Stuck' => state = "Transmitting"]_vars
  BY OthersLeaveNone
<1>. QED
  BY <1>1, PTL DEF Spec, OnlyRefusedLeavesByte
=============================================================================
