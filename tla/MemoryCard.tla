----------------------------- MODULE MemoryCard -----------------------------
(***************************************************************************)
(* A memory card: core/memory_card.cpp.                                    *)
(*                                                                         *)
(* The card answers the bytes it is sent one by one and acknowledges each  *)
(* while it expects another.  A frame that is written changes the data in  *)
(* memory; once it is complete, the file the card is kept in is saved a    *)
(* second later, by an event.                                              *)
(*                                                                         *)
(* A card is a record, its methods are functions to the next.  Of the data *)
(* it is kept which bytes of a frame the program has changed since they    *)
(* were last saved to the file or loaded with a state, and whether a       *)
(* complete frame had such bytes (history): one frame is enough, as what   *)
(* is saved is always the whole card.  Left out: the address, the checksum *)
(* (which the code computes and never compares), the replies, cards        *)
(* without a file, which are never saved, and that writing the file may    *)
(* fail: the card takes no notice, its data count as saved.                *)
(***************************************************************************)
EXTENDS Integers

CONSTANT FrameSize    \* MemoryCardImage::FRAME_SIZE

ASSUME MemoryCardAssumption == FrameSize \in Nat \ {0}

\* Bytes that mean something.
SelectCard == 129
ReadCommand == 82
WriteCommand == 87
GetID == 83

\* FIXED_REPLY_STATE and ADDRESS_STATE: the next state, whatever is sent.
FixedReply ==
  [ReadCardID1 |-> "ReadCardID2", ReadCardID2 |-> "ReadAddressMSB",
   ReadAddressMSB |-> "ReadAddressLSB", ReadAddressLSB |-> "ReadACK1",
   ReadACK1 |-> "ReadACK2", ReadACK2 |-> "ReadConfirmAddressMSB",
   ReadConfirmAddressMSB |-> "ReadConfirmAddressLSB", ReadConfirmAddressLSB |-> "ReadData",
   ReadChecksum |-> "ReadEnd", ReadEnd |-> "Idle",
   WriteCardID1 |-> "WriteCardID2", WriteCardID2 |-> "WriteAddressMSB",
   WriteAddressMSB |-> "WriteAddressLSB", WriteAddressLSB |-> "WriteData",
   WriteChecksum |-> "WriteACK1", WriteACK1 |-> "WriteACK2", WriteACK2 |-> "WriteEnd",
   WriteEnd |-> "Idle"]

AddressLSB == {"ReadAddressLSB", "WriteAddressLSB"}

CardStates == {"Idle", "Command", "ReadData", "WriteData"} \union DOMAIN FixedReply

\* What a byte written may be: what is there, what was there when the data were last saved or
\* loaded, or neither.
Effects == {"same", "former", "new"}

\* Data formatted because the file cannot be read are to be saved.
NewCard(formatted) ==
  [state |-> "Idle", offset |-> 0, changed |-> formatted, saving |-> FALSE,
   unsaved |-> IF formatted THEN 0 .. FrameSize - 1 ELSE {}, owed |-> FALSE]

-----------------------------------------------------------------------------
(* The file.                                                               *)

\* SaveIfChanged: the file is written and the event, if it is not what called, deactivated.
SaveIfChanged(card) ==
  LET c == [card EXCEPT !.saving = FALSE, !.changed = FALSE]
  IN IF card.changed THEN [c EXCEPT !.unsaved = {}, !.owed = FALSE] ELSE c

ResetCardTransfer(card) == [card EXCEPT !.state = "Idle", !.offset = 0]

ResetCard(card) == SaveIfChanged(ResetCardTransfer(card))

\* DoState, reading: what there is is saved and the event deactivated; then state, offset,
\* data and mark are those of the state that is loaded, which may be of any age: its data
\* need not be what the file has, whether they are marked or not.  No save is queued.
LoadCard(card, older) ==
  [SaveIfChanged(card) EXCEPT !.state = older.state, !.offset = older.offset,
                              !.changed = older.changed, !.unsaved = {}, !.owed = FALSE]

-----------------------------------------------------------------------------
(* MemoryCard::Transfer.                                                   *)

\* Mutant of PutByte: only the last byte counts.
PutByteOnly(card, effect) ==
  CASE effect = "same" -> [card EXCEPT !.changed = FALSE]
    [] effect = "former" -> [card EXCEPT !.changed = card.offset \in card.unsaved,
                                        !.unsaved = @ \ {card.offset}]
    [] effect = "new" -> [card EXCEPT !.changed = TRUE, !.unsaved = @ \union {card.offset}]

PutByte(card, effect) ==
  CASE effect = "same" -> card
    [] effect = "former" -> [card EXCEPT !.changed = @ \/ card.offset \in card.unsaved,
                                        !.unsaved = @ \ {card.offset}]
    [] effect = "new" -> [card EXCEPT !.changed = TRUE, !.unsaved = @ \union {card.offset}]

\* Mutant of NextByte: a byte too many.
NextByteOfMore(card, next) ==
  IF card.offset + 1 <= FrameSize THEN [card EXCEPT !.offset = @ + 1]
  ELSE [card EXCEPT !.offset = 0, !.state = next]

\* The frame's last byte: the checksum is next, and the file, unless a save is due already.
NextByte(card, next) ==
  IF card.offset + 1 < FrameSize THEN [card EXCEPT !.offset = @ + 1]
  ELSE [card EXCEPT !.offset = 0, !.state = next]

WriteByte(card, effect) ==
  LET c == NextByte(PutByte(card, effect), "WriteChecksum")
  IN IF c.state # "WriteChecksum" THEN c
     ELSE [c EXCEPT !.saving = @ \/ c.changed, !.owed = c.unsaved # {}]

\* The card after a byte, and whether it is acknowledged.
CardTransfer(card, byte, effect) ==
  LET To(state, ack) == [card |-> [card EXCEPT !.state = state], ack |-> ack]
  IN CASE card.state = "Idle" /\ byte = SelectCard -> To("Command", TRUE)
       [] card.state = "Idle" /\ byte # SelectCard -> To("Idle", FALSE)
       [] card.state = "Command" /\ byte = ReadCommand -> To("ReadCardID1", TRUE)
       [] card.state = "Command" /\ byte = WriteCommand -> To("WriteCardID1", TRUE)
       [] card.state = "Command" /\ byte = GetID -> To("Command", FALSE)
       [] card.state = "Command" /\ byte \notin {ReadCommand, WriteCommand, GetID} -> To("Idle", FALSE)
       [] card.state = "ReadData" -> [card |-> NextByte(card, "ReadChecksum"), ack |-> TRUE]
       [] card.state = "WriteData" -> [card |-> WriteByte(card, effect), ack |-> TRUE]
       [] card.state \in AddressLSB ->
            [card |-> [card EXCEPT !.state = FixedReply[@], !.offset = 0], ack |-> TRUE]
       [] OTHER -> To(FixedReply[card.state], card.state # "WriteEnd")
=============================================================================
