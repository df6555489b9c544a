------------------------------- MODULE MC_Pad -------------------------------
(* A multitap of two slots; a controller and a card in one place, a         *)
(* controller in each of two, or a card in the second; frames and the       *)
(* multitap's answers of two bytes; or an analog controller by itself.      *)
EXTENDS Pad

MCConnect(places, kind, cards) ==
  [controllers |-> [i \in places |-> kind], cards |-> cards, tap |-> kind = "Digital"]
MCConnections ==
  {MCConnect({0}, "Digital", {0}), MCConnect({0, 1}, "Digital", {}),
   MCConnect({}, "Digital", {1}), MCConnect({0}, "Analog", {})}

MCControl(r, s, t, n) == [reset |-> r, select |-> s, txen |-> t, slot |-> n]
MCControls ==
  {MCControl(FALSE, FALSE, FALSE, 0), MCControl(FALSE, TRUE, FALSE, 0),
   MCControl(FALSE, TRUE, TRUE, 0), MCControl(FALSE, TRUE, TRUE, 1),
   MCControl(TRUE, TRUE, TRUE, 0)}

MCBytes ==
  {0, 1, 2, 3, Poll, SetConfigMode, SetMode, 69, ReadCommand, WriteCommand, GetID,
   SelectCard, SelectCard + 1}

MCLoadedCard(s, o, c) == [state |-> s, offset |-> o, changed |-> c]
MCLoadedCards ==
  {MCLoadedCard("Idle", 0, FALSE), MCLoadedCard("Idle", 0, TRUE),
   MCLoadedCard("ReadData", 1, FALSE), MCLoadedCard("WriteData", 0, TRUE),
   MCLoadedCard("WriteData", 1, FALSE), MCLoadedCard("WriteData", 1, TRUE)}

\* Bound: a program does not go on with the second port where it has no device.
SecondPortUsed == slot = 0 \/ 1 \in Controllers \union Cards
=============================================================================
