----------------------------- MODULE CDROMProof -----------------------------
(***************************************************************************)
(* The CD-ROM controller, proved for any number of sector buffers and any  *)
(* number of answers in the waiting response.                              *)
(*                                                                         *)
(* The model's methods are functions from a state of the controller to the *)
(* next, and the invariant, Good, is a predicate on such states, in parts. *)
(* A lemma for each method says which of its parts it keeps; a command     *)
(* that has answered and is not ended yet (Steady, Sound) lacks the part   *)
(* about its own event.                                                    *)
(***************************************************************************)
EXTENDS CDROM, Remainders

-----------------------------------------------------------------------------
(* The invariant of a state of the controller.                             *)

CommandNames == Commands \union {"None"}
SecondResponses == {"None", "GetID", "ReadTOC", "Pause", "Stop", "Reset", "MotorOn"}
Flags == Interrupts \union {0}
Loads == 0 .. NumSectorBuffers
Responses == Seq(Interrupts)

States ==
  [command : CommandNames, commandEvent : BOOLEAN, secondResponse : SecondResponses,
   driveState : DriveStates, driveEvent : BOOLEAN, setlocPending : BOOLEAN,
   readAfterSeek : BOOLEAN, playAfterSeek : BOOLEAN, motorOn : BOOLEAN, hasMedia : BOOLEAN,
   flag : Flags, pending : Flags, asyncResponse : Responses,
   readBuffer : Buffers, writeBuffer : Buffers, full : SUBSET Buffers, loaded : Loads]

\* DriveGoesOn
Drives(s) ==
  /\ s.driveEvent <=> s.driveState # "Idle"
  /\ s.driveState \in OnDisc => s.hasMedia

\* NothingForgotten and ResponseIsForPending, of interrupts
Waits(s) ==
  /\ s.pending # 0 => s.flag # 0
  /\ s.asyncResponse # <<>> =>
       s.pending # 0 /\ s.asyncResponse[Len(s.asyncResponse)] = s.pending

\* NothingForgotten and CommandsWait, of commands
HasEvent(s) ==
  /\ s.command # "None" /\ s.flag = 0 => s.commandEvent
  /\ s.commandEvent => s.command # "None" /\ (s.flag # 0 => s.command = "Reset")

\* NoLateSecondResponse
InTime(s) ==
  s.command # "None" /\ s.secondResponse # "None" =>
    s.command = "Reset" /\ s.secondResponse = "Reset"

Distance(s, b) == (s.writeBuffer - b) % NumSectorBuffers

\* SectorsAdvance, and that the newest sector is one that is not loaded, as long as it is there.
InOrder(s) ==
  /\ s.readBuffer \in s.full => Distance(s, s.readBuffer) < s.loaded
  /\ s.writeBuffer \in s.full => s.loaded > 0

\* What a command keeps while it is executed, up to its end; what else holds once its second
\* response is queued; and what holds between steps.
Steady(s) == s \in States /\ Drives(s) /\ Waits(s) /\ InOrder(s)
Sound(s) == Steady(s) /\ InTime(s)

Good(s) == Sound(s) /\ HasEvent(s)

-----------------------------------------------------------------------------
(* Names, numbers and responses.                                           *)

LEMMA NamesFact ==
  /\ "None" \in CommandNames /\ "Reset" \in CommandNames /\ "None" \in SecondResponses
  /\ Commands \subseteq CommandNames /\ "None" \notin Commands
  /\ "Idle" \in DriveStates /\ "Idle" \notin OnDisc /\ OnDisc \subseteq DriveStates
  /\ {"ShellOpening", "ChangingSession", "SpinningUp", "ChangingSpeedOrTOCRead"}
       \subseteq DriveStates \ OnDisc
  /\ Seeking \subseteq OnDisc /\ "Reading" \in OnDisc /\ "Playing" \in OnDisc
  /\ {"SeekingPhysical", "SeekingLogical", "SeekingImplicit"} = Seeking
BY DEF CommandNames, SecondResponses, Commands, DriveStates, OnDisc, Seeking

LEMMA NumbersFact ==
  /\ 0 \in Flags /\ Interrupts \subseteq Flags \ {0}
  /\ {DataReady, Complete, ACK, DataEnd, Error} \subseteq Interrupts
BY DEF Flags, Interrupts, DataReady, Complete, ACK, DataEnd, Error

LEMMA ResponsesFact ==
  /\ <<>> \in Responses
  /\ \A r \in Responses, i \in Interrupts :
       Append(r, i) \in Responses /\ Append(r, i)[Len(Append(r, i))] = i
BY DEF Responses

LEMMA RingFact ==
  /\ 0 \in Buffers /\ NumSectorBuffers \in Loads
  /\ \A b \in Buffers : (b + 1) % NumSectorBuffers \in Buffers
  /\ \A l \in Loads : l < NumSectorBuffers => l + 1 \in Loads
  /\ \A w, b \in Buffers : (w - b) % NumSectorBuffers \in Buffers
  /\ \A w, b \in Buffers : (w - b) % NumSectorBuffers \in Loads
  /\ \A l \in Loads : l \in Int
BY CDROMAssumption, RingNext, RingDistance DEF Buffers, Loads

-----------------------------------------------------------------------------
(* Interrupts.                                                             *)

\* Whatever was in front of the command, its event is right afterwards.
LEMMA UpdateCommandEventGood ==
  ASSUME NEW s, Sound(s) PROVE Good(UpdateCommandEvent(s))
BY DEF Good, Sound, Steady, States, Drives, Waits, HasEvent, InTime, InOrder, Distance,
       UpdateCommandEvent

\* An interrupt that is delivered leaves nothing waiting, and takes the program to the newest
\* sector if it is for one.
LEMMA DeliverGood ==
  ASSUME NEW s, s \in States, Drives(s), InTime(s), InOrder(s), s.pending # 0
  PROVE  Good(DeliverAsyncInterrupt(s))
<1> DEFINE t == [s EXCEPT !.readBuffer = IF s.pending = DataReady THEN s.writeBuffer ELSE @,
                          !.asyncResponse = <<>>, !.flag = s.pending, !.pending = 0]
<1>1. t \in States
  BY NumbersFact, ResponsesFact DEF States
<1>2. Drives(t) /\ InTime(t) /\ Waits(t)
  BY DEF States, Drives, InTime, Waits
<1>3. InOrder(t)
  <2>1. Distance(s, s.writeBuffer) = 0
    BY CDROMAssumption, RingDistance DEF States, Buffers, Distance
  <2>2. /\ t.readBuffer = IF s.pending = DataReady THEN s.writeBuffer ELSE s.readBuffer
        /\ t.writeBuffer = s.writeBuffer /\ t.full = s.full /\ t.loaded = s.loaded
        /\ s.loaded \in Int
    BY RingFact DEF States
  <2>. QED
    BY <2>1, <2>2 DEF InOrder, Distance
<1>. HIDE DEF t
<1>. QED
  BY <1>1, <1>2, <1>3, UpdateCommandEventGood DEF DeliverAsyncInterrupt, Sound, Steady, t

\* The response just pushed is delivered, waits with its interrupt, or is dropped with it.
LEMMA SetAsyncGood ==
  ASSUME NEW s, s \in States, Drives(s), InTime(s), InOrder(s), HasEvent(s),
         s.pending # 0 => s.flag # 0,
         NEW i \in Interrupts,
         s.asyncResponse # <<>> /\ s.asyncResponse[Len(s.asyncResponse)] = i
  PROVE  Good(SetAsyncInterrupt(s, i))
<1>1. i # 0 /\ i \in Flags
  BY NumbersFact
<1>2. CASE s.flag = i
  BY <1>1, <1>2, ResponsesFact
     DEF Good, Sound, Steady, States, Drives, Waits, HasEvent, InTime, InOrder, Distance,
         SetAsyncInterrupt
<1> DEFINE p == [s EXCEPT !.pending = i]
<1>3. p \in States /\ Drives(p) /\ InTime(p) /\ InOrder(p) /\ HasEvent(p) /\ p.pending # 0
  BY <1>1 DEF States, Drives, InTime, InOrder, HasEvent, Distance
<1>4. p.asyncResponse = s.asyncResponse /\ p.pending = i /\ p.flag = s.flag
  BY DEF States
<1>. HIDE DEF p
<1>5. CASE s.flag # i /\ s.flag = 0
  BY <1>3, <1>5, DeliverGood DEF SetAsyncInterrupt, p
<1>6. CASE s.flag # i /\ s.flag # 0
  <2>1. SetAsyncInterrupt(s, i) = p
    BY <1>6 DEF SetAsyncInterrupt, p
  <2>2. Waits(p)
    BY <1>1, <1>4, <1>6 DEF Waits
  <2>. QED
    BY <1>3, <2>1, <2>2 DEF Good, Sound, Steady
<1>. QED
  BY <1>2, <1>5, <1>6

\* A response is pushed behind those that wait, or instead of them.
LEMMA SendAsyncGood ==
  ASSUME NEW s, Good(s), NEW i \in Interrupts
  PROVE  Good(SendAsync(s, i)) /\ Good(SendAsyncOnly(s, i))
<1>1. ASSUME NEW t, t \in States, Drives(t), InTime(t), InOrder(t), HasEvent(t),
             t.pending # 0 => t.flag # 0
      PROVE  Good(SendAsync(t, i))
  <2> DEFINE r == [t EXCEPT !.asyncResponse = Append(@, i)]
  <2>1. r.asyncResponse = Append(t.asyncResponse, i) /\ t.asyncResponse \in Responses
    BY <1>1 DEF States
  <2>2. r \in States /\ Drives(r) /\ InTime(r) /\ InOrder(r) /\ HasEvent(r)
    BY <1>1, ResponsesFact DEF States, Drives, InTime, InOrder, HasEvent, Distance
  <2>3. r.pending # 0 => r.flag # 0
    BY <1>1 DEF States
  <2>4. r.asyncResponse # <<>> /\ r.asyncResponse[Len(r.asyncResponse)] = i
    BY SMTT(30), <2>1, ResponsesFact DEF Responses
  <2>. HIDE DEF r
  <2>. QED
    BY <2>2, <2>3, <2>4, SetAsyncGood DEF SendAsync, r
<1>2. Good(SendAsync(s, i))
  BY <1>1 DEF Good, Sound, Steady, Waits
<1> DEFINE e == [s EXCEPT !.asyncResponse = <<>>]
<1>3. /\ e \in States /\ Drives(e) /\ InTime(e) /\ InOrder(e) /\ HasEvent(e)
      /\ e.pending # 0 => e.flag # 0
  BY ResponsesFact
     DEF Good, Sound, Steady, Waits, States, Drives, InTime, InOrder, HasEvent, Distance
<1>. HIDE DEF e
<1>. QED
  BY <1>1, <1>2, <1>3 DEF SendAsyncOnly, e

LEMMA ClearAsyncGood ==
  ASSUME NEW s, Good(s) PROVE Good(ClearAsyncInterrupt(s))
BY ZenonT(60), NumbersFact, ResponsesFact
   DEF Good, Sound, Steady, States, Drives, Waits, HasEvent, InTime, InOrder, Distance,
       ClearAsyncInterrupt

\* The answer to a command, while it is executed.
LEMMA AnswerSound ==
  ASSUME NEW s, Sound(s), NEW ok
  PROVE  /\ Sound(Answer(s, ok)) /\ Answer(s, ok).flag \in Interrupts
         /\ Answer(s, ok).hasMedia = s.hasMedia
         /\ Answer(s, ok).driveState = s.driveState
         /\ Answer(s, ok).command = s.command
         /\ Answer(s, ok).commandEvent = s.commandEvent
         /\ Answer(s, ok).secondResponse = s.secondResponse
BY NumbersFact DEF Sound, Steady, States, Drives, Waits, InTime, InOrder, Distance, Answer

\* The end of a command makes up for what its execution broke.
LEMMA EndCommandGood ==
  ASSUME NEW s, Steady(s) PROVE Good(EndCommand(s))
BY NamesFact
   DEF Good, Sound, Steady, States, Drives, Waits, HasEvent, InTime, InOrder, Distance, EndCommand

LEMMA ClearSecondGood ==
  ASSUME NEW s
  PROVE  /\ Sound(s) => Sound(ClearCommandSecondResponse(s))
         /\ Good(s) => Good(ClearCommandSecondResponse(s))
BY NamesFact
   DEF Good, Sound, Steady, States, Drives, Waits, HasEvent, InTime, InOrder, Distance,
       ClearCommandSecondResponse

\* A new command takes the second response of the last one away (BeginCommand).
LEMMA BeginCommandGood ==
  ASSUME NEW s, Good(s), NEW c \in Commands PROVE Good(BeginCommand(s, c))
<1> DEFINE t == [ClearCommandSecondResponse(s) EXCEPT !.command = c]
<1>1. Sound(t)
  BY ZenonT(60), NamesFact
     DEF Good, Sound, Steady, States, Drives, Waits, InTime, InOrder, Distance,
         ClearCommandSecondResponse
<1>. HIDE DEF t
<1>. QED
  BY <1>1, UpdateCommandEventGood DEF BeginCommand, t

-----------------------------------------------------------------------------
(* The drive.                                                              *)

\* s is t but for the drive and the sectors.
SameCommand(s, t) ==
  /\ s.command = t.command /\ s.commandEvent = t.commandEvent
  /\ s.secondResponse = t.secondResponse
  /\ s.flag = t.flag /\ s.pending = t.pending /\ s.asyncResponse = t.asyncResponse

\* A state is never set without its event.
LEMMA DriveFunctionsSteady ==
  ASSUME NEW s, Steady(s)
  PROVE  /\ Steady(ClearDriveState(s)) /\ SameCommand(ClearDriveState(s), s)
         /\ ClearDriveState(s).driveState = "Idle"
         /\ ClearDriveState(s).hasMedia = s.hasMedia
         /\ \A state \in DriveStates \ {"Idle"} :
              (state \in OnDisc => s.hasMedia) =>
                 /\ Steady(SetDriveState(s, state)) /\ SameCommand(SetDriveState(s, state), s)
                 /\ SetDriveState(s, state).hasMedia = s.hasMedia
         /\ Steady(ClearSectorBuffers(s)) /\ SameCommand(ClearSectorBuffers(s), s)
         /\ ClearSectorBuffers(s).hasMedia = s.hasMedia
         /\ ClearSectorBuffers(s).driveState = s.driveState
         /\ ClearSectorBuffers(s).driveEvent = s.driveEvent
<1>1. /\ Steady(ClearDriveState(s)) /\ SameCommand(ClearDriveState(s), s)
      /\ ClearDriveState(s).driveState = "Idle"
      /\ ClearDriveState(s).hasMedia = s.hasMedia
  BY NamesFact DEF Steady, States, Drives, Waits, InOrder, Distance, SameCommand, ClearDriveState
<1>2. ASSUME NEW state \in DriveStates \ {"Idle"}, state \in OnDisc => s.hasMedia
      PROVE  /\ Steady(SetDriveState(s, state)) /\ SameCommand(SetDriveState(s, state), s)
             /\ SetDriveState(s, state).hasMedia = s.hasMedia
  BY <1>2 DEF Steady, States, Drives, Waits, InOrder, Distance, SameCommand, SetDriveState
<1>3. /\ Steady(ClearSectorBuffers(s)) /\ SameCommand(ClearSectorBuffers(s), s)
      /\ ClearSectorBuffers(s).hasMedia = s.hasMedia
      /\ ClearSectorBuffers(s).driveState = s.driveState
      /\ ClearSectorBuffers(s).driveEvent = s.driveEvent
  BY RingFact DEF Steady, States, Drives, Waits, InOrder, Distance, SameCommand, ClearSectorBuffers
<1>. QED
  BY <1>1, <1>2, <1>3

\* From a command's point of view nothing happens.
LEMMA SameCommandKeeps ==
  ASSUME NEW s, NEW t, SameCommand(t, s), Steady(t)
  PROVE  /\ Sound(s) => Sound(t)
         /\ Good(s) => Good(t)
BY DEF SameCommand, Steady, Good, Sound, InTime, HasEvent

\* Only the drive, what it is to do and the sectors change.
DriveStep(t, s) == Steady(t) /\ SameCommand(t, s) /\ t.hasMedia = s.hasMedia

LEMMA DriveStepTransitive ==
  ASSUME NEW s, NEW t, NEW u, DriveStep(t, s), DriveStep(u, t) PROVE DriveStep(u, s)
BY DEF DriveStep, SameCommand

LEMMA ClearDriveStep ==
  ASSUME NEW s, Steady(s)
  PROVE  /\ DriveStep(ClearDriveState(s), s)
         /\ ClearDriveState(s).driveState = "Idle"
BY DriveFunctionsSteady DEF DriveStep

LEMMA SetDriveStep ==
  ASSUME NEW s, Steady(s), NEW state \in DriveStates \ {"Idle"}, state \in OnDisc => s.hasMedia
  PROVE  DriveStep(SetDriveState(s, state), s)
BY DriveFunctionsSteady DEF DriveStep

\* What the drive is to do, and its motor, have no part in the invariant.
LEMMA PlanStep ==
  ASSUME NEW s, Steady(s), NEW setloc \in BOOLEAN, NEW read \in BOOLEAN, NEW play \in BOOLEAN,
         NEW motor \in BOOLEAN
  PROVE  LET t == [s EXCEPT !.setlocPending = setloc, !.readAfterSeek = read,
                            !.playAfterSeek = play, !.motorOn = motor]
         IN DriveStep(t, s) /\ t.driveState = s.driveState
<1> DEFINE t == [s EXCEPT !.setlocPending = setloc, !.readAfterSeek = read,
                          !.playAfterSeek = play, !.motorOn = motor]
<1>1. t \in States
  BY DEF Steady, States
<1>2. /\ SameCommand(t, s) /\ t.hasMedia = s.hasMedia
      /\ t.driveState = s.driveState /\ t.driveEvent = s.driveEvent
      /\ t.readBuffer = s.readBuffer /\ t.writeBuffer = s.writeBuffer
      /\ t.full = s.full /\ t.loaded = s.loaded
  BY DEF Steady, States, SameCommand
<1>. HIDE DEF t
<1>3. Drives(t) /\ Waits(t) /\ InOrder(t)
  BY <1>2 DEF Steady, Drives, Waits, InOrder, Distance, SameCommand
<1>. QED
  BY <1>1, <1>2, <1>3 DEF DriveStep, Steady, t

LEMMA StartMotorStep == ASSUME NEW s, Steady(s) PROVE DriveStep(StartMotor(s), s)
<1>1. DriveStep(s, s)
  BY DEF DriveStep, SameCommand
<1>. QED
  BY <1>1, SetDriveStep, NamesFact DEF StartMotor

LEMMA StopMotorStep == ASSUME NEW s, Steady(s) PROVE DriveStep(StopMotor(s), s)
<1> DEFINE c == ClearDriveState(s)
<1>1. DriveStep(c, s)
  BY ClearDriveStep
<1>. HIDE DEF c
<1>2. DriveStep([c EXCEPT !.motorOn = FALSE], c)
  BY ZenonT(60), <1>1 DEF Steady, States, Drives, Waits, InOrder, Distance, SameCommand, DriveStep
<1>. QED
  BY <1>1, <1>2, DriveStepTransitive DEF StopMotor, c

LEMMA BeginSeekingStep ==
  ASSUME NEW s, Steady(s), s.hasMedia, NEW logical, NEW read \in BOOLEAN, NEW play \in BOOLEAN
  PROVE  DriveStep(BeginSeeking(s, logical, read, play), s)
<1> DEFINE t == [s EXCEPT !.readAfterSeek = read, !.playAfterSeek = play,
                          !.setlocPending = FALSE, !.motorOn = TRUE]
<1>1. DriveStep(t, s)
  <2>1. t = [s EXCEPT !.setlocPending = FALSE, !.readAfterSeek = read,
                      !.playAfterSeek = play, !.motorOn = TRUE]
    BY DEF Steady, States
  <2>. QED
    BY <2>1, PlanStep
<1>. HIDE DEF t
<1>2. Steady(t) /\ t.hasMedia
  BY <1>1 DEF DriveStep
<1>3. {"SeekingLogical", "SeekingPhysical"} \subseteq OnDisc \ {"Idle"}
  BY NamesFact
<1>4. \A state \in {"SeekingLogical", "SeekingPhysical"} : DriveStep(SetDriveState(t, state), t)
  BY <1>2, <1>3, NamesFact, SetDriveStep
<1>5. BeginSeeking(s, logical, read, play) =
        SetDriveState(t, IF logical THEN "SeekingLogical" ELSE "SeekingPhysical")
  BY DEF BeginSeeking, t
<1>. QED
  BY <1>1, <1>4, <1>5, DriveStepTransitive

\* The ring begins anew, with no sectors.
LEMMA EmptyRingStep ==
  ASSUME NEW s, Steady(s), s.full = {}
  PROVE  DriveStep([s EXCEPT !.readBuffer = 0, !.writeBuffer = 0], s)
BY RingFact DEF Steady, States, Drives, Waits, InOrder, Distance, SameCommand, DriveStep

LEMMA ClearSectorsStep ==
  ASSUME NEW s, Steady(s)
  PROVE  /\ DriveStep(ClearSectorBuffers(s), s)
         /\ ClearSectorBuffers(s).full = {}
         /\ ClearSectorBuffers(s).driveState = s.driveState
<1>1. ClearSectorBuffers(s).full = {}
  BY DEF ClearSectorBuffers, Steady, States
<1>. QED
  BY <1>1, DriveFunctionsSteady DEF DriveStep

LEMMA BeginReadingStep ==
  ASSUME NEW s, Steady(s), s.hasMedia, NEW afterSeek PROVE DriveStep(BeginReading(s, afterSeek), s)
<1> DEFINE c == ClearSectorBuffers(s)
           t == [c EXCEPT !.driveState = IF @ = "SeekingImplicit" THEN "SeekingLogical" ELSE @,
                          !.readAfterSeek = TRUE, !.playAfterSeek = FALSE]
           r == [c EXCEPT !.readBuffer = 0, !.writeBuffer = 0]
<1>1. DriveStep(c, s) /\ c.full = {} /\ Steady(c) /\ c.hasMedia
  BY ClearSectorsStep DEF DriveStep
<1>. HIDE DEF c
<1>2. IsSeeking(c) => DriveStep(t, c)
  BY ZenonT(60), <1>1, NamesFact
     DEF Steady, States, Drives, Waits, InOrder, Distance, SameCommand, DriveStep, IsSeeking
<1>3. DriveStep(r, c)
  BY <1>1, EmptyRingStep
<1>. HIDE DEF t, r
<1>4. DriveStep(SetDriveState(r, "Reading"), c)
  BY <1>1, <1>3, NamesFact, SetDriveStep, DriveStepTransitive DEF DriveStep
<1>5. DriveStep(BeginSeeking(c, TRUE, TRUE, FALSE), c)
  BY <1>1, BeginSeekingStep
<1>. QED
  BY <1>1, <1>2, <1>4, <1>5, DriveStepTransitive DEF BeginReading, c, t, r

LEMMA BeginPlayingStep ==
  ASSUME NEW s, Steady(s), s.hasMedia, NEW track PROVE DriveStep(BeginPlaying(s, track), s)
<1> DEFINE c == ClearSectorBuffers(s)
           r == [c EXCEPT !.readBuffer = 0, !.writeBuffer = 0]
<1>1. DriveStep(c, s) /\ c.full = {} /\ Steady(c) /\ c.hasMedia
  BY ClearSectorsStep DEF DriveStep
<1>. HIDE DEF c
<1>2. DriveStep(r, c)
  BY <1>1, EmptyRingStep
<1>. HIDE DEF r
<1>3. DriveStep(SetDriveState(r, "Playing"), c)
  BY <1>1, <1>2, NamesFact, SetDriveStep, DriveStepTransitive DEF DriveStep
<1>4. DriveStep(BeginSeeking(s, FALSE, FALSE, TRUE), s)
  BY BeginSeekingStep
<1>. QED
  BY <1>1, <1>3, <1>4, DriveStepTransitive DEF BeginPlaying, c, r

LEMMA MotorStep ==
  ASSUME NEW s, Steady(s), NEW motor \in BOOLEAN
  PROVE  DriveStep([s EXCEPT !.motorOn = motor], s)
<1>1. [s EXCEPT !.motorOn = motor] =
        [s EXCEPT !.setlocPending = s.setlocPending, !.readAfterSeek = s.readAfterSeek,
                  !.playAfterSeek = s.playAfterSeek, !.motorOn = motor]
  BY DEF Steady, States
<1>2. {s.setlocPending, s.readAfterSeek, s.playAfterSeek} \subseteq BOOLEAN
  BY DEF Steady, States
<1>. QED
  BY ZenonT(60), <1>1, <1>2, PlanStep

LEMMA SetlocStep ==
  ASSUME NEW s, Steady(s), NEW setloc \in BOOLEAN
  PROVE  DriveStep([s EXCEPT !.setlocPending = setloc], s)
<1>1. [s EXCEPT !.setlocPending = setloc] =
        [s EXCEPT !.setlocPending = setloc, !.readAfterSeek = s.readAfterSeek,
                  !.playAfterSeek = s.playAfterSeek, !.motorOn = s.motorOn]
  BY DEF Steady, States
<1>2. {s.readAfterSeek, s.playAfterSeek, s.motorOn} \subseteq BOOLEAN
  BY DEF Steady, States
<1>. QED
  BY ZenonT(60), <1>1, <1>2, PlanStep

LEMMA SeekForNothingStep ==
  ASSUME NEW s, Steady(s)
  PROVE  DriveStep([s EXCEPT !.readAfterSeek = FALSE, !.playAfterSeek = FALSE], s)
<1>1. [s EXCEPT !.readAfterSeek = FALSE, !.playAfterSeek = FALSE] =
        [s EXCEPT !.setlocPending = s.setlocPending, !.readAfterSeek = FALSE,
                  !.playAfterSeek = FALSE, !.motorOn = s.motorOn]
  BY DEF Steady, States
<1>2. {s.setlocPending, s.motorOn} \subseteq BOOLEAN
  BY DEF Steady, States
<1>. QED
  BY <1>1, <1>2, PlanStep

LEMMA GoodIsSteady == \A s : Good(s) => Steady(s) /\ Sound(s)
BY DEF Good, Sound

LEMMA DriveStepGood ==
  ASSUME NEW s, NEW t, DriveStep(t, s)
  PROVE  /\ Steady(t) /\ t.hasMedia = s.hasMedia
         /\ Sound(s) => Sound(t)
         /\ Good(s) => Good(t)
BY SameCommandKeeps DEF DriveStep

\* A seek that ends goes over into what it was for, while the disc is there.
LEMMA DoSeekCompleteGood ==
  ASSUME NEW s, Good(s), s.hasMedia, NEW ok \in BOOLEAN PROVE Good(DoSeekComplete(s, ok))
<1> DEFINE c == ClearDriveState(s)
           d == CASE ~ok -> SendAsync(c, Error)
                  [] ok /\ c.readAfterSeek -> BeginReading(c, TRUE)
                  [] ok /\ ~c.readAfterSeek /\ c.playAfterSeek -> BeginPlaying(c, FALSE)
                  [] OTHER -> SendAsync(c, Complete)
           e == [d EXCEPT !.setlocPending = FALSE, !.readAfterSeek = FALSE,
                          !.playAfterSeek = FALSE]
<1>1. Good(c) /\ c.hasMedia /\ Steady(c)
  BY GoodIsSteady, ClearDriveStep, DriveStepGood
<1>. HIDE DEF c
<1>2. Good(SendAsync(c, Error)) /\ Good(SendAsync(c, Complete))
  BY <1>1, SendAsyncGood, NumbersFact
<1>3. Good(BeginReading(c, TRUE)) /\ Good(BeginPlaying(c, FALSE))
  BY <1>1, BeginReadingStep, BeginPlayingStep, DriveStepGood
<1>4. Good(d)
  <2>1. CASE ~ok
    BY <1>2, <2>1
  <2>2. CASE ok /\ c.readAfterSeek
    BY <1>3, <2>2
  <2>3. CASE ok /\ ~c.readAfterSeek /\ c.playAfterSeek
    BY <1>3, <2>3
  <2>4. CASE ok /\ ~c.readAfterSeek /\ ~c.playAfterSeek
    BY <1>2, <2>4
  <2>. QED
    BY <2>1, <2>2, <2>3, <2>4
<1>5. DoSeekComplete(s, ok) = e
  BY DEF DoSeekComplete, c
<1>. HIDE DEF d
<1>6. Steady(d) /\ d.motorOn \in BOOLEAN
  BY <1>4, GoodIsSteady DEF Steady, States
<1>7. e = [d EXCEPT !.setlocPending = FALSE, !.readAfterSeek = FALSE,
                    !.playAfterSeek = FALSE, !.motorOn = d.motorOn]
  BY <1>6 DEF Steady, States
<1>. HIDE DEF e
<1>8. DriveStep(e, d)
  BY <1>6, <1>7, PlanStep
<1>. QED
  BY <1>4, <1>5, <1>8, DriveStepGood

\* Reading ends, and the program is told.
LEMMA DataEndGood == ASSUME NEW s, Good(s) PROVE Good(StopReadingWithDataEnd(s))
<1>1. Good(SendAsync(ClearAsyncInterrupt(s), DataEnd))
  BY ClearAsyncGood, SendAsyncGood, NumbersFact
<1>. QED
  BY <1>1, GoodIsSteady, ClearDriveStep, DriveStepGood DEF StopReadingWithDataEnd

\* The ring turns: what is in the buffer the program is at grows older, unless it is this one.
LEMMA ProcessDataSectorGood == ASSUME NEW s, Good(s) PROVE Good(ProcessDataSector(s))
<1> DEFINE b == (s.writeBuffer + 1) % NumSectorBuffers
           t == [s EXCEPT !.writeBuffer = b, !.full = @ \union {b},
                          !.loaded = IF @ < NumSectorBuffers THEN @ + 1 ELSE @]
           l == IF s.loaded < NumSectorBuffers THEN s.loaded + 1 ELSE s.loaded
<1>1. /\ s \in States /\ s.writeBuffer \in Buffers /\ s.readBuffer \in Buffers
      /\ s.loaded \in Loads /\ s.full \subseteq Buffers
  BY DEF Good, Sound, Steady, States
<1>2. b \in Buffers /\ l \in Loads /\ l > 0
  <2>1. b \in Buffers
    BY <1>1, RingFact
  <2>2. l \in Loads /\ l > 0
    BY <1>1, CDROMAssumption DEF Loads
  <2>. QED
    BY <2>1, <2>2
<1>3. b = IF s.writeBuffer + 1 = NumSectorBuffers THEN 0 ELSE s.writeBuffer + 1
  BY <1>1, CDROMAssumption, RingNext DEF Buffers
<1>. HIDE DEF b
<1>4. /\ (b - b) % NumSectorBuffers = 0
      /\ (b - s.readBuffer) % NumSectorBuffers \in 0 .. NumSectorBuffers - 1
      /\ s.readBuffer # b => (b - s.readBuffer) % NumSectorBuffers = Distance(s, s.readBuffer) + 1
  <2>1. ASSUME NEW i \in Buffers, NEW j \in Buffers
        PROVE  (i - j) % NumSectorBuffers = IF i >= j THEN i - j ELSE i - j + NumSectorBuffers
    BY CDROMAssumption, RingDistance DEF Buffers
  <2>2. (b - b) % NumSectorBuffers = 0
    BY <1>2, <2>1 DEF Buffers
  <2>3. (b - s.readBuffer) % NumSectorBuffers =
          IF b >= s.readBuffer THEN b - s.readBuffer ELSE b - s.readBuffer + NumSectorBuffers
    BY <1>1, <1>2, <2>1
  <2>4. Distance(s, s.readBuffer) =
          IF s.writeBuffer >= s.readBuffer THEN s.writeBuffer - s.readBuffer
          ELSE s.writeBuffer - s.readBuffer + NumSectorBuffers
    BY <1>1, <2>1 DEF Distance
  <2>. QED
    BY <1>1, <1>2, <1>3, <2>2, <2>3, <2>4, CDROMAssumption DEF Buffers
<1>5. Distance(s, s.readBuffer) \in Int /\ s.loaded \in Int
  BY <1>1, RingFact DEF Distance, Buffers
<1>7. /\ t \in States
      /\ t.readBuffer = s.readBuffer /\ t.writeBuffer = b /\ t.full = s.full \union {b}
      /\ t.loaded = l
  BY <1>1, <1>2 DEF States
<1>8. SameCommand(t, s) /\ Drives(t) /\ Waits(t)
  BY DEF Good, Sound, Steady, States, SameCommand, Drives, Waits
<1>. HIDE DEF t
<1>9. InOrder(t)
  <2>1. s.readBuffer \in s.full => Distance(s, s.readBuffer) < s.loaded
    BY DEF Good, Sound, Steady, InOrder
  <2>2. s.readBuffer = b => Distance(t, t.readBuffer) < t.loaded
    BY <1>2, <1>4, <1>7 DEF Distance
  <2>3. s.readBuffer \in s.full /\ s.readBuffer # b => Distance(t, t.readBuffer) < t.loaded
    BY <1>1, <1>4, <1>5, <1>7, <2>1, CDROMAssumption DEF Distance, Loads
  <2>. QED
    BY <1>2, <1>7, <2>2, <2>3 DEF InOrder
<1>10. Good(t)
  BY <1>7, <1>8, <1>9, SameCommandKeeps DEF Steady
<1>11. ProcessDataSector(s) =
         SendAsync(IF t.pending # 0 THEN ClearAsyncInterrupt(t) ELSE t, DataReady)
  BY DEF ProcessDataSector, t, b
<1>. QED
  BY <1>10, <1>11, ClearAsyncGood, SendAsyncGood, NumbersFact

-----------------------------------------------------------------------------
(* Disc and console.                                                       *)

\* The disc is gone, and with it whatever was going on.
LEMMA RemoveMediaGood ==
  ASSUME NEW s, Good(s), NEW swap \in BOOLEAN PROVE Good(RemoveMedia(s, swap))
<1> DEFINE b == ClearDriveState([s EXCEPT !.hasMedia = FALSE, !.motorOn = FALSE])
           c == ClearCommandSecondResponse(EndCommand(b))
           d == SendAsync(IF c.pending # 0 THEN ClearAsyncInterrupt(c) ELSE c, Error)
<1>1. Steady(b)
  BY ZenonT(60), NamesFact
     DEF Good, Sound, Steady, States, Drives, Waits, InOrder, Distance, ClearDriveState
<1>. HIDE DEF b
<1>2. Good(c)
  BY <1>1, EndCommandGood, ClearSecondGood
<1>. HIDE DEF c
<1>3. Good(d)
  BY <1>2, ClearAsyncGood, SendAsyncGood, NumbersFact
<1>. HIDE DEF d
<1>4. Good(SetDriveState(d, "ShellOpening"))
  BY <1>3, GoodIsSteady, SetDriveStep, DriveStepGood, NamesFact
<1>. QED
  BY <1>3, <1>4 DEF RemoveMedia, b, c, d

LEMMA InsertMediaGood == ASSUME NEW s, Good(s) PROVE Good(InsertMedia(s))
<1> DEFINE c == IF CanReadMedia(s) THEN RemoveMedia(s, TRUE) ELSE s
           d == IF c.driveState # "ShellOpening" THEN StartMotor(c) ELSE c
<1>1. Good(c)
  BY RemoveMediaGood
<1>. HIDE DEF c
<1>2. Good(d)
  BY <1>1, GoodIsSteady, StartMotorStep, DriveStepGood
<1>. HIDE DEF d
<1>3. Good([d EXCEPT !.hasMedia = TRUE])
  <2> DEFINE t == [d EXCEPT !.hasMedia = TRUE]
  <2>1. /\ t \in States /\ SameCommand(t, d) /\ t.hasMedia
        /\ t.driveState = d.driveState /\ t.driveEvent = d.driveEvent
        /\ t.readBuffer = d.readBuffer /\ t.writeBuffer = d.writeBuffer
        /\ t.full = d.full /\ t.loaded = d.loaded
    BY <1>2 DEF Good, Sound, Steady, States, SameCommand
  <2>. HIDE DEF t
  <2>2. Drives(t) /\ Waits(t) /\ InOrder(t)
    BY <1>2, <2>1 DEF Good, Sound, Steady, Drives, Waits, InOrder, Distance, SameCommand
  <2>. QED
    BY <1>2, <2>1, <2>2, SameCommandKeeps DEF Steady, t
<1>. QED
  BY <1>3 DEF InsertMedia, c, d

\* A reset drive is idle, its buffers are empty and nothing waits.
LEMMA ResetDriveSteady ==
  ASSUME NEW s, Steady(s)
  PROVE  /\ Steady(ResetDrive(s))
         /\ ResetDrive(s).pending = 0 /\ ResetDrive(s).asyncResponse = <<>>
         /\ ResetDrive(s).secondResponse = "None" /\ ResetDrive(s).flag = s.flag
         /\ ResetDrive(s).command = s.command /\ ResetDrive(s).commandEvent = s.commandEvent
<1> DEFINE c == ClearDriveState(ClearCommandSecondResponse(s))
<1>1. /\ Steady(c) /\ c.driveState = "Idle" /\ c.secondResponse = "None"
      /\ c.flag = s.flag /\ c.command = s.command /\ c.commandEvent = s.commandEvent
  BY NamesFact
     DEF Steady, States, Drives, Waits, InOrder, Distance, ClearDriveState,
         ClearCommandSecondResponse
<1>2. CanReadMedia(c) \in BOOLEAN
  BY <1>1 DEF CanReadMedia, Steady, States
<1>. HIDE DEF c
<1> DEFINE r == [c EXCEPT !.motorOn = CanReadMedia(c), !.pending = 0, !.asyncResponse = <<>>,
               !.setlocPending = FALSE, !.readAfterSeek = FALSE, !.playAfterSeek = FALSE,
               !.readBuffer = 0, !.writeBuffer = 0, !.full = {}, !.loaded = NumSectorBuffers]
<1>3. r \in States
  BY ZenonT(60), <1>1, <1>2, RingFact, NumbersFact, ResponsesFact DEF Steady, States
<1>4. /\ r.driveState = c.driveState /\ r.driveEvent = c.driveEvent /\ r.hasMedia = c.hasMedia
      /\ r.pending = 0 /\ r.asyncResponse = <<>> /\ r.full = {} /\ r.flag = c.flag
      /\ r.command = c.command /\ r.commandEvent = c.commandEvent
      /\ r.secondResponse = c.secondResponse
  BY <1>1 DEF Steady, States
<1>5. ResetDrive(s) = r
  BY DEF ResetDrive, c
<1>. HIDE DEF r
<1>6. Drives(r) /\ Waits(r) /\ InOrder(r)
  BY <1>1, <1>4 DEF Steady, Drives, Waits, InOrder
<1>. QED
  BY <1>1, <1>3, <1>4, <1>5, <1>6 DEF Steady

LEMMA SoftResetSteady ==
  ASSUME NEW s, Steady(s), NEW away \in BOOLEAN
  PROVE  /\ Steady(SoftReset(s, away)) /\ SoftReset(s, away).flag = s.flag
         /\ SoftReset(s, away).command = s.command
<1> DEFINE c == ResetDrive(s)
<1>1. Steady(c) /\ c.flag = s.flag /\ c.command = s.command
  BY ResetDriveSteady
<1>. HIDE DEF c
<1>2. \A state \in {"SeekingImplicit", "ChangingSpeedOrTOCRead"} :
         c.hasMedia => DriveStep(SetDriveState(c, state), c)
  BY <1>1, NamesFact, SetDriveStep
<1>. QED
  BY <1>1, <1>2 DEF SoftReset, DriveStep, SameCommand, c

-----------------------------------------------------------------------------
(* The invariant, action by action.                                        *)

Inv == Good(Now)

LEMMA BecomeGood == ASSUME NEW s, Good(s), Become(s) PROVE Inv'
<1>1. s \in States
  BY DEF Good, Sound, Steady
<1>2. Now' = s
  BY <1>1 DEF Become, Now, States
<1>. QED
  BY <1>2 DEF Inv

\* The controller starts idle, without a disc.
THEOREM InitGood == Init => Inv
<1>. SUFFICES ASSUME Init PROVE Inv
  OBVIOUS
<1>1. Now \in States
  BY NamesFact, NumbersFact, ResponsesFact, RingFact DEF Init, Now, States
<1>2. Drives(Now) /\ Waits(Now) /\ InOrder(Now) /\ InTime(Now) /\ HasEvent(Now)
  BY NamesFact DEF Init, Now, Drives, Waits, InOrder, InTime, HasEvent
<1>. QED
  BY <1>1, <1>2 DEF Inv, Good, Sound, Steady

\* What a command that is executed may rely on, and what it answers.
LEMMA Executing ==
  ASSUME Inv, NEW ok
  PROVE  /\ Good(Now) /\ Steady(Now)
         /\ Steady(Answer(Now, ok))
         /\ Answer(Now, ok).hasMedia = hasMedia
         /\ Answer(Now, ok).driveState = driveState
         /\ driveState \in OnDisc => hasMedia
         /\ motorOn \in BOOLEAN /\ setlocPending \in BOOLEAN
<1>1. Good(Now) /\ Sound(Now) /\ Steady(Now)
  BY GoodIsSteady DEF Inv
<1>2. /\ Sound(Answer(Now, ok)) /\ Answer(Now, ok).hasMedia = Now.hasMedia
      /\ Answer(Now, ok).driveState = Now.driveState
  BY <1>1, AnswerSound
<1>3. Now.hasMedia = hasMedia /\ Now.driveState = driveState
  BY DEF Now
<1>4. driveState \in OnDisc => hasMedia
  BY <1>1, <1>3 DEF Steady, Drives
<1>5. motorOn \in BOOLEAN /\ setlocPending \in BOOLEAN
  BY <1>1 DEF Steady, States, Now
<1>. QED
  BY <1>1, <1>2, <1>3, <1>4, <1>5 DEF Sound

LEMMA RejectParametersGood == Inv /\ RejectParameters => Inv'
BY Executing, EndCommandGood, BecomeGood DEF RejectParameters

LEMMA GetstatGood == Inv /\ Getstat => Inv'
<1>. SUFFICES ASSUME Inv, NEW ok \in BOOLEAN, NEW motor \in {motorOn, TRUE},
                     Become(EndCommand([Answer(Now, ok) EXCEPT !.motorOn = motor]))
              PROVE  Inv'
  BY DEF Getstat
<1>1. Steady([Answer(Now, ok) EXCEPT !.motorOn = motor])
  BY Executing, MotorStep DEF DriveStep
<1>. QED
  BY <1>1, EndCommandGood, BecomeGood

LEMMA SetlocGood == Inv /\ Setloc => Inv'
<1>. SUFFICES ASSUME Inv, Setloc PROVE Inv'
  OBVIOUS
<1>1. Steady([Answer(Now, TRUE) EXCEPT !.setlocPending = TRUE])
  BY Executing, SetlocStep DEF DriveStep
<1>. QED
  BY <1>1, EndCommandGood, BecomeGood DEF Setloc

LEMMA SetmodeGood == Inv /\ Setmode => Inv'
<1>. SUFFICES ASSUME Inv, Setmode PROVE Inv'
  OBVIOUS
<1>1. Good(EndCommand(Answer(Now, TRUE)))
  BY Executing, EndCommandGood
<1> DEFINE s == EndCommand(Answer(Now, TRUE))
<1>. HIDE DEF s
<1>2. Good(s) /\ s.command = "None" /\ s.commandEvent = FALSE
  <2>1. s.command = "None" /\ s.commandEvent = FALSE
    BY Executing DEF s, EndCommand, Steady, States
  <2>. QED
    BY <1>1, <2>1 DEF s
<1>3. \A early \in BOOLEAN : Good(ChangeSpeed(s, early))
  <2>. TAKE early \in BOOLEAN
  <2>1. DriveStep(ChangeSpeed(s, early), s)
    <3>1. Steady(s) /\ DriveStep(s, s)
      BY <1>2, GoodIsSteady DEF DriveStep, SameCommand
    <3>2. /\ DriveStep(ClearDriveState(s), s)
          /\ DriveStep(SetDriveState(s, "ChangingSpeedOrTOCRead"), s)
      BY <3>1, ClearDriveStep, SetDriveStep, NamesFact
    <3>3. CASE s.driveState = "ChangingSpeedOrTOCRead"
      BY <3>1, <3>2, <3>3 DEF ChangeSpeed
    <3>4. CASE s.driveState = "Idle"
      BY <3>2, <3>4 DEF ChangeSpeed
    <3>5. CASE s.driveState \notin {"ChangingSpeedOrTOCRead", "Idle"}
      BY <3>1, <3>5 DEF ChangeSpeed
    <3>. QED
      BY <3>3, <3>4, <3>5
  <2>. QED
    BY <1>2, <2>1, DriveStepGood
<1>. QED
  BY <1>2, <1>3, BecomeGood DEF Setmode, s

LEMMA QueueSteady ==
  ASSUME NEW s, Steady(s), NEW c \in SecondResponses
  PROVE  Steady(QueueCommandSecondResponse(s, c))
BY DEF Steady, States, Drives, Waits, InOrder, Distance, QueueCommandSecondResponse

LEMMA AskDiscGood == Inv /\ AskDisc => Inv'
<1>. SUFFICES ASSUME Inv, AskDisc PROVE Inv'
  OBVIOUS
<1>1. command \in SecondResponses
  BY DEF AskDisc, SecondResponses
<1>2. /\ Good(EndCommand(QueueCommandSecondResponse(Answer(Now, TRUE), command)))
      /\ Good(EndCommand(Answer(Now, FALSE)))
  BY <1>1, Executing, QueueSteady, EndCommandGood
<1>. QED
  BY <1>2, BecomeGood DEF AskDisc

LEMMA SeekCommandGood == Inv /\ SeekCommand => Inv'
<1>. SUFFICES ASSUME Inv, SeekCommand PROVE Inv'
  OBVIOUS
<1>1. CanReadMedia(Now) => hasMedia
  BY DEF CanReadMedia, Now
<1>2. hasMedia => Steady(BeginSeeking(Answer(Now, TRUE), command = "SeekL", FALSE, FALSE))
  BY Executing, BeginSeekingStep DEF DriveStep
<1>3. /\ hasMedia =>
           Good(EndCommand(BeginSeeking(Answer(Now, TRUE), command = "SeekL", FALSE, FALSE)))
      /\ Good(EndCommand(Answer(Now, FALSE)))
  BY <1>2, Executing, EndCommandGood
<1>. QED
  BY <1>1, <1>3, BecomeGood DEF SeekCommand

LEMMA SetSessionGood == Inv /\ SetSession => Inv'
<1>. SUFFICES ASSUME Inv, SetSession PROVE Inv'
  OBVIOUS
<1>1. Steady(SetDriveState(Answer(Now, TRUE), "ChangingSession"))
  BY Executing, SetDriveStep, NamesFact DEF DriveStep
<1>2. /\ Good(EndCommand(SetDriveState(Answer(Now, TRUE), "ChangingSession")))
      /\ Good(EndCommand(Answer(Now, FALSE)))
  BY <1>1, Executing, EndCommandGood
<1>. QED
  BY <1>2, BecomeGood DEF SetSession

LEMMA ReadNGood == Inv /\ ReadN => Inv'
<1>. SUFFICES ASSUME Inv, ReadN PROVE Inv'
  OBVIOUS
<1> DEFINE s == Answer(Now, TRUE)
<1>1. Good(EndCommand(Answer(Now, FALSE)))
  BY Executing, EndCommandGood
<1>2. Good(EndCommand([s EXCEPT !.setlocPending = FALSE]))
  BY Executing, SetlocStep, EndCommandGood DEF DriveStep
<1>3. CanReadMedia(Now) => Good(EndCommand(BeginReading(s, FALSE)))
  <2>1. CanReadMedia(Now) => hasMedia
    BY DEF CanReadMedia, Now
  <2>. QED
    BY <2>1, Executing, BeginReadingStep, EndCommandGood DEF DriveStep
<1>. QED
  BY <1>1, <1>2, <1>3, BecomeGood DEF ReadN

LEMMA PlayGood == Inv /\ Play => Inv'
<1>. SUFFICES ASSUME Inv, Play PROVE Inv'
  OBVIOUS
<1> DEFINE s == Answer(Now, TRUE)
<1>1. Good(EndCommand(Answer(Now, FALSE))) /\ Good(EndCommand(s))
  BY Executing, EndCommandGood
<1>2. CanReadMedia(Now) => \A track \in BOOLEAN : Good(EndCommand(BeginPlaying(s, track)))
  <2>1. CanReadMedia(Now) => hasMedia
    BY DEF CanReadMedia, Now
  <2>. QED
    BY <2>1, Executing, BeginPlayingStep, EndCommandGood DEF DriveStep
<1>. QED
  BY <1>1, <1>2, BecomeGood DEF Play

LEMMA PauseGood == Inv /\ Pause => Inv'
<1>. SUFFICES ASSUME Inv, Pause PROVE Inv'
  OBVIOUS
<1> DEFINE s == ClearDriveState(Answer(Now, TRUE))
           t == IF driveState \in {"SeekingLogical", "SeekingPhysical"}
                THEN [s EXCEPT !.readAfterSeek = FALSE, !.playAfterSeek = FALSE] ELSE s
<1>1. Steady(s)
  BY Executing, ClearDriveStep DEF DriveStep
<1>. HIDE DEF s
<1>2. Steady(t)
  BY <1>1, SeekForNothingStep DEF DriveStep
<1>. HIDE DEF t
<1>3. Good(EndCommand(QueueCommandSecondResponse(t, "Pause")))
  BY <1>2, QueueSteady, EndCommandGood DEF SecondResponses
<1>. QED
  BY <1>3, BecomeGood DEF Pause, s, t

LEMMA StopGood == Inv /\ Stop => Inv'
<1>. SUFFICES ASSUME Inv, Stop PROVE Inv'
  OBVIOUS
<1>1. Steady(StopMotor(Answer(Now, TRUE)))
  BY Executing, StopMotorStep DEF DriveStep
<1>2. Good(EndCommand(QueueCommandSecondResponse(StopMotor(Answer(Now, TRUE)), "Stop")))
  BY <1>1, QueueSteady, EndCommandGood DEF SecondResponses
<1>. QED
  BY <1>2, BecomeGood DEF Stop

LEMMA MotorOnGood == Inv /\ MotorOn => Inv'
<1>. SUFFICES ASSUME Inv, MotorOn PROVE Inv'
  OBVIOUS
<1> DEFINE s == Answer(Now, ~motorOn)
           t == IF CanReadMedia(Now) THEN StartMotor(s) ELSE s
<1>1. Steady(s)
  BY Executing
<1>. HIDE DEF s
<1>2. Steady(t)
  BY <1>1, StartMotorStep DEF DriveStep
<1>. HIDE DEF t
<1>3. Good(EndCommand(s)) /\ Good(EndCommand(QueueCommandSecondResponse(t, "MotorOn")))
  BY <1>1, <1>2, QueueSteady, EndCommandGood DEF SecondResponses
<1>. QED
  BY <1>3, BecomeGood DEF MotorOn, s, t

\* Reset is not ended: it waits for its own second response, with its interrupt before it.
LEMMA ResetGood == Inv /\ Reset => Inv'
<1>. SUFFICES ASSUME Inv, Reset PROVE Inv'
  OBVIOUS
<1>1. Good(EndCommand(Answer(Now, TRUE)))
  BY Executing, EndCommandGood
<1>2. ASSUME NEW away \in BOOLEAN
      PROVE  Good(QueueCommandSecondResponse(SoftReset(Answer(Now, TRUE), away), "Reset"))
  <2> DEFINE s == Answer(Now, TRUE)
             t == SoftReset(s, away)
  <2>1. Steady(s) /\ s.flag # 0 /\ s.command = "Reset"
    <3>1. command = "Reset" /\ Now.command = command
      BY DEF Reset, Executes, Now
    <3>. QED
      BY <3>1, Executing, AnswerSound, GoodIsSteady, NumbersFact
  <2>. HIDE DEF s
  <2>2. Steady(t) /\ t.flag # 0 /\ t.command = "Reset"
    BY <2>1, SoftResetSteady
  <2>. HIDE DEF t
  <2>3. /\ QueueCommandSecondResponse(t, "Reset").secondResponse = "Reset"
        /\ QueueCommandSecondResponse(t, "Reset").command = "Reset"
        /\ QueueCommandSecondResponse(t, "Reset").flag # 0
    BY <2>2 DEF QueueCommandSecondResponse, Steady, States
  <2>4. Steady(QueueCommandSecondResponse(t, "Reset"))
    BY <2>2, QueueSteady DEF SecondResponses
  <2>. QED
    BY <2>3, <2>4 DEF Good, Sound, InTime, HasEvent, s, t
<1>. QED
  BY <1>1, <1>2, BecomeGood DEF Reset

\* Every command, with every parameter.
LEMMA ExecuteCommandGood == Inv /\ ExecuteCommand => Inv'
BY RejectParametersGood, GetstatGood, SetlocGood, SetmodeGood, AskDiscGood, SeekCommandGood,
   SetSessionGood, ReadNGood, PlayGood, PauseGood, StopGood, MotorOnGood, ResetGood
   DEF ExecuteCommand

\* The second response of a command (ExecuteCommandSecondResponse).
LEMMA SecondResponseGood == Inv /\ ExecuteCommandSecondResponse => Inv'
<1>. SUFFICES ASSUME Inv, ExecuteCommandSecondResponse PROVE Inv'
  OBVIOUS
<1> DEFINE done == ClearCommandSecondResponse(Now)
<1>1. Good(done) /\ Steady(done)
  BY ClearSecondGood, GoodIsSteady DEF Inv
<1>. HIDE DEF done
<1>2. CanReadMedia(Now) \in BOOLEAN
  BY Executing DEF CanReadMedia, Steady, States
<1>3. Good([done EXCEPT !.motorOn = CanReadMedia(Now)])
  BY <1>1, <1>2, MotorStep, DriveStepGood
<1>4. \A i \in {Complete, Error} :
        /\ Good(SendAsyncOnly([done EXCEPT !.motorOn = CanReadMedia(Now)], i))
        /\ Good(SendAsyncOnly(done, i)) /\ Good(SendAsync(done, i))
  BY <1>1, <1>3, SendAsyncGood, NumbersFact
<1>5. CASE secondResponse = "GetID"
  <2>1. PICK ok \in {CanReadMedia(Now), FALSE} :
          Become(SendAsyncOnly([done EXCEPT !.motorOn = CanReadMedia(Now)],
                               IF ok THEN Complete ELSE Error))
    BY <1>5 DEF ExecuteCommandSecondResponse, done
  <2>. QED
    BY <1>4, <2>1, BecomeGood
<1>6. CASE secondResponse # "GetID"
  <2>1. Become(IF CanReadMedia(Now) THEN SendAsyncOnly(done, Complete) ELSE SendAsync(done, Error))
    BY <1>6 DEF ExecuteCommandSecondResponse, done
  <2>. QED
    BY <1>4, <2>1, BecomeGood
<1>. QED
  BY <1>5, <1>6

LEMMA ShellOpenGood == Inv /\ DoShellOpenComplete => Inv'
<1>. SUFFICES ASSUME Inv, DoShellOpenComplete PROVE Inv'
  OBVIOUS
<1> DEFINE s == ClearDriveState(Now)
<1>1. Good(s) /\ Steady(s)
  BY Executing, ClearDriveStep, DriveStepGood
<1>. HIDE DEF s
<1>2. Good(StartMotor(s))
  BY <1>1, StartMotorStep, DriveStepGood
<1>. QED
  BY <1>1, <1>2, BecomeGood DEF DoShellOpenComplete, s

LEMMA SeekEndsGood == Inv /\ SeekEnds => Inv'
<1>. SUFFICES ASSUME Inv, NEW ok \in BOOLEAN, driveState \in {"SeekingPhysical", "SeekingLogical"},
                     Become(DoSeekComplete(Now, ok))
              PROVE  Inv'
  BY DEF SeekEnds, DriveIn
<1>1. Now.hasMedia
  <2>1. driveState \in OnDisc
    BY NamesFact
  <2>. QED
    BY <2>1, Executing DEF Now
<1>. QED
  BY <1>1, Executing, DoSeekCompleteGood, BecomeGood

LEMMA DriveIdlesGood ==
  Inv /\ (ImplicitSeekEnds \/ DoSpeedChangeOrImplicitTOCReadComplete) => Inv'
BY Executing, ClearDriveStep, DriveStepGood, BecomeGood
   DEF ImplicitSeekEnds, DoSpeedChangeOrImplicitTOCReadComplete

LEMMA MotorRunsGood == Inv /\ (DoChangeSessionComplete \/ DoSpinUpComplete) => Inv'
<1>. SUFFICES ASSUME Inv, DoChangeSessionComplete \/ DoSpinUpComplete PROVE Inv'
  OBVIOUS
<1> DEFINE s == [ClearDriveState(Now) EXCEPT !.motorOn = TRUE]
<1>1. Good(ClearDriveState(Now)) /\ Steady(ClearDriveState(Now))
  BY Executing, ClearDriveStep, DriveStepGood
<1>2. Good(s)
  BY <1>1, MotorStep, DriveStepGood
<1>. HIDE DEF s
<1>3. \A i \in {Complete, Error} : Good(SendAsyncOnly(s, i))
  BY <1>2, SendAsyncGood, NumbersFact
<1>. QED
  BY <1>2, <1>3, BecomeGood DEF DoChangeSessionComplete, DoSpinUpComplete, s

LEMMA SectorReadGood == Inv /\ DoSectorRead => Inv'
<1>. SUFFICES ASSUME Inv, DoSectorRead PROVE Inv'
  OBVIOUS
<1> DEFINE on == [Now EXCEPT !.motorOn = TRUE]
<1>1. Good(on)
  BY Executing, MotorStep, DriveStepGood
<1>. HIDE DEF on
<1>2. /\ Good(StopReadingWithDataEnd(on)) /\ Good(ProcessDataSector(on))
      /\ Good(SendAsync(ClearAsyncInterrupt(on), DataReady))
  BY <1>1, DataEndGood, ProcessDataSectorGood, ClearAsyncGood, SendAsyncGood, NumbersFact
<1>3. Good(StopMotor(StopReadingWithDataEnd(on)))
  BY <1>2, StopMotorStep, DriveStepGood, GoodIsSteady
<1>. QED
  BY <1>1, <1>2, <1>3, BecomeGood DEF DoSectorRead, on

\* Every end of what the drive does (ExecuteDrive).
LEMMA ExecuteDriveGood == Inv /\ ExecuteDrive => Inv'
BY ShellOpenGood, SeekEndsGood, DriveIdlesGood, MotorRunsGood, SectorReadGood DEF ExecuteDrive

LEMMA WriteCommandGood == ASSUME Inv, NEW c \in Commands, WriteCommand(c) PROVE Inv'
BY BeginCommandGood, BecomeGood DEF Inv, WriteCommand

\* Bits of the flag register are only cleared.
LEMMA FlagsLeftFact ==
  ASSUME NEW f \in Flags, NEW left \in FlagsLeft[f]
  PROVE  left \in Flags /\ (f = 0 => left = 0)
<1>1. Flags = 0 .. 5
  BY DEF Flags, Interrupts
<1>2. FlagsLeft[f] \subseteq 0 .. f
  BY <1>1 DEF FlagsLeft
<1>. QED
  BY <1>1, <1>2

\* Acknowledging an interrupt gives the next one its turn, or the command.
LEMMA AcknowledgeGood ==
  ASSUME Inv, NEW left \in FlagsLeft[flag], AcknowledgeInterrupt(left) PROVE Inv'
<1> DEFINE s == [Now EXCEPT !.flag = left]
<1>1. /\ flag \in Flags /\ Good(Now)
      /\ Now.flag = flag /\ Now.pending = pending
  BY DEF Inv, Good, Sound, Steady, States, Now
<1>2. left \in Flags /\ (flag = 0 => left = 0)
  BY <1>1, FlagsLeftFact
<1>3. /\ s \in States /\ Drives(s) /\ InTime(s) /\ InOrder(s)
      /\ s.pending = pending /\ s.flag = left /\ s.asyncResponse = Now.asyncResponse
      /\ s.command = Now.command /\ s.commandEvent = Now.commandEvent
  <2>. HIDE DEF Now
  <2>. QED
    BY <1>1, <1>2 DEF Good, Sound, Steady, States, Drives, InTime, InOrder, Distance
<1>4. Become(CASE left = 0 /\ pending # 0 -> DeliverAsyncInterrupt(s)
               [] left = 0 /\ pending = 0 -> UpdateCommandEvent(s)
               [] OTHER -> s)
  BY DEF AcknowledgeInterrupt
<1>. HIDE DEF s
<1>5. CASE left = 0 /\ pending # 0
  <2>1. Become(DeliverAsyncInterrupt(s))
    BY <1>4, <1>5
  <2>. QED
    BY <1>3, <1>5, <2>1, DeliverGood, BecomeGood
<1>6. CASE left = 0 /\ pending = 0
  <2>1. Become(UpdateCommandEvent(s))
    BY <1>4, <1>6
  <2>2. Waits(s)
    BY <1>1, <1>3, <1>6 DEF Good, Sound, Steady, Waits
  <2>3. Sound(s)
    BY <1>3, <2>2 DEF Sound, Steady
  <2>. QED
    BY <2>1, <2>3, UpdateCommandEventGood, BecomeGood
<1>7. CASE left # 0
  <2>1. Become(s)
    BY <1>4, <1>7
  <2>2. Waits(s) /\ HasEvent(s)
    BY <1>1, <1>2, <1>3, <1>7 DEF Good, Sound, Steady, Waits, HasEvent
  <2>3. Good(s)
    BY <1>3, <2>2 DEF Good, Sound, Steady
  <2>. QED
    BY <2>1, <2>3, BecomeGood
<1>. QED
  BY <1>5, <1>6, <1>7

\* Once the newest sector is loaded its buffer is empty.
LEMMA LoadDataFIFOGood == Inv /\ LoadDataFIFO => Inv'
<1>. SUFFICES ASSUME Inv, LoadDataFIFO PROVE Inv'
  OBVIOUS
<1> DEFINE s == LoadSector(Now)
<1>1. /\ Now \in States /\ Good(Now)
      /\ Now.readBuffer = readBuffer /\ Now.writeBuffer = writeBuffer
      /\ Now.full = full /\ Now.loaded = loaded
      /\ readBuffer \in Buffers /\ writeBuffer \in Buffers
  BY DEF Inv, Good, Sound, Steady, States, Now
<1>2. Age(readBuffer) \in Loads /\ Age(readBuffer) \in Buffers
  BY <1>1, RingFact DEF Age
<1>3. readBuffer # writeBuffer => Age(readBuffer) > 0
  <2>1. Age(readBuffer) = IF writeBuffer >= readBuffer THEN writeBuffer - readBuffer
                          ELSE writeBuffer - readBuffer + NumSectorBuffers
    BY <1>1, CDROMAssumption, RingDistance DEF Buffers, Age
  <2>. QED
    BY <1>1, <2>1, CDROMAssumption DEF Buffers
<1>4. /\ s \in States
      /\ s.readBuffer = readBuffer /\ s.writeBuffer = writeBuffer
      /\ s.full = full \ {readBuffer}
      /\ s.loaded = IF readBuffer \in full THEN Age(readBuffer) ELSE loaded
      /\ SameCommand(s, Now) /\ s.driveState = Now.driveState /\ s.driveEvent = Now.driveEvent
      /\ s.hasMedia = Now.hasMedia
  <2>. HIDE DEF Now, Age
  <2>. QED
    BY <1>1, <1>2 DEF LoadSector, States, SameCommand
<1>5. InOrder(s)
  BY <1>1, <1>3, <1>4 DEF Good, Sound, Steady, InOrder
<1>6. Drives(s) /\ Waits(s)
  BY <1>1, <1>4 DEF Good, Sound, Steady, Drives, Waits, SameCommand
<1>7. Good(s)
  BY <1>1, <1>4, <1>5, <1>6, SameCommandKeeps DEF Steady
<1>. HIDE DEF s
<1>8. Become(IF s.writeBuffer \in s.full THEN SendAsync(s, DataReady) ELSE s)
  BY DEF LoadDataFIFO, s
<1>. QED
  BY <1>7, <1>8, SendAsyncGood, NumbersFact, BecomeGood

\* The events that are made up again are those that were active (DoState).
LEMMA LoadStateGood == Inv /\ LoadState => Inv'
<1>. SUFFICES ASSUME Inv, LoadState PROVE Inv'
  OBVIOUS
<1> DEFINE s == UpdateCommandEvent(Now)
           t == [s EXCEPT !.driveEvent = driveState # "Idle"]
<1>1. Good(s) /\ s.driveEvent = (driveState # "Idle")
  <2>1. Good(s)
    BY GoodIsSteady, UpdateCommandEventGood DEF Inv
  <2>2. s.driveState = driveState
    BY DEF UpdateCommandEvent, Now
  <2>. QED
    BY <2>1, <2>2 DEF Good, Sound, Steady, Drives, States
<1>. HIDE DEF s
<1>2. t = s
  BY <1>1 DEF Good, Sound, Steady, States
<1>3. Become(t)
  BY DEF LoadState, s
<1>. QED
  BY <1>1, <1>2, <1>3, BecomeGood

LEMMA ConsoleResetGood == Inv /\ Become([ResetDrive(EndCommand(Now)) EXCEPT !.flag = 0]) => Inv'
<1>. SUFFICES ASSUME Inv, Become([ResetDrive(EndCommand(Now)) EXCEPT !.flag = 0]) PROVE Inv'
  OBVIOUS
<1> DEFINE e == EndCommand(Now)
           s == ResetDrive(e)
<1>1. Steady(e) /\ e.command = "None" /\ e.commandEvent = FALSE
  <2>1. e.command = "None" /\ e.commandEvent = FALSE
    BY DEF EndCommand, Now
  <2>. QED
    BY <2>1, Executing, EndCommandGood, GoodIsSteady
<1>. HIDE DEF e
<1>2. /\ Steady(s) /\ s.pending = 0 /\ s.asyncResponse = <<>>
      /\ s.command = "None" /\ s.commandEvent = FALSE
  BY <1>1, ResetDriveSteady
<1>. HIDE DEF s
<1>3. Good([s EXCEPT !.flag = 0])
  BY <1>2, NumbersFact
     DEF Good, Sound, Steady, States, Drives, Waits, HasEvent, InTime, InOrder, Distance
<1>. QED
  BY <1>3, BecomeGood DEF e, s

\* Every step keeps the invariant.
LEMMA NextGood == Inv /\ [Next]_vars => Inv'
<1>. SUFFICES ASSUME Inv, [Next]_vars PROVE Inv'
  OBVIOUS
<1>1. CASE Program
  BY <1>1, WriteCommandGood, AcknowledgeGood, LoadDataFIFOGood DEF Program
<1>2. CASE User
  <2>1. Good(InsertMedia(Now)) /\ \A swap \in BOOLEAN : Good(RemoveMedia(Now, swap))
    BY InsertMediaGood, RemoveMediaGood DEF Inv
  <2>. QED
    BY <1>2, <2>1, BecomeGood, LoadStateGood, ConsoleResetGood DEF User
<1>3. CASE UNCHANGED vars
  BY <1>3 DEF vars, commandVars, driveVars, interruptVars, bufferVars, Inv, Now
<1>. QED
  BY <1>1, <1>2, <1>3, ExecuteCommandGood, SecondResponseGood, ExecuteDriveGood DEF Next

\* The inductive invariant holds in every reachable state.
THEOREM Invariance == Spec => []Inv
<1>. QED
  BY InitGood, NextGood, PTL DEF Spec

-----------------------------------------------------------------------------
(* What the invariant gives.                                               *)

\* Registers, states and buffer numbers stay in the ranges the code declares.
THEOREM TypeCorrect == Spec => []TypeOK
<1>1. Inv => TypeOK
  BY DEF Inv, Good, Sound, Steady, States, Now, TypeOK, CommandNames, SecondResponses, Flags,
         Responses, Loads
<1>. QED
  BY <1>1, Invariance, PTL

\* The drive has its event exactly as long as it is busy, and is on the disc only while there is
\* one (SetDriveState, ClearDriveState, and a dozen places that use one of them).
THEOREM DriveAlwaysGoesOn == Spec => []DriveGoesOn
<1>1. Inv => DriveGoesOn
  BY DEF Inv, Good, Sound, Steady, Drives, Now, DriveGoesOn
<1>. QED
  BY <1>1, Invariance, PTL

\* An interrupt that waits has one in front of it, a command that waits an interrupt or its
\* event (SetAsyncInterrupt, DeliverAsyncInterrupt, UpdateCommandEvent).
THEOREM NothingIsForgotten == Spec => []NothingForgotten
<1>1. Inv => NothingForgotten
  BY DEF Inv, Good, Sound, Steady, Waits, HasEvent, Now, NothingForgotten
<1>. QED
  BY <1>1, Invariance, PTL

\* No command but Reset is executed over an unacknowledged interrupt (UpdateCommandEvent).
THEOREM CommandsAlwaysWait == Spec => []CommandsWait
<1>1. Inv => CommandsWait
  BY DEF Inv, Good, HasEvent, Now, CommandsWait
<1>. QED
  BY <1>1, Invariance, PTL

\* The response that waits ends with that of the interrupt that waits, however interrupts are
\* set, replaced, withdrawn and dropped (SetAsyncInterrupt, ClearAsyncInterrupt).
THEOREM ResponsesMatch == Spec => []ResponseIsForPending
<1>1. Inv => ResponseIsForPending
  BY DEF Inv, Good, Sound, Steady, Waits, Now, ResponseIsForPending, Last
<1>. QED
  BY <1>1, Invariance, PTL

\* A second response never comes while another command waits (BeginCommand).
THEOREM SecondResponsesInTime == Spec => []NoLateSecondResponse
<1>1. Inv => NoLateSecondResponse
  BY DEF Inv, Good, Sound, InTime, Now, NoLateSecondResponse
<1>. QED
  BY <1>1, Invariance, PTL

\* Sectors reach the program in order and none twice, for any number of buffers: the one it will
\* load next came in after the one it loaded last (ProcessDataSector, DeliverAsyncInterrupt,
\* LoadDataFIFO).
THEOREM SectorsInOrder == Spec => []SectorsAdvance
<1>1. Inv => SectorsAdvance
  BY DEF Inv, Good, Sound, Steady, InOrder, Distance, Now, SectorsAdvance, Age
<1>. QED
  BY <1>1, Invariance, PTL
=============================================================================
