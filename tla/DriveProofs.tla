---------------------------- MODULE DriveProofs ----------------------------
(***************************************************************************)
(* For bytes of every width and any set of positions of the hands: the     *)
(* handshake with the pad works, and what the gamepad thread publishes is  *)
(* what the pad sent, also while the motor thread and the clock run        *)
(* between its steps.                                                      *)
(***************************************************************************)
EXTENDS Drive, WellFoundedInduction, TLAPS

Bytes == [KeyByte \cup StickByte -> Byte]

(* The last two polls are answers of a pad.                                *)
WireOK == wire \in Bytes \X Bytes

(* Nothing is published before the first poll.                             *)
QuietSetup == pc = "setup" => Data = wire[2] /\ PS2_KEY = 0 /\ beep_value = 0

(* PadReady begins when the configuration ends. While it goes on, a pad    *)
(* that was there from the start has taken in what was sent to it so far:  *)
(* it is in configuration mode from the fourth transaction to the seventh, *)
(* and in locked analog mode from the fifth on.                            *)
Handshake ==
    pad.loyal => /\ pad.present
                 /\ pc = "setup" => /\ pad.config <=> step \in 5 .. 7
                                    /\ step >= 6 => pad.analog /\ pad.locked

IInv == TypeOK /\ WireOK /\ QuietSetup /\ Handshake /\ PadReady /\ PublishesThePoll

----------------------------------------------------------------------------
(* A set of natural numbers that is not empty has a least element, which   *)
(* Min chooses.                                                            *)
LEMMA MinIsLeast ==
  ASSUME NEW S \in SUBSET Nat, S # {}
  PROVE  Min(S) \in S /\ \A m \in S : Min(S) =< m
<1> DEFINE R == OpToRel(<, Nat)
<1>1. IsWellFoundedOn(R, Nat)
  BY NatLessThanWellFounded, Zenon
<1>2. \A m, n \in Nat : m < n => <<m, n>> \in R
  BY DEF OpToRel
<1> HIDE DEF R
<1>3. PICK n \in S : \A m \in S : ~(<<m, n>> \in R)
  BY <1>1, WFMin
<1>4. \A m \in S : ~(m < n)
  BY <1>2, <1>3, Zenon
<1>5. \E x \in S : \A m \in S : x =< m
  BY <1>4
<1>6. QED
  BY <1>5 DEF Min

(* Where the buttons are in the two key bytes: a button below Width is a   *)
(* bit of byte 3, one above a bit of byte 4.                               *)
LEMMA ButtonPlace ==
  ASSUME NEW n \in Button
  PROVE  /\ n =< Width => (n - 1) \div Width = 0 /\ (n - 1) % Width = n - 1
         /\ n > Width  => /\ (n - 1) \div Width = 1
                          /\ (n - 1) % Width = n - 1 - Width
<1>1. Width \in Nat \ {0} /\ n \in Nat /\ 1 =< n /\ n =< 2 * Width
  BY Ps2Assumption DEF Button
<1>2. CASE n =< Width
  BY <1>1, <1>2
<1>3. CASE n > Width
  <2>1. n - 1 = 1 * Width + (n - 1 - Width) /\ n - 1 - Width \in 0 .. Width - 1
    BY <1>1, <1>3
  <2>2. QED
    BY <1>1, <1>3, <2>1
<1>4. QED
  BY <1>1, <1>2, <1>3

(* No button is down exactly if all bits of the two key bytes are set.     *)
LEMMA NoneDown ==
  ASSUME NEW bytes \in Bytes
  PROVE  DownIn(bytes) = {} <=> \A b \in KeyByte : bytes[b] = Bit
<1>1. Width \in Nat \ {0}
  BY Ps2Assumption
<1>2. bytes[3] \subseteq Bit /\ bytes[4] \subseteq Bit
  BY DEF Bytes, KeyByte, Byte
<1>3. ASSUME NEW n \in Button
      PROVE  IsDown(bytes, n) <=> IF n =< Width THEN n - 1 \notin bytes[3]
                                                 ELSE n - 1 - Width \notin bytes[4]
  BY <1>1, ButtonPlace DEF IsDown, Button
<1>4. ASSUME NEW j \in Bit
      PROVE  /\ j + 1 \in Button /\ j + 1 + Width \in Button
             /\ IsDown(bytes, j + 1) <=> j \notin bytes[3]
             /\ IsDown(bytes, j + 1 + Width) <=> j \notin bytes[4]
  <2>1. /\ j + 1 \in Button /\ j + 1 + Width \in Button /\ j \in Nat
        /\ j + 1 =< Width /\ ~(j + 1 + Width =< Width)
        /\ j + 1 - 1 = j /\ j + 1 + Width - 1 - Width = j
    BY <1>1 DEF Bit, Button
  <2>2. IsDown(bytes, j + 1) <=> (j + 1) - 1 \notin bytes[3]
    BY <1>3, <2>1
  <2>3. IsDown(bytes, j + 1 + Width) <=> (j + 1 + Width) - 1 - Width \notin bytes[4]
    BY <1>3, <2>1
  <2>4. QED
    BY <1>1, <2>1, <2>2, <2>3
<1>5. ASSUME NEW n \in Button
      PROVE  /\ n =< Width => n - 1 \in Bit
             /\ n > Width => n - 1 - Width \in Bit
  BY <1>1 DEF Button, Bit
<1>6. ASSUME DownIn(bytes) = {}  PROVE bytes[3] = Bit /\ bytes[4] = Bit
  BY <1>2, <1>4, <1>6 DEF DownIn
<1>7. ASSUME bytes[3] = Bit, bytes[4] = Bit  PROVE DownIn(bytes) = {}
  <2>1. ASSUME NEW n \in Button  PROVE ~IsDown(bytes, n)
    BY <1>1, <1>3, <1>5, <1>7 DEF Button
  <2>2. QED  BY <2>1 DEF DownIn
<1>8. QED
  BY <1>6, <1>7 DEF KeyByte

(* KeyOf is the lowest button that is down, and 0 only if none is.         *)
LEMMA KeyOfIsLowest ==
  ASSUME NEW bytes \in Bytes
  PROVE  /\ KeyOf(bytes) \in Button \cup {0}
         /\ KeyOf(bytes) = 0 <=> \A b \in KeyByte : bytes[b] = Bit
         /\ KeyOf(bytes) # 0 => /\ IsDown(bytes, KeyOf(bytes))
                                /\ \A n \in 1 .. KeyOf(bytes) - 1 : ~IsDown(bytes, n)
<1>1. /\ DownIn(bytes) \subseteq Button /\ Button \subseteq Nat /\ 0 \notin Button
      /\ Width \in Nat
  BY Ps2Assumption DEF DownIn, Button
<1>2. CASE DownIn(bytes) = {}
  BY <1>1, <1>2, NoneDown DEF KeyOf
<1>3. CASE DownIn(bytes) # {}
  <2>1. /\ KeyOf(bytes) \in DownIn(bytes)
        /\ \A m \in DownIn(bytes) : KeyOf(bytes) =< m
    BY <1>1, <1>3, MinIsLeast DEF KeyOf
  <2>2. KeyOf(bytes) \in Button /\ IsDown(bytes, KeyOf(bytes))
    BY <2>1 DEF DownIn
  <2>3. ASSUME NEW n \in 1 .. KeyOf(bytes) - 1  PROVE ~IsDown(bytes, n)
    <3>1. n \in Button /\ ~(KeyOf(bytes) =< n)
      BY <1>1, <2>2 DEF Button
    <3>2. QED
      BY <2>1, <3>1 DEF DownIn
  <2>4. QED
    BY <1>1, <1>3, <2>2, <2>3, NoneDown
<1>4. QED
  BY <1>2, <1>3

(* A pad answers with bytes, and the cleared buffer takes them as they are.*)
LEMMA AnswerIsBytes ==
  ASSUME TypeOK
  PROVE  /\ Answer(pad, frame) \in Bytes
         /\ PS2_ReadData(PS2_ClearData) = Answer(pad, frame)
<1>1. frame.stick \in [StickByte -> Byte]
  BY Ps2Assumption DEF TypeOK
<1>2. /\ \A b : Bit \ Pressed(frame, b) \in Byte
      /\ Bit \in Byte
  BY DEF Byte
<1>3. Answer(pad, frame) \in Bytes
  BY <1>1, <1>2 DEF Answer, Bytes
<1>4. PS2_ReadData(PS2_ClearData) = Answer(pad, frame)
  BY <1>3 DEF PS2_ReadData, PS2_ClearData, Bytes, Answer
<1>5. QED  BY <1>3, <1>4

----------------------------------------------------------------------------
Pads == [present : BOOLEAN, analog : BOOLEAN, locked : BOOLEAN, config : BOOLEAN,
         mapped : BOOLEAN, shake : BOOLEAN, loyal : BOOLEAN]

(* The transactions of the configuration, in their order.                  *)
LEMMA SetupIs ==
  /\ Len(Setup) = 8
  /\ Setup[1] = PS2_ShortPoll /\ Setup[2] = PS2_ShortPoll /\ Setup[3] = PS2_ShortPoll
  /\ Setup[4] = PS2_EnterConfing /\ Setup[5] = PS2_TurnOnAnalogMode
  /\ Setup[6] = PS2_VibrationMode /\ Setup[7] = PS2_ExitConfing
  /\ Setup[8] = PS2_Vibration
  BY DEF Setup, PS2_SetInit

(* What each transaction does to a pad that is there.                      *)
LEMMA HearIs ==
  ASSUME NEW p \in Pads
  PROVE  /\ ~p.present => \A c : Hear(p, c) = p
         /\ p.present =>
              /\ Hear(p, PS2_EnterConfing) = [p EXCEPT !.config = TRUE]
              /\ Hear(p, PS2_ExitConfing) = [p EXCEPT !.config = FALSE]
              /\ Hear(p, PS2_TurnOnAnalogMode) =
                   IF p.config THEN [p EXCEPT !.analog = TRUE, !.locked = TRUE] ELSE p
              /\ Hear(p, PS2_VibrationMode) =
                   IF p.config THEN [p EXCEPT !.mapped = TRUE] ELSE p
              /\ Hear(p, PS2_ShortPoll) =
                   IF p.config THEN p ELSE [p EXCEPT !.shake = FALSE]
              /\ Hear(p, PS2_Vibration) =
                   IF p.config THEN p ELSE [p EXCEPT !.shake = p.mapped]
<1>1. ~p.present => \A c : Hear(p, c) = p
  BY DEF Hear
<1>2. ASSUME p.present
      PROVE  /\ Hear(p, PS2_EnterConfing) = [p EXCEPT !.config = TRUE]
             /\ Hear(p, PS2_ExitConfing) = [p EXCEPT !.config = FALSE]
  BY <1>2 DEF Hear, PS2_EnterConfing, PS2_ExitConfing
<1>3. ASSUME p.present
      PROVE  /\ Hear(p, PS2_TurnOnAnalogMode) =
                  IF p.config THEN [p EXCEPT !.analog = TRUE, !.locked = TRUE] ELSE p
             /\ Hear(p, PS2_VibrationMode) =
                  IF p.config THEN [p EXCEPT !.mapped = TRUE] ELSE p
  BY <1>3 DEF Hear, PS2_TurnOnAnalogMode, PS2_VibrationMode
<1>4. ASSUME p.present
      PROVE  Hear(p, PS2_ShortPoll) = IF p.config THEN p ELSE [p EXCEPT !.shake = FALSE]
  <2>1. (p.mapped /\ FALSE) = FALSE
    OBVIOUS
  <2>2. QED
    BY <1>4, <2>1 DEF Hear, PS2_ShortPoll
<1>5. ASSUME p.present
      PROVE  Hear(p, PS2_Vibration) = IF p.config THEN p ELSE [p EXCEPT !.shake = p.mapped]
  <2>1. (p.mapped /\ TRUE) = p.mapped
    BY DEF Pads
  <2>2. QED
    BY <1>5, <2>1 DEF Hear, PS2_Vibration
<1>6. QED
  BY <1>1, <1>2, <1>3, <1>4, <1>5

----------------------------------------------------------------------------
(* The pad was either plugged in before boot or it was not there at all.   *)
LEMMA Initial == Init => IInv
<1> SUFFICES ASSUME Init  PROVE IInv
  OBVIOUS
<1>1. pad \in Pads /\ (pad.loyal => pad.present) /\ ~pad.config
  <2>1. CASE pad = [Fresh EXCEPT !.loyal = TRUE]
    BY <2>1 DEF Fresh, Pads
  <2>2. CASE pad = Gone
    BY <2>2 DEF Gone, Fresh, Pads
  <2>3. QED
    BY <2>1, <2>2 DEF Init
<1>2. Data \in Bytes /\ wire = <<Data, Data>> /\ NoBits \in [StickByte -> Byte]
  BY DEF Init, Bytes, Byte, NoBits
<1>3. TypeOK
  BY <1>1, <1>2, SetupIs DEF Init, TypeOK, Bytes, Pads
<1>4. WireOK
  BY <1>2 DEF WireOK
<1>5. QuietSetup /\ Handshake /\ PadReady /\ PublishesThePoll
  BY <1>1, <1>2 DEF Init, QuietSetup, Handshake, PadReady, PublishesThePoll
<1>6. QED  BY <1>3, <1>4, <1>5 DEF IInv

(* Each transaction of the configuration brings the pad to where it has to *)
(* be for the next one.                                                    *)
LEMMA ConfigureKeeps ==
  ASSUME IInv, Configure  PROVE IInv'
<1>1. /\ pc = "setup" /\ step \in 1 .. 8 /\ pad' = Hear(pad, Setup[step])
      /\ step < 8 => pc' = "setup" /\ step' = step + 1
      /\ step = 8 => pc' = "sleep" /\ step' = step
      /\ UNCHANGED <<frame, Data, PS2_stick, PS2_KEY, beep_value, wire>>
  BY SetupIs DEF IInv, TypeOK, Configure
<1>2. pad \in Pads
  BY DEF IInv, TypeOK, Pads
<1>3. CASE ~pad.present
  <2>1. pad' = pad
    BY <1>1, <1>2, <1>3, HearIs
  <2>2. ~pad'.present /\ ~pad'.loyal
    BY <1>3, <2>1 DEF IInv, Handshake
  <2>3. TypeOK' /\ WireOK' /\ QuietSetup' /\ Handshake' /\ PadReady' /\ PublishesThePoll'
    BY <1>1, <1>2, <2>1, <2>2, SetupIs
    DEF IInv, TypeOK, WireOK, QuietSetup, Handshake, PadReady, PublishesThePoll
  <2>4. QED  BY <2>3 DEF IInv
<1>4. ASSUME pad.present
      PROVE  /\ pad' \in Pads /\ (pad'.loyal <=> pad.loyal) /\ pad'.present
             /\ step = 4 => pad'.config
             /\ step = 7 => ~pad'.config
             /\ step \notin {4, 7} => (pad'.config <=> pad.config)
             /\ step = 5 /\ pad.config => pad'.analog /\ pad'.locked
             /\ step >= 6 => /\ pad'.analog <=> pad.analog
                             /\ pad'.locked <=> pad.locked
  <2>1. CASE step \in {1, 2, 3}
    <3>1. Setup[step] = PS2_ShortPoll
      BY <2>1, SetupIs
    <3>2. pad' = IF pad.config THEN pad ELSE [pad EXCEPT !.shake = FALSE]
      BY <1>1, <1>2, <1>4, <3>1, HearIs
    <3>3. pad' \in Pads
      BY <1>2, <3>2 DEF Pads
    <3>4. QED
      BY <1>2, <1>4, <2>1, <3>2, <3>3 DEF Pads
  <2>2. CASE step = 4
    <3>1. Setup[step] = PS2_EnterConfing
      BY <2>2, SetupIs
    <3>2. pad' = [pad EXCEPT !.config = TRUE]
      BY <1>1, <1>2, <1>4, <3>1, HearIs
    <3>3. pad' \in Pads
      BY <1>2, <3>2 DEF Pads
    <3>4. QED
      BY <1>2, <1>4, <2>2, <3>2, <3>3 DEF Pads
  <2>3. CASE step = 5
    <3>1. Setup[step] = PS2_TurnOnAnalogMode
      BY <2>3, SetupIs
    <3>2. pad' = IF pad.config THEN [pad EXCEPT !.analog = TRUE, !.locked = TRUE]
                               ELSE pad
      BY <1>1, <1>2, <1>4, <3>1, HearIs
    <3>3. pad' \in Pads
      BY <1>2, <3>2 DEF Pads
    <3>4. QED
      BY <1>2, <1>4, <2>3, <3>2, <3>3 DEF Pads
  <2>4. CASE step = 6
    <3>1. Setup[step] = PS2_VibrationMode
      BY <2>4, SetupIs
    <3>2. pad' = IF pad.config THEN [pad EXCEPT !.mapped = TRUE] ELSE pad
      BY <1>1, <1>2, <1>4, <3>1, HearIs
    <3>3. pad' \in Pads
      BY <1>2, <3>2 DEF Pads
    <3>4. QED
      BY <1>2, <1>4, <2>4, <3>2, <3>3 DEF Pads
  <2>5. CASE step = 7
    <3>1. Setup[step] = PS2_ExitConfing
      BY <2>5, SetupIs
    <3>2. pad' = [pad EXCEPT !.config = FALSE]
      BY <1>1, <1>2, <1>4, <3>1, HearIs
    <3>3. pad' \in Pads
      BY <1>2, <3>2 DEF Pads
    <3>4. QED
      BY <1>2, <1>4, <2>5, <3>2, <3>3 DEF Pads
  <2>6. CASE step = 8
    <3>1. Setup[step] = PS2_Vibration
      BY <2>6, SetupIs
    <3>2. pad' = IF pad.config THEN pad ELSE [pad EXCEPT !.shake = pad.mapped]
      BY <1>1, <1>2, <1>4, <3>1, HearIs
    <3>3. pad' \in Pads
      BY <1>2, <3>2 DEF Pads
    <3>4. QED
      BY <1>2, <1>4, <2>6, <3>2, <3>3 DEF Pads
  <2>7. QED
    BY <1>1, <2>1, <2>2, <2>3, <2>4, <2>5, <2>6
<1>5. CASE pad.present
  <2>1. TypeOK' /\ WireOK'
    BY <1>1, <1>4, <1>5, SetupIs DEF IInv, TypeOK, WireOK, Pads
  <2>2. Handshake'
    BY <1>1, <1>4, <1>5 DEF IInv, Handshake
  <2>3. PadReady'
    BY <1>1, <1>4, <1>5 DEF IInv, Handshake, PadReady
  <2>4. QuietSetup' /\ PublishesThePoll'
    BY <1>1 DEF IInv, QuietSetup, PublishesThePoll
  <2>5. QED
    BY <2>1, <2>2, <2>3, <2>4 DEF IInv
<1>6. QED
  BY <1>3, <1>5

(* A poll leaves in Data and in the key what the pad answered, and ends    *)
(* the shaking.                                                            *)
LEMMA DataKeyKeeps ==
  ASSUME IInv, PS2_DataKey  PROVE IInv'
<1> DEFINE a == Answer(pad, frame)
<1>1. /\ pc = "poll" /\ pc' = "beep" /\ pad' = Hear(pad, PS2_ShortPoll)
      /\ Data' = a /\ PS2_KEY' = KeyOf(a) /\ wire' = <<wire[2], a>>
      /\ a \in Bytes
      /\ UNCHANGED <<frame, step, PS2_stick, beep_value>>
  BY AnswerIsBytes DEF IInv, PS2_DataKey
<1> HIDE DEF a
<1>2. pad \in Pads
  BY DEF IInv, TypeOK, Pads
<1>3. /\ pad' \in Pads /\ (pad.present => pad'.present)
      /\ pad'.loyal <=> pad.loyal
      /\ pad'.analog <=> pad.analog
      /\ pad'.locked <=> pad.locked
      /\ pad'.config <=> pad.config
      /\ pad.present /\ ~pad.config => ~pad'.shake
  <2>1. pad' = IF ~pad.present \/ pad.config THEN pad ELSE [pad EXCEPT !.shake = FALSE]
    BY <1>1, <1>2, HearIs
  <2>2. pad' \in Pads
    BY <1>2, <2>1 DEF Pads
  <2>3. QED
    BY <1>2, <2>1, <2>2 DEF Pads
<1>4. TypeOK'
  BY <1>1, <1>3, KeyOfIsLowest DEF IInv, TypeOK, Pads, Bytes
<1>5. WireOK' /\ wire'[1] = wire[2] /\ wire'[2] = a
  BY <1>1 DEF IInv, WireOK
<1>6. QuietSetup' /\ Handshake' /\ PadReady'
  BY <1>1, <1>3 DEF IInv, QuietSetup, Handshake, PadReady
<1>7. PublishesThePoll'
  BY <1>1, <1>5, KeyOfIsLowest DEF IInv, PublishesThePoll
<1>8. QED
  BY <1>4, <1>5, <1>6, <1>7 DEF IInv

(* The operator may do what he likes: a locked pad ignores MODE, and a pad *)
(* that is plugged in anew is not loyal.                                   *)
LEMMA OperatorKeeps ==
  ASSUME IInv, Hands \/ Mode \/ Plug  PROVE IInv'
<1>1. /\ UNCHANGED <<pc, step, Data, PS2_stick, PS2_KEY, beep_value, wire>>
      /\ frame' \in Frame
  BY DEF IInv, TypeOK, Hands, Mode, Plug
<1>2. pad \in Pads
  BY DEF IInv, TypeOK, Pads
<1>3. /\ pad' \in Pads
      /\ pad'.loyal => /\ pad.loyal /\ (pad.present => pad'.present)
                       /\ pad'.locked <=> pad.locked
                       /\ pad'.config <=> pad.config
                       /\ pad'.shake <=> pad.shake
                       /\ pad.locked => (pad'.analog <=> pad.analog)
  <2>1. CASE Hands
    BY <1>2, <2>1 DEF Hands
  <2>2. CASE Mode
    <3>1. ~pad.locked /\ pad' = [pad EXCEPT !.analog = ~pad.analog]
      BY <2>2 DEF Mode
    <3>2. pad' \in Pads
      BY <1>2, <3>1 DEF Pads
    <3>3. QED
      BY <1>2, <3>1, <3>2 DEF Pads
  <2>3. CASE Plug
    <3>1. pad' = Gone \/ pad' = Fresh
      BY <2>3 DEF Plug
    <3>2. Fresh \in Pads /\ ~Fresh.loyal
      BY DEF Pads, Fresh
    <3>3. Gone \in Pads /\ ~Gone.loyal
      BY DEF Pads, Gone, Fresh
    <3>4. QED
      BY <3>1, <3>2, <3>3
  <2>4. QED
    BY <2>1, <2>2, <2>3
<1>4. TypeOK'
  BY <1>1, <1>3 DEF IInv, TypeOK, Pads
<1>5. WireOK' /\ QuietSetup' /\ PublishesThePoll'
  BY <1>1 DEF IInv, WireOK, QuietSetup, PublishesThePoll
<1>6. Handshake' /\ PadReady'
  BY <1>1, <1>3 DEF IInv, Handshake, PadReady
<1>7. QED
  BY <1>4, <1>5, <1>6 DEF IInv

(* Every step of the gamepad thread and of the operator preserves the      *)
(* invariant.                                                              *)
LEMMA Inductive == IInv /\ [Next]_vars => IInv'
<1> SUFFICES ASSUME IInv, [Next]_vars  PROVE IInv'
  OBVIOUS
<1>1. CASE PublishSticks
  <2>1. /\ pc = "sleep" /\ pc' = "poll" /\ PS2_stick' = [b \in StickByte |-> Data[b]]
        /\ UNCHANGED <<pad, frame, step, Data, PS2_KEY, beep_value, wire>>
    BY <1>1 DEF PublishSticks
  <2>2. TypeOK' /\ WireOK'
    BY <2>1 DEF IInv, TypeOK, WireOK
  <2>3. QuietSetup' /\ Handshake' /\ PadReady' /\ PublishesThePoll'
    BY <2>1 DEF IInv, QuietSetup, Handshake, PadReady, PublishesThePoll
  <2>4. QED  BY <2>2, <2>3 DEF IInv
<1>2. CASE SetBeep
  <2>1. /\ pc = "beep" /\ pc' = "sleep" /\ beep_value' = (IF PS2_KEY # 0 THEN 1 ELSE 0)
        /\ UNCHANGED <<pad, frame, step, Data, PS2_stick, PS2_KEY, wire>>
    BY <1>2 DEF SetBeep
  <2>2. TypeOK' /\ WireOK'
    BY <2>1 DEF IInv, TypeOK, WireOK
  <2>3. QuietSetup' /\ Handshake' /\ PadReady' /\ PublishesThePoll'
    BY <2>1 DEF IInv, QuietSetup, Handshake, PadReady, PublishesThePoll
  <2>4. QED  BY <2>2, <2>3 DEF IInv
<1>3. CASE UNCHANGED vars
  BY <1>3 DEF vars, IInv, TypeOK, WireOK, QuietSetup, Handshake, PadReady,
              PublishesThePoll
<1>4. QED
  BY <1>1, <1>2, <1>3, ConfigureKeeps, DataKeyKeeps, OperatorKeeps DEF Next, PS2_handle

----------------------------------------------------------------------------
(* The invariant of the gamepad thread by itself.                          *)
LEMMA Always == Spec => []IInv
  BY Initial, Inductive, PTL DEF Spec

(* Composition only restricts: with the motor thread and the clock between *)
(* its steps, the gamepad thread and the pad still behave as Ps2 says.     *)
THEOREM DriveImplementsPs2 == DriveSpec => Spec
<1>1. DriveInit => Init
  BY DEF DriveInit
<1>2. [DriveNext]_drivevars => [Next]_vars
  BY DEF DriveNext, drivevars, RunPad, RunMotor, Operator, Tick, Next
<1>3. QED
  BY <1>1, <1>2, PTL DEF DriveSpec, Spec

(* The variables of the gamepad thread and of the pad keep their types.    *)
THEOREM DriveTypeCorrect == DriveSpec => []TypeOK
<1>1. IInv => TypeOK
  BY DEF IInv
<1>2. QED  BY <1>1, Always, DriveImplementsPs2, PTL

(* A pad that has been there since boot ends the configuration in locked   *)
(* analog mode, whatever the operator does to it meanwhile.                *)
THEOREM DrivePadReady == DriveSpec => []PadReady
<1>1. IInv => PadReady
  BY DEF IInv
<1>2. QED  BY <1>1, Always, DriveImplementsPs2, PTL

(* Sticks, key and beep are what the pad sent in the polls they belong to. *)
THEOREM DrivePublishesThePoll == DriveSpec => []PublishesThePoll
<1>1. IInv => PublishesThePoll
  BY DEF IInv
<1>2. QED  BY <1>1, Always, DriveImplementsPs2, PTL
=============================================================================
