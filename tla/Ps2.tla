-------------------------------- MODULE Ps2 --------------------------------
(***************************************************************************)
(* The gamepad thread (applications/ps2.c): it configures the pad over a   *)
(* bit-banged bus, then every 50 ms publishes the four stick readings left *)
(* in Data by the poll before, polls again and publishes the key. A byte   *)
(* is the set of its bits that are 1, because the code builds it by OR-ing *)
(* the sampled bits into Data. The pad is external: it is modelled from    *)
(* the commands the code sends and the bytes it uses of the answers. The   *)
(* operator moves the sticks, presses MODE and unplugs the pad at any time *)
(* between two transactions.                                               *)
(***************************************************************************)
EXTENDS Integers, Sequences, FiniteSetsExt

CONSTANTS Width,    \* 8: bits of a byte
          Frame     \* the positions of the operator's hands

Bit == 0 .. Width - 1
Byte == SUBSET Bit
Button == 1 .. 2 * Width         \* MASK: PSB_SELECT .. PSB_PINK
KeyByte == {3, 4}
StickByte == {5, 6, 7, 8}        \* PSS_RX, PSS_RY, PSS_LX, PSS_LY

ASSUME Ps2Assumption ==
    /\ Width \in Nat \ {0}
    /\ Frame \subseteq [down : SUBSET Button, stick : [StickByte -> Byte]]

VARIABLES pad,         \* the pad: external
          frame,       \* where the operator's hands are: external
          pc,          \* where the thread is
          step,        \* the next transaction of the configuration
          Data,        \* Data[3..8]
          PS2_stick,   \* PS2_RX, PS2_RY, PS2_LX, PS2_LY, by Data index
          PS2_KEY,
          beep_value,
          wire         \* history: the bytes sent in the last two polls

vars == <<pad, frame, pc, step, Data, PS2_stick, PS2_KEY, beep_value, wire>>

----------------------------------------------------------------------------
(* The pad (external).                                                     *)

Fresh == [present |-> TRUE, analog |-> FALSE, locked |-> FALSE,
          config |-> FALSE, mapped |-> FALSE, shake |-> FALSE, loyal |-> FALSE]
Gone == [Fresh EXCEPT !.present = FALSE]

\* What one transaction does to a pad: configuration commands act only in
\* configuration mode, and every poll carries the rumble bytes.
Hear(p, c) ==
    IF ~p.present THEN p ELSE
    CASE c.cmd = "config" -> [p EXCEPT !.config = c.arg]
      [] c.cmd = "mode" /\ p.config -> [p EXCEPT !.analog = c.arg, !.locked = c.lock]
      [] c.cmd = "map" /\ p.config -> [p EXCEPT !.mapped = TRUE]
      [] c.cmd = "poll" /\ ~p.config -> [p EXCEPT !.shake = p.mapped /\ c.arg]
      [] OTHER -> p

\* The bytes 3..8 of the answer to a poll. DI is pulled up, so bytes nobody
\* sends read as all ones: the sticks of a pad in digital mode, or all of
\* them when there is no pad.
Pressed(f, b) == {k \in Bit : (b - 3) * Width + k + 1 \in f.down}
Answer(p, f) ==
    [b \in KeyByte \cup StickByte |->
       CASE p.present /\ b \in KeyByte -> Bit \ Pressed(f, b)
         [] p.present /\ p.analog /\ b \in StickByte -> f.stick[b]
         [] OTHER -> Bit]

----------------------------------------------------------------------------
(* The transactions of the configuration.                                  *)
PS2_ShortPoll == [cmd |-> "poll", arg |-> FALSE]
PS2_EnterConfing == [cmd |-> "config", arg |-> TRUE]
PS2_TurnOnAnalogMode_Unlatched == [cmd |-> "mode", arg |-> TRUE, lock |-> FALSE]
PS2_TurnOnAnalogMode == [cmd |-> "mode", arg |-> TRUE, lock |-> TRUE]
PS2_VibrationMode == [cmd |-> "map"]
PS2_ExitConfing == [cmd |-> "config", arg |-> FALSE]
PS2_Vibration == [cmd |-> "poll", arg |-> TRUE]   \* (0x00, 0x40)

PS2_SetInit == << PS2_ShortPoll, PS2_ShortPoll, PS2_ShortPoll, PS2_EnterConfing,
                  PS2_TurnOnAnalogMode, PS2_VibrationMode, PS2_ExitConfing >>

Setup == Append(PS2_SetInit, PS2_Vibration)

(* Polling.                                                                *)
PS2_ClearData_KeysOnly == [b \in KeyByte \cup StickByte |->
                             IF b \in KeyByte THEN {} ELSE Data[b]]
PS2_ClearData == [b \in KeyByte \cup StickByte |-> {}]

\* The bits sampled as 1 are OR-ed into what the buffer holds. After the two
\* command bytes DO stays low, so the pad reads rumble bytes of zero.
PS2_ReadData(buffer) == [b \in KeyByte \cup StickByte |->
                           buffer[b] \cup Answer(pad, frame)[b]]

\* Handkey is byte 4 over byte 3; a button is down when its bit is 0, and the
\* loop returns the first one.
IsDown(bytes, k) == (k - 1) % Width \notin bytes[3 + (k - 1) \div Width]
DownIn(bytes) == {k \in Button : IsDown(bytes, k)}

KeyOf(bytes) == IF DownIn(bytes) = {} THEN 0 ELSE Min(DownIn(bytes))

----------------------------------------------------------------------------
NoBits == [b \in StickByte |-> {}]

Init == /\ pad \in {[Fresh EXCEPT !.loyal = TRUE], Gone}
        /\ frame \in Frame
        /\ pc = "setup" /\ step = 1
        /\ Data = [b \in KeyByte \cup StickByte |-> {}]
        /\ PS2_stick = NoBits /\ PS2_KEY = 0 /\ beep_value = 0
        /\ wire = <<Data, Data>>

\* PS2_Init and PS2_SetInit, PS2_Vibration and the first mdelay, by steps.
Configure == /\ pc = "setup"
             /\ pad' = Hear(pad, Setup[step])
             /\ IF step < Len(Setup) THEN step' = step + 1 /\ UNCHANGED pc
                                     ELSE pc' = "sleep" /\ UNCHANGED step
             /\ UNCHANGED <<frame, Data, PS2_stick, PS2_KEY, beep_value, wire>>

\* No thread that reads a stick can run between these four assignments.
PublishSticks == /\ pc = "sleep"
                 /\ pc' = "poll"
                 /\ PS2_stick' = [b \in StickByte |-> Data[b]]
                 /\ UNCHANGED <<pad, frame, step, Data, PS2_KEY, beep_value, wire>>

PS2_DataKey == /\ pc = "poll"
               /\ pc' = "beep"
               /\ Data' = PS2_ReadData(PS2_ClearData)
               /\ pad' = Hear(pad, PS2_ShortPoll)
               /\ PS2_KEY' = KeyOf(Data')
               /\ wire' = <<wire[2], Answer(pad, frame)>>
               /\ UNCHANGED <<frame, step, PS2_stick, beep_value>>

SetBeep == /\ pc = "beep"
           /\ pc' = "sleep"
           /\ beep_value' = IF PS2_KEY # 0 THEN 1 ELSE 0
           /\ UNCHANGED <<pad, frame, step, Data, PS2_stick, PS2_KEY, wire>>

PS2_handle == Configure \/ PublishSticks \/ PS2_DataKey \/ SetBeep

\* The operator.
Hands == /\ frame' \in Frame
         /\ UNCHANGED <<pad, pc, step, Data, PS2_stick, PS2_KEY, beep_value, wire>>
Mode == /\ pad.present /\ ~pad.locked
        /\ pad' = [pad EXCEPT !.analog = ~@]
        /\ UNCHANGED <<frame, pc, step, Data, PS2_stick, PS2_KEY, beep_value, wire>>
Plug == /\ pad' = IF pad.present THEN Gone ELSE Fresh
        /\ UNCHANGED <<frame, pc, step, Data, PS2_stick, PS2_KEY, beep_value, wire>>

Next == PS2_handle \/ Hands \/ Mode \/ Plug

Spec == Init /\ [][Next]_vars

----------------------------------------------------------------------------
(* Type invariant of the gamepad thread and of the pad.                    *)
TypeOK == /\ pad \in [present : BOOLEAN, analog : BOOLEAN, locked : BOOLEAN,
                      config : BOOLEAN, mapped : BOOLEAN, shake : BOOLEAN,
                      loyal : BOOLEAN]
          /\ frame \in Frame
          /\ pc \in {"setup", "sleep", "poll", "beep"}
          /\ step \in 1 .. Len(Setup)
          /\ Data \in [KeyByte \cup StickByte -> Byte]
          /\ PS2_stick \in [StickByte -> Byte]
          /\ PS2_KEY \in Button \cup {0}
          /\ beep_value \in {0, 1}

(* The handshake works: a pad that has been plugged in since before boot   *)
(* is, from the end of the configuration on, out of configuration mode, in *)
(* analog mode and deaf to its MODE button, and it stops shaking with the  *)
(* first poll, whose rumble bytes the code never drives.                   *)
PadReady == pad.loyal /\ pc # "setup" =>
                /\ pad.analog /\ pad.locked /\ ~pad.config
                /\ pc = "beep" => ~pad.shake

(* What is published is what the pad sent, and nothing else: no bit of an  *)
(* earlier poll survives in Data; the four sticks come from one and the    *)
(* same poll, the one before the poll the key comes from; the key is the   *)
(* lowest button that was down in that poll, zero only if none was; and    *)
(* the beep follows the key.                                               *)
PublishesThePoll ==
    /\ pc \in {"sleep", "beep"} => Data = wire[2]
    /\ pc = "poll" => PS2_stick = [b \in StickByte |-> wire[2][b]]
    /\ pc = "beep" => /\ PS2_stick = [b \in StickByte |-> wire[1][b]]
                      /\ PS2_KEY = 0 <=> \A b \in KeyByte : wire[2][b] = Bit
                      /\ PS2_KEY # 0 => /\ IsDown(wire[2], PS2_KEY)
                                        /\ \A k \in 1 .. PS2_KEY - 1 :
                                              ~IsDown(wire[2], k)
    /\ pc \in {"sleep", "poll"} => (beep_value = 1 <=> PS2_KEY # 0)

=============================================================================
