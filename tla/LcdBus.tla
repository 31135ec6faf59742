------------------------------- MODULE LcdBus -------------------------------
(***************************************************************************)
(* The bit-banged display bus (applications/lcd.c) and its two users. The  *)
(* display thread (aht10_handle, priority 10) initialises the panel, fills *)
(* it, writes its labels once and repeats its text; the sensor thread      *)
(* (priority 7) prints its alarm text. There is no lock: the sensor thread *)
(* cuts into any bit of a byte, and its whole text goes out before the     *)
(* other thread resumes.                                                   *)
(*                                                                         *)
(* A bit is one step: SCK low, SDA, SCK high, SCK low. A cut inside it is  *)
(* the cut before or after its rising edge, because the cutting thread     *)
(* sets SCK and SDA itself and leaves CS high. A job is what follows one   *)
(* TFT_SET_ADD: a window and the pixels that fill it.                      *)
(***************************************************************************)
EXTENDS Integers, Sequences

CONSTANTS Columns, Lines,     \* 170 x 320
          Cell,               \* 16: width and height of a character
          Offset,             \* 35: TFT_COLUMN_OFFSET
          Labels, Text,       \* characters: [x, y, glyph], that the display
                              \* thread writes once, and repeats;
          AlarmText,          \* those of the sensor thread
          Gap                 \* jobs of the text before and between alarms

\* A text may run over the right edge ("temperature:" is 192 columns wide): a
\* coordinate fits into the two bytes that TFT_SET_ADD sends of it.
TwoBytes == 0 .. 256 * 256 - 1

ASSUME LcdAssumption ==
    /\ {Columns, Lines, Cell, Gap} \subseteq Nat \ {0} /\ Offset \in Nat
    /\ \A t \in {Labels, Text, AlarmText} :
          /\ Len(t) \in Nat \ {0} /\ DOMAIN t = 1 .. Len(t)
          /\ \A c \in 1 .. Len(t) :
                /\ {t[c].x, t[c].y} \subseteq Nat
                /\ {Offset + t[c].x + Cell - 1, t[c].y + Cell - 1} \subseteq TwoBytes
                /\ Len(t[c].glyph) = Cell * Cell
    /\ {Offset + Columns - 1, Lines - 1} \subseteq TwoBytes

Above(c, d) == c.y + Cell =< d.y
Apart(c, d) == Above(c, d) \/ Above(d, c) \/ c.x + Cell =< d.x \/ d.x + Cell =< c.x

\* Characters of a text do not overlap: x += 16; and every text has lines of
\* its own, 20 apart.
ASSUME ApartAssumption ==
    /\ \A t \in {Labels, Text, AlarmText} : \A c, d \in 1 .. Len(t) : c # d => Apart(t[c], t[d])
    /\ \A c \in 1 .. Len(Text), d \in 1 .. Len(AlarmText), e \in 1 .. Len(Labels) :
          /\ Above(Text[c], AlarmText[d]) \/ Above(AlarmText[d], Text[c])
          /\ Above(Text[c], Labels[e]) \/ Above(Labels[e], Text[c])
          /\ Above(Labels[e], AlarmText[d]) \/ Above(AlarmText[d], Labels[e])

\* What the proofs need to know of exponentiation.
ASSUME BytePowers == 2^0 = 1 /\ \A m \in 0 .. 7 : 2^m \in Nat \ {0} /\ 2^(m + 1) = 2 * 2^m

VARIABLES dc, cs,             \* pins
          panel,              \* the controller behind them
          job, at, step,      \* display thread: job, byte of it, step of that
          since,              \* jobs of the text that ended since the last
                              \* cut, up to Gap
          alarm               \* history: the last cut was "whole", or "torn",
                              \* inside a byte; "none" so far

lcdvars == <<dc, cs, panel, job, at, step, since, alarm>>

----------------------------------------------------------------------------
(* The panel (external, ST7789): shifts bits in while CS is low, forgets a *)
(* partial byte when CS rises, takes a byte for a command when DC is low   *)
(* at its last bit. Its registers of voltages, gamma and scan are not      *)
(* modelled, nor pixels outside the screen: it ignores them.               *)

SWRESET == 1
SLPIN == 16
SLPOUT == 17
PTLON == 18
NORON == 19
INVOFF == 32
INVON == 33
DISPOFF == 40
DISPON == 41
CASET == 42
RASET == 43
RAMWR == 44
IDMOFF == 56
IDMON == 57
COLMOD == 58

WHITE == 65535
BLACK == 0
Pixels == (Offset .. Offset + Columns - 1) \X (0 .. Lines - 1)

\* count bits of a byte are in shift; cmd has taken args so far. In mode
\* "rgb565" a pixel takes two bytes; what is written otherwise is of no
\* interest, since only SWRESET and COLMOD end that mode and the first
\* parameter of a torn COLMOD is the high byte of a column, never 5.
PowerOn == [count |-> 0, shift |-> 0, cmd |-> 0, args |-> << >>,
            cols |-> <<0, 0>>, rows |-> <<0, 0>>, pos |-> 0,
            modes |-> {}, ram |-> [q \in Pixels |-> BLACK]]

\* A command that enters a mode, and the one that leaves it.
Switches == { <<SLPOUT, SLPIN, "awake">>, <<DISPON, DISPOFF, "on">>,
              <<INVON, INVOFF, "inverted">>, <<PTLON, NORON, "partial">>,
              <<IDMON, IDMOFF, "idle">> }
Switched(modes, b) ==
    IF b = SWRESET THEN {}
    ELSE (modes \cup {s[3] : s \in {s \in Switches : s[1] = b}})
           \ {s[3] : s \in {s \in Switches : s[2] = b}}

\* As TFT_init leaves the panel: lit, colours as given.
Normal == {"awake", "on", "inverted", "rgb565"}
Lit == Normal \subseteq panel.modes

Command(p, b) ==
    [p EXCEPT !.cmd = b, !.args = << >>,
              !.pos = IF b = RAMWR THEN 0 ELSE @,
              !.modes = Switched(@, b)]

\* A window that ends before it starts takes one pixel.
Span(w) == IF w[1] =< w[2] THEN w[2] - w[1] + 1 ELSE 1
Place(p) == << p.cols[1] + (p.pos % Span(p.cols)), p.rows[1] + p.pos \div Span(p.cols) >>

WritePixel(p, v) ==
    [p EXCEPT !.args = << >>,
              !.ram = [q \in Pixels |-> IF q = Place(p) THEN v ELSE @[q]],
              !.pos = (@ + 1) % (Span(p.cols) * Span(p.rows))]

Window(args) == <<args[1] * 256 + args[2], args[3] * 256 + args[4]>>

Data(p, b) ==
    LET args == Append(p.args, b) IN
      CASE p.cmd = RAMWR /\ Len(args) = 2 -> WritePixel(p, args[1] * 256 + args[2])
        [] p.cmd = CASET /\ Len(args) = 4 ->
             [p EXCEPT !.cols = Window(args), !.cmd = 0, !.args = << >>]
        [] p.cmd = RASET /\ Len(args) = 4 ->
             [p EXCEPT !.rows = Window(args), !.cmd = 0, !.args = << >>]
        [] p.cmd = COLMOD ->
             [p EXCEPT !.modes = IF b = 5 THEN @ \cup {"rgb565"} ELSE @ \ {"rgb565"}, !.cmd = 0]
        [] \/ p.cmd = RAMWR /\ Len(args) < 2
           \/ p.cmd \in {CASET, RASET} /\ Len(args) < 4 -> [p EXCEPT !.args = args]
        [] OTHER -> p

Receive(p, level, b) == IF level = 0 THEN Command(p, b) ELSE Data(p, b)

Deselect(p) == [p EXCEPT !.count = 0, !.shift = 0]

\* One rising edge of SCK.
Clock(p, level, bit) ==
    IF p.count < 7 THEN [p EXCEPT !.count = @ + 1, !.shift = 2 * @ + bit]
    ELSE Deselect(Receive(p, level, 2 * p.shift + bit))

\* TFT_SEND_CMD or TFT_SEND_DATA as a whole: what is in the shift register
\* and the first bits of the byte make one byte, CS drops the rest.
SendByte(p, s) ==
    Deselect(Receive(p, s[1], p.shift * 2^(8 - p.count) + s[2] \div 2^p.count))

\* Whole bytes, one after the other.
Sent(p, bytes) == LET f[b \in 0 .. Len(bytes)] ==
                        IF b = 0 THEN p ELSE SendByte(f[b - 1], bytes[b])
                  IN f[Len(bytes)]

----------------------------------------------------------------------------
(* What a thread sends: pairs of DC level and byte.                        *)

Cmd(b) == <<0, b>>
Dat(b) == <<1, b>>
Joined(parts) == LET f[b \in 0 .. Len(parts)] ==
                       IF b = 0 THEN << >> ELSE f[b - 1] \o parts[b]
                 IN f[Len(parts)]

Word(w) == << Dat(w \div 256), Dat(w % 256) >>

\* 0x28 for 0x2a
TFT_SET_ADD_WrongCode(x0, y0, x1, y1) ==
    <<Cmd(DISPOFF)>> \o Word(x0 + Offset) \o Word(x1 + Offset)
    \o <<Cmd(RASET)>> \o Word(y0) \o Word(y1) \o <<Cmd(RAMWR)>>
TFT_SET_ADD(x0, y0, x1, y1) ==
    <<Cmd(CASET)>> \o Word(x0 + Offset) \o Word(x1 + Offset)
    \o <<Cmd(RASET)>> \o Word(y0) \o Word(y1) \o <<Cmd(RAMWR)>>

\* Colour words, one after the other.
Colours(cells) == Joined([q \in 1 .. Len(cells) |-> Word(cells[q])])

TFT_full(colour) == TFT_SET_ADD(0, 0, Columns - 1, Lines - 1)
                    \o Colours([k \in 1 .. Columns * Lines |-> colour])

\* Each character of display_string sets a window of its own.
display_ascii_16_16(c) ==
    TFT_SET_ADD(c.x, c.y, c.x + Cell - 1, c.y + Cell - 1)
    \o Colours([k \in 1 .. Cell * Cell |-> IF c.glyph[k] = 1 THEN BLACK ELSE WHITE])

\* Commands of TFT_init with their parameters.
TFT_init == << <<SLPOUT>>, <<COLMOD, 5>>, <<197, 26>>, <<54, 0>>, <<178, 5, 5, 0, 51, 51>>,
               <<183, 5>>, <<187, 63>>, <<192, 44>>, <<194, 1>>, <<195, 15>>,
               <<196, 32>>, <<198, 1>>, <<208, 164, 161>>, <<232, 3>>, <<233, 9, 9, 8>>,
               <<224, 208, 5, 9, 9, 8, 20, 40, 51, 63, 7, 19, 20, 40, 48>>,
               <<225, 208, 5, 9, 9, 8, 3, 36, 50, 50, 59, 20, 19, 40, 47>>,
               <<INVON>>, <<DISPON>> >>
Parameters(line) == [a \in 1 .. Len(line) - 1 |-> Dat(line[a + 1])]
Commands == Joined([q \in 1 .. Len(TFT_init) |->
                      <<Cmd(TFT_init[q][1])>> \o Parameters(TFT_init[q])])

\* Jobs of the display thread: TFT_init, TFT_full, then the characters of its
\* labels and from FirstOfText on those of its text.
Jobs == << Commands, TFT_full(WHITE) >>
        \o [c \in 1 .. Len(Labels) |-> display_ascii_16_16(Labels[c])]
        \o [c \in 1 .. Len(Text) |-> display_ascii_16_16(Text[c])]
\* What is repeated starts one character late.
FirstOfText_OneLate == 4 + Len(Labels)
FirstOfText == 3 + Len(Labels)

\* One window for the whole text.
AlarmBytes_OneWindow ==
    TFT_SET_ADD(0, AlarmText[1].y, Cell - 1, AlarmText[1].y + Cell - 1)
    \o Joined([c \in 1 .. Len(AlarmText) |->
                 SubSeq(display_ascii_16_16(AlarmText[c]), 12, 11 + 2 * Cell * Cell)])
\* display_string
AlarmBytes == Joined([c \in 1 .. Len(AlarmText) |-> display_ascii_16_16(AlarmText[c])])

----------------------------------------------------------------------------
\* All pins are low when they become outputs, CS too: TFT_init's SPI_SCK_1 is
\* a rising edge to the panel.
LcdInit == /\ dc = 0 /\ cs = 0 /\ panel = PowerOn
           /\ job = 0 /\ at = 1 /\ step = 0 /\ since = 0 /\ alarm = "none"

\* SCK is raised only after the reset pulse.
Reset_ClockLast == panel' = Clock(PowerOn, dc, 0)
Reset == panel' = [Clock(panel, dc, 0) EXCEPT !.count = 0, !.shift = 0]

\* TFT_init up to its first command.
Start == /\ job = 0
         /\ Reset
         /\ job' = 1
         /\ UNCHANGED <<dc, cs, at, step, since, alarm>>

ByteNow == Jobs[job][at]

\* SPI_DC_x
SetDC == /\ job > 0 /\ step = 0
         /\ dc' = ByteNow[1] /\ step' = 1
         /\ UNCHANGED <<cs, panel, job, at, since, alarm>>

\* SPI_CS_0
Select == /\ step = 1
          /\ cs' = 0 /\ step' = 2
          /\ UNCHANGED <<dc, panel, job, at, since, alarm>>

BitNow == (ByteNow[2] \div 2^(9 - step)) % 2

\* SPI_SendByte, one bit
SendBit == /\ step \in 2 .. 9
           /\ panel' = IF cs = 0 THEN Clock(panel, dc, BitNow) ELSE panel
           /\ step' = step + 1
           /\ UNCHANGED <<dc, cs, job, at, since, alarm>>

\* SPI_CS_1 and on to the next byte; the text is repeated for ever.
NextByte == /\ step = 10
            /\ cs' = 1 /\ panel' = Deselect(panel) /\ step' = 0
            /\ at' = IF at < Len(Jobs[job]) THEN at + 1 ELSE 1
            /\ job' = CASE at < Len(Jobs[job]) -> job
                        [] at = Len(Jobs[job]) /\ job < Len(Jobs) -> job + 1
                        [] OTHER -> FirstOfText
            /\ since' = IF job >= FirstOfText /\ at = Len(Jobs[job]) /\ since < Gap
                        THEN since + 1 ELSE since
            /\ UNCHANGED <<dc, alarm>>

\* aht10_handle
DisplayThread == Start \/ SetDC \/ Select \/ SendBit \/ NextByte

\* dht11_handle's display_string. It comes 20 s after boot at the earliest and
\* 20 s apart; the display thread repeats its text every second or so.
Cut == /\ since = Gap
       /\ panel' = Sent(panel, AlarmBytes)
       /\ dc' = 1 /\ cs' = 1 /\ since' = 0
       /\ alarm' = IF panel.count > 0 THEN "torn" ELSE "whole"
       /\ UNCHANGED <<job, at, step>>

LcdNext == DisplayThread \/ Cut

LcdSpec == LcdInit /\ [][LcdNext]_lcdvars
LcdFairSpec == LcdSpec /\ WF_lcdvars(DisplayThread)

----------------------------------------------------------------------------
\* A character as it was sent, as far as it is on the screen.
Spot(c, q) == <<Offset + c.x + (q % Cell), c.y + q \div Cell>>
Shows(p, c) == \A q \in 0 .. Cell * Cell - 1 :
    Spot(c, q) \in Pixels =>
      p.ram[Spot(c, q)] = IF c.glyph[q + 1] = 1 THEN BLACK ELSE WHITE

(* TFT_init reaches the panel although its first act is a stray clock edge *)
(* with CS low: when the screen is being filled the panel is awake and on, *)
(* inverts, and takes two bytes to a pixel.                                *)
InitTakesEffect == job = 2 => Lit

(* What is written once stays on the screen of a panel that is lit,        *)
(* whatever the display thread sends after a cut into the window that the  *)
(* alarm text left: its labels, and all characters of the alarm text but   *)
(* the last, which the rest of the interrupted job is written over, and    *)
(* the first, if the cut fell inside a byte.                               *)
WrittenStays == Lit =>
    /\ job >= FirstOfText => \A c \in 1 .. Len(Labels) : Shows(panel, Labels[c])
    /\ alarm # "none" => \A c \in 1 .. Len(AlarmText) - 1 :
                            c > 1 \/ alarm = "whole" => Shows(panel, AlarmText[c])

(* The panel leaves the state that TFT_init brought it to only by a cut    *)
(* inside a byte, whose first bits make a command of the cutting thread's  *)
(* first one: 0x01, 0x10, 0x20 or 0x28.                                    *)
DarkOnlyInsideAByte == [][Lit /\ ~Lit' => Cut /\ panel.count > 0]_lcdvars

(* When the alarm text stays away, the text that the display thread        *)
(* repeats comes out right in the end and stays right, on a panel that is  *)
(* still lit: nothing brings the others back.                              *)
TextHeals == <>[][~Cut]_lcdvars => <>[](Lit => \A c \in 1 .. Len(Text) : Shows(panel, Text[c]))
=============================================================================
