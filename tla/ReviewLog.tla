----------------------------- MODULE ReviewLog -----------------------------
(***************************************************************************)
(* The review log (applications/aht10.c, key.c). On a pad key the sensor   *)
(* thread (priority 7) records a row of review_buf or forgets all rows; on *)
(* a push button the interrupt moves the cursor buf; once a second the     *)
(* display thread (priority 10) prints the row at the cursor. It reads buf *)
(* anew for each of the three values and for the row number, and anything  *)
(* else may run between two of these reads.                                *)
(*                                                                         *)
(* number indexes review_buf unchecked: a row taken by a full log, and the *)
(* clearing of its row behind the last one, are written past the end. What *)
(* they hit depends on the build: here number, key_flag and buf, with any  *)
(* byte in them; the strings, which every pass of the display              *)
(* thread writes anew, and the rest of the program's data are left out.    *)
(***************************************************************************)
EXTENDS Integers, Sequences

CONSTANTS Rows,       \* 20: rows of review_buf
          LastRow,    \* 99: the largest cursor that key1 still moves
          ByteMod,    \* 256: review_buf holds uint8_t
          CountMod,   \* 256: number, buf and key_flag are uint8_t
          Radix,      \* 10: %d
          Reading     \* dht11_data[0..3] and ADC_Value[1] when a row is taken

ASSUME ReviewAssumption ==
    /\ Rows \in Nat \ {0} /\ LastRow \in Nat /\ ByteMod \in Nat \ {0}
    /\ CountMod \in Nat /\ Rows < CountMod /\ LastRow + 1 < CountMod
    /\ Radix \in Nat \ {0}
    /\ Reading \subseteq [hum : Nat, hum10 : Nat, temp : Nat, temp10 : Nat,
                          adc : Nat]

Byte == 0 .. ByteMod - 1
Count == 0 .. CountMod - 1
Flag == {0, 1, 2}             \* 2: any value that is neither 0 nor 1
Column == {0, 1, 2}           \* temperature, humidity, smoke
Row == [Column -> Byte]
Blank == [c \in Column |-> 0]

\* string1 .. string4; each prints a column of the row, the last one buf.
ColumnOf == [smoke |-> 2, temp |-> 0, hum |-> 1]
Line == DOMAIN ColumnOf \cup {"note"}
Nothing == -1
String == Byte \cup Count \cup {Nothing}

VARIABLES review_buf, number,   \* the rows and how many were recorded
          key_flag,             \* 1: the log is being reviewed
          buf,                  \* the cursor
          pc,                   \* where the display thread is
          line,                 \* the strings, as what they print
          screen,               \* the text drawn last on each line, and how far
                                \* the line is written on
          spilled               \* history: was a row recorded past the end
                                \* since the log was last forgotten?

vars == <<review_buf, number, key_flag, buf, pc, line, screen, spilled>>

NoText == [l \in Line |-> Nothing]
Unwritten == [l \in Line |-> [text |-> Nothing, upto |-> 0]]

Init == /\ review_buf = [r \in 0 .. Rows - 1 |-> Blank]
        /\ number = 0 /\ key_flag = 0 /\ buf = 0 /\ spilled = FALSE
        /\ pc = "sleep" /\ line = NoText /\ screen = Unwritten

----------------------------------------------------------------------------
(* The sensor thread, the part of an iteration that looks at PS2_KEY. Only *)
(* the interrupt can run inside it: it reads number and moves buf, so it   *)
(* can as well run before or after.                                        *)

Taken(r) == [c \in Column |->
               CASE c = 0 -> (r.temp * 10 + r.temp10) % ByteMod
                 [] c = 1 -> (r.hum * 10 + r.hum10) % ByteMod
                 [] OTHER -> r.adc % ByteMod]

\* number is incremented by the first of the three stores.
Record_SplitRow ==
    \E r \in Reading :
      /\ number < Rows - 1
      /\ review_buf' = [review_buf EXCEPT ![number][0] = Taken(r)[0],
                                          ![number + 1][1] = Taken(r)[1],
                                          ![number + 1][2] = Taken(r)[2]]
      /\ number' = number + 1
      /\ UNCHANGED <<key_flag, buf, pc, line, screen, spilled>>

\* PS2_KEY == 13
Record == \E r \in Reading :
            /\ number < Rows
            /\ review_buf' = [review_buf EXCEPT ![number] = Taken(r)]
            /\ number' = number + 1
            /\ UNCHANGED <<key_flag, buf, pc, line, screen, spilled>>

\* A store that hits number sends the stores after it to another row.
RestInRow(k, row) ==
    \E rest \in {{2}, {1, 2}} :
      review_buf' = [review_buf EXCEPT ![k] =
                       [c \in Column |-> IF c \in rest THEN row[c] ELSE @[c]]]

\* PS2_KEY == 13 when the log is full. Three bytes past the end can make any
\* byte of number, and of key_flag or buf besides.
RecordPastEnd ==
    /\ number >= Rows
    /\ number' \in Count /\ spilled' = TRUE
    /\ \/ key_flag' \in Flag /\ UNCHANGED <<review_buf, buf>>
       \/ buf' \in Count /\ UNCHANGED <<review_buf, key_flag>>
       \/ /\ \E r \in Reading, k \in 0 .. Rows - 1 : RestInRow(k, Taken(r))
          /\ UNCHANGED <<key_flag, buf>>
    /\ UNCHANGED <<pc, line, screen>>

\* PS2_KEY == 12
Review == /\ key_flag' = 1
          /\ UNCHANGED <<review_buf, number, buf, pc, line, screen, spilled>>

\* PS2_KEY == 10. The loop resets its own bound: it runs once and clears the
\* row behind the last one.
Forget == /\ number < Rows
          /\ review_buf' = [review_buf EXCEPT ![number] = Blank]
          /\ key_flag' = 0 /\ number' = 0 /\ buf' = 0 /\ spilled' = FALSE
          /\ UNCHANGED <<pc, line, screen>>

\* Of a full log that row is past the end. What it hits becomes zero, number
\* too: then the rest of row 0 is cleared.
ForgetPastEnd == /\ number >= Rows
                 /\ UNCHANGED review_buf \/ RestInRow(0, Blank)
                 /\ key_flag' = 0 /\ number' = 0 /\ buf' = 0 /\ spilled' = FALSE
                 /\ UNCHANGED <<pc, line, screen>>

dht11_handle == Record \/ RecordPastEnd \/ Review \/ Forget \/ ForgetPastEnd

(* The interrupt.                                                          *)
\* The cursor is not brought back to the rows that exist.
Moved_NoWrap(key) == IF key = 1 THEN IF buf =< LastRow THEN buf + 1 ELSE buf
                                ELSE IF buf > 0 THEN buf - 1 ELSE buf
Moved(key) == LET b == IF buf > number THEN 0 ELSE buf
              IN IF key = 1 THEN IF b =< LastRow THEN b + 1 ELSE b
                            ELSE IF b > 0 THEN b - 1 ELSE b

irq_callback == \E key \in {1, 2} :
                  /\ buf' = Moved(key)
                  /\ UNCHANGED <<review_buf, number, key_flag, pc, line, screen,
                                 spilled>>

----------------------------------------------------------------------------
(* The display thread, from its test of key_flag to its delay.             *)

After == [smoke |-> "temp", temp |-> "hum", hum |-> "note"]

\* With any other key_flag it draws nothing and sleeps on.
Look == /\ pc = "sleep"
        /\ \/ key_flag = 1 /\ pc' = "smoke"
           \/ key_flag = 0 /\ pc' = "erase"
        /\ UNCHANGED <<review_buf, number, key_flag, buf, line, screen, spilled>>

\* A read behind the last row finds some byte.
ReadColumn == /\ pc \in DOMAIN ColumnOf
              /\ \E v \in IF buf < Rows THEN {review_buf[buf][ColumnOf[pc]]}
                                        ELSE Byte :
                    line' = [line EXCEPT ![pc] = v]
              /\ pc' = After[pc]
              /\ UNCHANGED <<review_buf, number, key_flag, buf, screen, spilled>>

\* The row number is printed only the first time after a clear.
ReadNote_Once == /\ pc = "note"
                 /\ line' = [line EXCEPT !["note"] =
                               IF screen["note"].text = Nothing THEN buf
                               ELSE screen["note"].text]
                 /\ pc' = "draw"
                 /\ UNCHANGED <<review_buf, number, key_flag, buf, screen, spilled>>

ReadNote == /\ pc = "note"
            /\ line' = [line EXCEPT !["note"] = buf]
            /\ pc' = "draw"
            /\ UNCHANGED <<review_buf, number, key_flag, buf, screen, spilled>>

Digits(n) == CASE n < Radix -> 1
               [] n >= Radix /\ n < Radix * Radix -> 2
               [] n >= Radix * Radix /\ n < Radix * Radix * Radix -> 3
               [] OTHER -> 4
Larger(a, b) == IF a < b THEN b ELSE a

\* How many characters the formats of a line make of a value.
Letters(l, v) ==
    CASE v = Nothing -> 0
      [] v # Nothing /\ l = "smoke" -> Digits(v \div 25) + 1 + Larger(2, Digits(4 * v))
      [] v # Nothing /\ l = "note"  -> 6 + Digits(v)
      [] OTHER -> Digits(v) + 2

\* Four display_string calls. They draw the characters of the new text and
\* leave those that an older text has behind them. The strings are written
\* again before they are drawn again.
Draw == /\ pc = "draw"
        /\ screen' = [l \in Line |->
                        [text |-> line[l],
                         upto |-> Larger(screen[l].upto, Letters(l, line[l]))]]
        /\ line' = NoText /\ pc' = "sleep"
        /\ UNCHANGED <<review_buf, number, key_flag, buf, spilled>>

\* The strings are emptied; the 19 blanks drawn are longer than any text.
Erase == /\ pc = "erase"
         /\ screen' = Unwritten
         /\ line' = NoText /\ pc' = "sleep"
         /\ UNCHANGED <<review_buf, number, key_flag, buf, spilled>>

aht10_handle == Look \/ ReadColumn \/ ReadNote \/ Draw \/ Erase

Next == dht11_handle \/ irq_callback \/ aht10_handle

Spec == Init /\ [][Next]_vars

\* The display thread blocks in rt_thread_mdelay only.
FairSpec == Spec /\ WF_vars(aht10_handle)

----------------------------------------------------------------------------
(* Type invariant of the review log and of the display thread: whatever a  *)
(* stray write hits, buf and number are bytes.                             *)
TypeOK == /\ review_buf \in [0 .. Rows - 1 -> Row]
          /\ number \in Count /\ key_flag \in Flag /\ buf \in Count
          /\ pc \in {"sleep", "smoke", "temp", "hum", "note", "draw", "erase"}
          /\ line \in [Line -> String]
          /\ screen \in [Line -> [text : String, upto : Nat]]
          /\ spilled \in BOOLEAN

\* The rows that are recorded, as long as number still says which they are.
Records == IF spilled THEN << >> ELSE [k \in 1 .. number |-> review_buf[k - 1]]

(* review_buf and number implement a log: a row is recorded with all of    *)
(* its columns and recording one never disturbs another; the log is lost   *)
(* only when a row is recorded into a full one; and although Forget clears *)
(* a single row, the log is empty and sound afterwards, however many rows  *)
(* had been written past its end.                                          *)
Log == INSTANCE RecordLog
         WITH Entry <- {Taken(r) : r \in Reading}, Capacity <- Rows,
              log <- Records, lost <- spilled
ImplementsRecordLog == Log!Spec

(* The cursor stays within one row of those recorded, however presses,     *)
(* recording and forgetting interleave: irq_callback tests it before it    *)
(* moves it, not after. Rows recorded past the end can put it anywhere,    *)
(* until the log is forgotten.                                             *)
CursorFollows == spilled \/ buf =< number + 1

(* However the reads were torn apart and whatever a stray write made of    *)
(* the strings, the screen heals: when nobody touches pad and buttons any  *)
(* more each line comes to show what belongs to the row at the cursor, and *)
(* nothing at all when the log is not being reviewed. While it is, a line  *)
(* can go on ending in the last characters of an older, longer text.       *)
ScreenHeals ==
    <>[][~(dht11_handle \/ irq_callback)]_vars
      => <>[](/\ key_flag = 0 => screen = Unwritten
              /\ key_flag = 1 =>
                   /\ screen["note"].text = buf
                   /\ \A l \in DOMAIN ColumnOf :
                        buf < Rows => screen[l].text = review_buf[buf][ColumnOf[l]])
=============================================================================
