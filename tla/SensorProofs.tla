---------------------------- MODULE SensorProofs ----------------------------
(***************************************************************************)
(* The two halves of dht11_handle and the display it shares. The review    *)
(* log, for every size of the log and every reading: the cursor follows    *)
(* the rows, and the rows implement the log of RecordLog. The sensor's     *)
(* protocol, for every number of bits in a byte, every timing within the   *)
(* assumptions and every measurement: what a read delivers, when it cannot *)
(* end, and what the alarm is raised on. The display bus, for every screen *)
(* and every text: what a thread that cuts into a byte does to the panel.  *)
(***************************************************************************)
EXTENDS ReviewLog, Dht11, LcdBus, SequenceTheorems, WellFoundedInduction, TLAPS

----------------------------------------------------------------------------
(* The review log.                                                         *)
IInv == TypeOK /\ CursorFollows

(* A taken row has a byte in every column, whatever the reading.           *)
LEMMA TakenIsRow == \A r \in Reading : Taken(r) \in Row
<1> SUFFICES ASSUME NEW r \in Reading  PROVE Taken(r) \in Row
  OBVIOUS
<1>1. /\ r.temp \in Nat /\ r.temp10 \in Nat /\ r.hum \in Nat /\ r.hum10 \in Nat
      /\ r.adc \in Nat
  BY ReviewAssumption
<1>2. ByteMod \in Nat \ {0}
  BY ReviewAssumption
<1>3. \A v \in Nat : v % ByteMod \in Byte
  BY <1>2 DEF Byte
<1>4. /\ (r.temp * 10 + r.temp10) % ByteMod \in Byte
      /\ (r.hum * 10 + r.hum10) % ByteMod \in Byte
      /\ r.adc % ByteMod \in Byte
  BY <1>1, <1>3
<1>5. QED
  BY <1>4 DEF Taken, Row, Column

LEMMA BlankIsRow == Blank \in Row
  BY ReviewAssumption DEF Blank, Row, Byte

(* The stores that miss their row leave rows of bytes behind.              *)
LEMMA RestKeepsRows ==
    ASSUME review_buf \in [0 .. Rows - 1 -> Row],
           NEW row0 \in 0 .. Rows - 1, NEW row \in Row, RestInRow(row0, row)
    PROVE  review_buf' \in [0 .. Rows - 1 -> Row]
<1>1. PICK rest \in {{2}, {1, 2}} :
        review_buf' = [review_buf EXCEPT ![row0] =
                         [c \in Column |-> IF c \in rest THEN row[c] ELSE @[c]]]
  BY Zenon DEF RestInRow
<1>2. [c \in Column |-> IF c \in rest THEN row[c] ELSE review_buf[row0][c]] \in Row
  BY DEF Row
<1>3. QED
  BY <1>1, <1>2

(* The length of a text is a number of characters.                         *)
LEMMA LettersAreNat == \A l \in Line, v \in String : Letters(l, v) \in Nat
<1> SUFFICES ASSUME NEW l \in Line, NEW v \in String  PROVE Letters(l, v) \in Nat
  OBVIOUS
<1>1. \A v0 \in Int : Digits(v0) \in Nat
  BY DEF Digits
<1>2. v \in Int /\ v \div 25 \in Int /\ 4 * v \in Int
  BY DEF String, Nothing, Byte, Count
<1>3. Digits(v \div 25) \in Nat /\ Digits(4 * v) \in Nat /\ Digits(v) \in Nat
  BY <1>1, <1>2
<1>4. QED
  BY <1>3 DEF Letters, Larger

(* The log is empty at boot.                                               *)
LEMMA Initial == Init => IInv
<1> SUFFICES ASSUME Init  PROVE IInv
  OBVIOUS
<1>1. NoText \in [Line -> String] /\ Unwritten \in [Line -> [text : String, upto : Nat]]
  BY DEF NoText, Unwritten, String
<1>2. 0 \in Count /\ 0 \in Flag
  BY ReviewAssumption DEF Count, Flag
<1>3. spilled \in BOOLEAN
  BY Zenon DEF Init
<1>4. TypeOK
  BY <1>1, <1>2, <1>3, BlankIsRow DEF Init, TypeOK
<1>5. CursorFollows
  BY DEF Init, CursorFollows
<1>6. QED  BY <1>4, <1>5 DEF IInv

(* Recording, reviewing, forgetting, presses and every step of the display *)
(* thread preserve the invariant.                                          *)
LEMMA Inductive == IInv /\ [Next]_vars => IInv'
<1> SUFFICES ASSUME IInv, [Next]_vars  PROVE IInv'
  OBVIOUS
<1> USE ReviewAssumption DEF IInv, TypeOK, CursorFollows
<1>0. /\ 0 \in Count /\ Count \subseteq Nat /\ {0, 1} \subseteq Flag
      /\ NoText \in [Line -> String]
      /\ Unwritten \in [Line -> [text : String, upto : Nat]]
      /\ pc \in {"sleep", "smoke", "temp", "hum", "note", "draw", "erase"}
  BY DEF Count, Flag, NoText, Unwritten, String
<1>1. CASE Record
  <2>1. PICK r \in Reading :
          /\ number < Rows /\ number' = number + 1
          /\ review_buf' = [review_buf EXCEPT ![number] = Taken(r)]
          /\ UNCHANGED <<key_flag, buf, pc, line, screen, spilled>>
    BY <1>1 DEF Record
  <2>2. review_buf' \in [0 .. Rows - 1 -> Row] /\ number' \in Count
    BY <2>1, TakenIsRow DEF Count
  <2>3. QED  BY <1>0, <2>1, <2>2
<1>2. CASE RecordPastEnd
  <2>1. spilled'
    BY <1>2, Zenon DEF RecordPastEnd
  <2>2. spilled' \in BOOLEAN
    BY <1>2, Zenon DEF RecordPastEnd
  <2>3. review_buf' \in [0 .. Rows - 1 -> Row]
    BY <1>2, RestKeepsRows, TakenIsRow DEF RecordPastEnd
  <2>4. /\ number' \in Count /\ key_flag' \in Flag /\ buf' \in Count
        /\ UNCHANGED <<pc, line, screen>>
    BY <1>2 DEF RecordPastEnd
  <2>5. QED  BY <2>1, <2>2, <2>3, <2>4
<1>3. CASE Review
  BY <1>0, <1>3 DEF Review
<1>4. CASE Forget \/ ForgetPastEnd
  <2>1. spilled' \in BOOLEAN
    BY <1>4, Zenon DEF Forget, ForgetPastEnd
  <2>2. review_buf' \in [0 .. Rows - 1 -> Row]
    BY <1>4, BlankIsRow, RestKeepsRows DEF Forget, ForgetPastEnd
  <2>3. /\ number' = 0 /\ buf' = 0 /\ key_flag' = 0
        /\ UNCHANGED <<pc, line, screen>>
    BY <1>4 DEF Forget, ForgetPastEnd
  <2>4. QED  BY <1>0, <2>1, <2>2, <2>3
<1>5. CASE irq_callback
  <2>1. /\ UNCHANGED <<review_buf, number, key_flag, pc, line, screen, spilled>>
        /\ \E key \in {1, 2} : buf' = Moved(key)
    BY <1>5 DEF irq_callback
  <2>2. ASSUME NEW key \in {1, 2}
        PROVE  /\ Moved(key) \in Count
               /\ Moved(key) =< number + 1 \/ (number + 1 < buf /\ spilled)
    <3>1. /\ buf \in 0 .. CountMod - 1 /\ number \in Nat /\ LastRow \in Nat
          /\ LastRow + 1 < CountMod /\ CountMod \in Nat
          /\ spilled \/ buf =< number + 1
      BY DEF Count
    <3> HIDE ReviewAssumption DEF IInv, TypeOK, CursorFollows
    <3>2. QED  BY <3>1 DEF Moved, Count
  <2>3. QED  BY <1>0, <2>1, <2>2
<1>6. CASE Look
  BY <1>6 DEF Look
<1>7. CASE ReadColumn
  <2>0. pc \in DOMAIN ColumnOf /\ ColumnOf[pc] \in Column
    BY <1>7, <1>0 DEF ReadColumn, ColumnOf, Column
  <2>1. PICK v \in Byte : line' = [line EXCEPT ![pc] = v]
    <3>1. buf < Rows => review_buf[buf][ColumnOf[pc]] \in Byte
      BY <1>0, <2>0 DEF Row
    <3>2. QED  BY <1>7, <3>1 DEF ReadColumn
  <2>2. line' \in [Line -> String]
    BY <2>1 DEF String
  <2>3. pc' \in {"temp", "hum", "note"}
    BY <1>7 DEF ReadColumn, After, ColumnOf
  <2>4. UNCHANGED <<review_buf, number, key_flag, buf, screen, spilled>>
    BY <1>7 DEF ReadColumn
  <2>5. QED  BY <2>2, <2>3, <2>4
<1>8. CASE ReadNote
  BY <1>8 DEF ReadNote, String
<1>9. CASE Draw
  <2>1. ASSUME NEW l \in Line
        PROVE  [text |-> line[l], upto |-> Larger(screen[l].upto, Letters(l, line[l]))]
                 \in [text : String, upto : Nat]
    BY LettersAreNat DEF Larger
  <2>2. screen' \in [Line -> [text : String, upto : Nat]]
    BY <1>9, <2>1 DEF Draw
  <2>3. QED  BY <1>9, <1>0, <2>2 DEF Draw
<1>10. CASE Erase
  BY <1>10, <1>0 DEF Erase
<1>11. CASE UNCHANGED vars
  BY <1>11 DEF vars
<1>12. QED
  BY <1>1, <1>2, <1>3, <1>4, <1>5, <1>6, <1>7, <1>8, <1>9, <1>10, <1>11
  DEF Next, dht11_handle, aht10_handle

(* The invariant holds in every state.                                     *)
LEMMA Always == Spec => []IInv
  BY Initial, Inductive, PTL DEF Spec

----------------------------------------------------------------------------
(* review_buf, its counters, the strings and the screen keep their types:  *)
(* whatever is recorded past the end, what is in the rows are bytes.       *)
THEOREM ReviewTypeCorrect == Spec => []TypeOK
<1>1. IInv => TypeOK
  BY DEF IInv
<1>2. QED  BY <1>1, Always, PTL

(* However presses, recording and forgetting interleave, the cursor is at  *)
(* most one past the row behind the last, unless a row was recorded past   *)
(* the end since the log was last forgotten.                               *)
THEOREM ReviewCursorFollows == Spec => []CursorFollows
<1>1. IInv => CursorFollows
  BY DEF IInv
<1>2. QED  BY <1>1, Always, PTL

----------------------------------------------------------------------------
(* While nothing was recorded past the end, number counts rows that exist. *)
NumberFits == spilled \/ number =< Rows

LEMMA NumberStaysFitting == Spec => []NumberFits
<1>1. Init => NumberFits
  BY ReviewAssumption DEF Init, NumberFits
<1>2. TypeOK /\ NumberFits /\ [Next]_vars => NumberFits'
  <2> SUFFICES ASSUME TypeOK, NumberFits, [Next]_vars  PROVE NumberFits'
    OBVIOUS
  <2>1. CASE Record
    BY <2>1, ReviewAssumption DEF Record, NumberFits, TypeOK, Count
  <2>2. CASE RecordPastEnd
    BY <2>2 DEF RecordPastEnd, NumberFits
  <2>3. CASE Forget \/ ForgetPastEnd
    BY <2>3, ReviewAssumption DEF Forget, ForgetPastEnd, NumberFits
  <2>4. CASE UNCHANGED <<number, spilled>>
    BY <2>4 DEF NumberFits
  <2>5. QED
    BY <2>1, <2>2, <2>3, <2>4 DEF Next, vars, dht11_handle, aht10_handle, Review,
         irq_callback, Look, ReadColumn, ReadNote, Draw, Erase
<1>3. QED
  BY <1>1, <1>2, ReviewTypeCorrect, PTL DEF Spec

(* Every step of the three actors is a step of RecordLog or none.          *)
LEMMA StepOfLog ==
    TypeOK /\ NumberFits /\ [Next]_vars
      => [Log!Take \/ Log!TakeOneTooMany \/ Log!Forget]_<<Records, spilled>>
<1> SUFFICES ASSUME TypeOK, NumberFits, [Next]_vars
             PROVE  [Log!Take \/ Log!TakeOneTooMany \/ Log!Forget]_<<Records, spilled>>
  OBVIOUS
<1>1. /\ number \in Nat /\ review_buf \in [0 .. Rows - 1 -> Row] /\ Rows \in Nat
      /\ spilled \in BOOLEAN
  BY ReviewAssumption DEF TypeOK, Count
<1>2. CASE Record
  <2>1. PICK r \in Reading :
          /\ number < Rows
          /\ review_buf' = [review_buf EXCEPT ![number] = Taken(r)]
          /\ number' = number + 1 /\ UNCHANGED spilled
    BY <1>2 DEF Record
  <2>2. CASE spilled
    BY <2>1, <2>2 DEF Records
  <2>3. CASE ~spilled
    <3>1. /\ Records = [m \in 1 .. number |-> review_buf[m - 1]]
          /\ Records' = [m \in 1 .. number + 1 |-> review_buf'[m - 1]]
      BY <2>1, <2>3 DEF Records
    <3>2. Records \in Seq(Row) /\ Len(Records) = number
      BY <1>1, <2>1, <3>1
    <3>3. Records' = Append(Records, Taken(r))
      BY <1>1, <2>1, <3>1, <3>2
    <3>4. QED
      BY <2>1, <2>3, <3>2, <3>3 DEF Log!Take
  <2>4. QED  BY <2>2, <2>3
<1>3. CASE RecordPastEnd
  <2>1. number >= Rows
    BY <1>3 DEF RecordPastEnd
  <2>2. spilled' /\ spilled' = TRUE
    BY <1>3, Zenon DEF RecordPastEnd
  <2>3. Records' = << >>
    BY <2>2 DEF Records
  <2>4. CASE spilled
    BY <1>1, <2>2, <2>3, <2>4 DEF Records
  <2>5. CASE ~spilled
    <3>1. number = Rows
      BY <1>1, <2>1, <2>5 DEF NumberFits
    <3>2. Records \in Seq(Row) /\ Len(Records) = Rows
      BY <1>1, <2>5, <3>1 DEF Records
    <3>3. QED  BY <2>2, <2>3, <3>2 DEF Log!TakeOneTooMany
  <2>6. QED  BY <2>4, <2>5
<1>4. CASE Forget \/ ForgetPastEnd
  <2>1. number' = 0
    BY <1>4 DEF Forget, ForgetPastEnd
  <2>2. ~spilled' /\ spilled' = FALSE
    BY <1>4, Zenon DEF Forget, ForgetPastEnd
  <2>3. Records' = << >>
    BY <2>1, <2>2 DEF Records
  <2>4. QED  BY <2>2, <2>3 DEF Log!Forget
<1>5. CASE UNCHANGED <<review_buf, number, spilled>>
  BY <1>5 DEF Records
<1>6. QED
  BY <1>2, <1>3, <1>4, <1>5 DEF Next, vars, dht11_handle, aht10_handle, Review,
       irq_callback, Look, ReadColumn, ReadNote, Draw, Erase

(* The array, its unchecked counter and the single row that Forget clears  *)
(* implement a log: records are kept whole, in order and undisturbed until *)
(* one more than fits is taken, and forgetting leaves a sound, empty log.  *)
THEOREM ReviewImplementsRecordLog == Spec => ImplementsRecordLog
<1>1. Init => Log!Init
  BY DEF Init, Log!Init, Records
<1>2. QED
  BY <1>1, StepOfLog, ReviewTypeCorrect, NumberStaysFitting, PTL
  DEF Spec, ImplementsRecordLog, Log!Spec

----------------------------------------------------------------------------
(* The sensor's protocol.                                                  *)

(* The bit of x that has m bits below it.                                  *)
Bit(x, m) == (x \div 2^m) % 2

(* How many bits the thread has stored: the number of the one it is at.    *)
Stored == (k - 1) * Width + bits
SentBit == Bit(sent[k], Width - 1 - bits)

DhtTypeOK ==
    /\ dht11_data \in [1 .. 5 -> Octet] /\ sent \in [1 .. 5 -> Octet]
    /\ k \in 1 .. 6 /\ bits \in 0 .. Width - 1 /\ read_data \in 0 .. 2^bits - 1
    /\ n \in 0 .. ReadEvery /\ i \in 0 .. AlarmEvery /\ beep_value3 \in {0, 1}
    /\ stage \in {"loop", "low1", "high", "low2", "rise", "delay", "fall"}
    /\ d \in 0 .. Sample - 1 /\ answers \in BOOLEAN
    /\ seg \in 0 .. Last /\ age \in Nat
    /\ held \in Nat /\ total \in 0 .. HeldMax /\ over \in BOOLEAN

(* Bytes are complete outside of dht11_read_byte, and the loop has read    *)
(* either all of them or, before the first read, none.                     *)
Phases ==
    /\ stage = "loop" => k \in {1, 6} /\ bits = 0
    /\ stage \in {"low1", "high", "low2"} => k = 1 /\ bits = 0
    /\ stage # "loop" => k < 6
    /\ stage = "loop" /\ k = 1 => n = i /\ ~over /\ answers
    /\ ~answers => seg = 0 /\ stage = "low1"
    /\ answers /\ seg < Last => age < Duration

(* The thread is never ahead of the frame.                                 *)
Behind ==
    /\ stage = "high" => seg >= 1
    /\ stage = "low2" => seg >= 2
    /\ stage = "rise" => seg >= 2 * Stored + 3
    /\ stage \in {"delay", "fall"} => seg >= 2 * Stored + 4
    /\ stage = "loop" /\ k = 6 => seg >= Last - 1

(* The thread has missed a bit: once it has, it never catches up.          *)
Slipped == \/ stage = "rise" /\ seg >= 2 * Stored + 5
           \/ stage \in {"delay", "fall"} /\ seg >= 2 * Stored + 6

(* A one is stored only for a one, unless a bit was missed.                *)
OnesSoFar ==
    /\ \A y \in 1 .. k - 1, j \in 0 .. Width - 1 :
         Bit(dht11_data[y], Width - 1 - j) = 1 => Bit(sent[y], Width - 1 - j) = 1
    /\ \A j \in 0 .. bits - 1 :
         Bit(read_data, bits - 1 - j) = 1 => Bit(sent[k], Width - 1 - j) = 1
OnesAreOnes ==
    /\ stage = "delay" /\ seg = 2 * Stored + 4 => age + d >= Sample
    /\ ~Slipped => OnesSoFar /\ (stage = "fall" => SentBit = 1)

(* With short hold-ups the thread is where the line is: in every stage the *)
(* line is at one of two levels, and at the one that ends the stage only   *)
(* for as long as the thread is being held up.                             *)
Late(stg, from) == stage = stg => /\ seg \in {from, from + 1}
                                  /\ seg = from + 1 => age =< held
InTime ==
    ~over /\ answers =>
      /\ held =< Slack
      /\ Late("low1", 0) /\ Late("high", 1) /\ Late("low2", 2)
      /\ Late("rise", 2 * Stored + 3) /\ Late("fall", 2 * Stored + 4)
      /\ stage = "delay" => seg \in {2 * Stored + 4, 2 * Stored + 5}
      /\ stage = "delay" /\ seg = 2 * Stored + 4 => age + d =< Sample + held
      /\ stage = "delay" /\ seg = 2 * Stored + 5 =>
           /\ SentBit = 0
           /\ HighZero + age + d =< Sample + Slack + held

(* What was stored with short hold-ups is the beginning of the frame.      *)
ExactSoFar == /\ \A y \in 1 .. k - 1 : dht11_data[y] = sent[y]
              /\ k < 6 => read_data = sent[k] \div 2^(Width - bits)
Exact == ~over => ExactSoFar

DhtInv == DhtTypeOK /\ Phases /\ Behind /\ OnesAreOnes /\ InTime /\ Exact

----------------------------------------------------------------------------
(* Quotient and remainder are the only way to write x with this divisor.   *)
LEMMA Division ==
  ASSUME NEW x \in Nat, NEW p \in Nat \ {0}, NEW a \in Int, NEW c \in 0 .. p - 1,
         x = p * a + c
  PROVE  x \div p = a /\ x % p = c
<1> DEFINE q == x \div p
           r == x % p
<1>1. q \in Int /\ r \in 0 .. p - 1 /\ x = p * q + r
  OBVIOUS
<1> HIDE DEF q, r
<1>2. p * (q - a) = c - r
  BY <1>1
<1>3. c - r < p /\ c - r > -p
  BY <1>1
<1>4. q - a \in Int
  BY <1>1
<1> DEFINE e == q - a
<1>5. e \in Int /\ p * e < p /\ p * e > -p
  BY <1>2, <1>3, <1>4
<1> HIDE DEF e
<1>6. e = 0
  <2>1. e >= 1 => p * e >= p
    BY <1>5
  <2>2. e =< -1 => p * e =< -p
    BY <1>5
  <2>3. QED  BY <1>5, <2>1, <2>2
<1>7. q = a /\ r = c
  BY <1>1, <1>6 DEF e
<1>8. QED  BY <1>7 DEF q, r

(* Every number has a quotient and a remainder.                            *)
LEMMA Divide ==
  ASSUME NEW x \in Nat, NEW p \in Nat \ {0}
  PROVE  \E a \in Nat, c \in 0 .. p - 1 : x = p * a + c /\ x \div p = a /\ x % p = c
<1> DEFINE q == x \div p
           r == x % p
<1>1. q \in Int /\ r \in 0 .. p - 1 /\ x = p * q + r
  OBVIOUS
<1> HIDE DEF q, r
<1>2. q >= 0
  <2>1. q =< -1 => p * q =< -p
    BY <1>1
  <2>2. QED  BY <1>1, <2>1
<1>3. QED  BY <1>1, <1>2 DEF q, r

LEMMA Power == /\ \A m \in 0 .. Width : 2^m \in Nat \ {0}
               /\ \A m \in 0 .. Width - 1 : 2^(m + 1) = 2 * 2^m
               /\ 2^0 = 1
<1>1. ASSUME NEW m \in 0 .. Width  PROVE 2^m \in Nat \ {0}
  <2>1. CASE m < Width
    BY <2>1, PowersOfTwo, Dht11Assumption
  <2>2. CASE m = Width
    <3>1. Width - 1 \in 0 .. Width - 1 /\ (Width - 1) + 1 = Width
      BY Dht11Assumption
    <3>2. 2^(Width - 1) \in Nat \ {0} /\ 2^((Width - 1) + 1) = 2 * 2^(Width - 1)
      BY <3>1, PowersOfTwo
    <3> DEFINE h == 2^(Width - 1)
    <3>3. h \in Nat \ {0} /\ 2^Width = 2 * h
      BY <3>1, <3>2
    <3> HIDE DEF h
    <3>4. 2^Width \in Nat \ {0}
      BY <3>3
    <3>5. QED  BY <2>2, <3>4
  <2>3. QED  BY <2>1, <2>2, Dht11Assumption
<1>2. QED  BY <1>1, PowersOfTwo

(* A bit that is shifted in is the lowest, and the others move up.         *)
LEMMA ShiftIn ==
  ASSUME NEW r \in Nat, NEW v \in {0, 1}
  PROVE  /\ (2 * r + v) % 2 = v
         /\ \A q \in Nat \ {0} : (2 * r + v) \div (2 * q) = r \div q
<1>1. (2 * r + v) % 2 = v
  <2>1. 2 * r + v \in Nat /\ v \in 0 .. 2 - 1
    OBVIOUS
  <2>2. QED  BY <2>1, Division
<1>2. ASSUME NEW q \in Nat \ {0}  PROVE (2 * r + v) \div (2 * q) = r \div q
  <2>1. PICK a \in Nat, c \in 0 .. q - 1 : r = q * a + c /\ r \div q = a
    BY Divide
  <2>2. /\ 2 * r + v \in Nat /\ 2 * q \in Nat \ {0} /\ 2 * c + v \in 0 .. 2 * q - 1
        /\ 2 * r + v = (2 * q) * a + (2 * c + v)
    BY <2>1
  <2>3. (2 * r + v) \div (2 * q) = a
    BY <2>2, Division
  <2>4. QED  BY <2>1, <2>3
<1>3. QED  BY <1>1, <1>2

(* The bits above q are those above 2 * q and one more.                    *)
LEMMA OneBitMore ==
  ASSUME NEW x \in Nat, NEW q \in Nat \ {0}
  PROVE  x \div q = 2 * (x \div (2 * q)) + ((x \div q) % 2)
<1>1. 2 * q \in Nat \ {0}
  OBVIOUS
<1>2. PICK a \in Nat, c \in 0 .. 2 * q - 1 : x = (2 * q) * a + c /\ x \div (2 * q) = a
  BY <1>1, Divide
<1> DEFINE e == IF c < q THEN 0 ELSE 1
<1>3. e \in 0 .. 2 - 1 /\ c - q * e \in 0 .. q - 1 /\ 2 * a + e \in Nat
  BY <1>2
<1>4. x = q * (2 * a + e) + (c - q * e)
  <2>1. q * (2 * a + 0) = (2 * q) * a /\ q * (2 * a + 1) = (2 * q) * a + q
    OBVIOUS
  <2>2. CASE c < q
    BY <1>2, <2>1, <2>2
  <2>3. CASE ~(c < q)
    BY <1>2, <2>1, <2>3
  <2>4. QED  BY <2>2, <2>3
<1> HIDE DEF e
<1>5. x \div q = 2 * a + e
  BY <1>3, <1>4, Division
<1>6. (2 * a + e) % 2 = e
  BY <1>3, Division
<1>7. QED  BY <1>2, <1>5, <1>6

(* A set of natural numbers has a least one.                               *)
LEMMA LeastNumber ==
  ASSUME NEW S \in SUBSET Nat, S # {}
  PROVE  \E l \in S : \A m \in S : l =< m
<1> DEFINE R == OpToRel(<, Nat)
<1>1. IsWellFoundedOn(R, Nat)
  BY NatLessThanWellFounded, Zenon
<1>2. \A l, m \in Nat : l < m => <<l, m>> \in R
  BY DEF OpToRel
<1> HIDE DEF R
<1>3. PICK l \in S : \A m \in S : ~(<<m, l>> \in R)
  BY <1>1, WFMin
<1>4. \A m \in S : ~(m < l)
  BY <1>2, <1>3, Zenon
<1>5. QED
  BY <1>4

(* No power is above the last one: otherwise take the largest that is.     *)
LEMMA PowerBelow == \A m \in 0 .. Width : 2^m =< 2^Width
<1> DEFINE S == {e \in 0 .. Width : ~(2^(Width - e) =< 2^Width)}
<1>0. Width \in Nat
  BY Dht11Assumption
<1>1. ASSUME S # {}  PROVE FALSE
  <2>1. S \in SUBSET Nat
    BY <1>0
  <2>2. PICK e \in S : \A f \in S : e =< f
    BY <1>1, <2>1, LeastNumber
  <2>3. e \in 0 .. Width /\ ~(2^(Width - e) =< 2^Width)
    BY <2>2
  <2>4. e # 0
    BY <1>0, <2>3, Power
  <2>5. e - 1 \in 0 .. Width /\ e - 1 \notin S
    BY <1>0, <2>2, <2>3, <2>4
  <2>6. 2^(Width - (e - 1)) =< 2^Width
    BY <2>5
  <2>7. /\ Width - (e - 1) = (Width - e) + 1 /\ Width - e \in 0 .. Width - 1
        /\ Width \in 0 .. Width /\ Width - e \in 0 .. Width
    BY <1>0, <2>3, <2>4
  <2>8. 2^(Width - (e - 1)) = 2 * 2^(Width - e)
    BY <2>7, Power
  <2> DEFINE a == 2^(Width - e)
             b == 2^Width
  <2>9. a \in Nat /\ b \in Nat /\ ~(a =< b) /\ 2 * a =< b
    BY <2>3, <2>6, <2>7, <2>8, Power
  <2> HIDE DEF a, b
  <2>10. QED  BY <2>9
<1>2. ASSUME NEW m \in 0 .. Width  PROVE 2^m =< 2^Width
  <2>1. Width - m \in 0 .. Width /\ Width - (Width - m) = m
    BY <1>0
  <2>2. Width - m \notin S
    BY <1>1
  <2>3. 2^(Width - (Width - m)) =< 2^Width
    BY <2>1, <2>2
  <2>4. QED  BY <2>1, <2>3
<1>3. QED  BY <1>2

(* A bit is a zero or a one.                                               *)
LEMMA BitIs ==
  ASSUME NEW x \in Nat, NEW m \in 0 .. Width
  PROVE  Bit(x, m) \in {0, 1}
<1>1. 2^m \in Nat \ {0}
  BY Power
<1>2. PICK a \in Nat : x \div 2^m = a
  BY <1>1, Divide
<1>3. a % 2 \in {0, 1}
  OBVIOUS
<1>4. QED  BY <1>2, <1>3 DEF Bit

(* read_data <<= 1; read_data |= v; never loses a bit of an unfinished     *)
(* byte.                                                                   *)
LEMMA NewByte ==
  ASSUME NEW w \in 0 .. Width - 1, NEW r \in 0 .. 2^w - 1, NEW v \in {0, 1}
  PROVE  /\ (2 * r + v) % 2^Width = 2 * r + v
         /\ 2 * r + v \in 0 .. 2^(w + 1) - 1
         /\ 2 * r + v \in Octet
         /\ Bit(2 * r + v, 0) = v
         /\ \A m \in 0 .. w - 1 : Bit(2 * r + v, m + 1) = Bit(r, m)
<1>0. Width \in Nat /\ w \in 0 .. Width /\ w + 1 \in 0 .. Width /\ Width \in 0 .. Width
  BY Dht11Assumption
<1> DEFINE p == 2^w
           t == 2^(w + 1)
           b == 2^Width
           z == 2 * r + v
<1>1. /\ p \in Nat \ {0} /\ t \in Nat \ {0} /\ b \in Nat \ {0} /\ t = 2 * p /\ t =< b
      /\ r \in 0 .. p - 1
  BY <1>0, Power, PowerBelow
<1>2. z \in Nat /\ z \in 0 .. t - 1 /\ z \in 0 .. b - 1 /\ z % b = z
  <2> HIDE DEF p, t, b
  <2>1. z \in Nat /\ z \in 0 .. t - 1 /\ z \in 0 .. b - 1
    BY <1>1
  <2> HIDE DEF z
  <2>2. z = b * 0 + z
    BY <1>1, <2>1
  <2>3. z % b = z
    BY <1>1, <2>1, <2>2, Division
  <2>4. QED  BY <2>1, <2>3
<1>3. r \in Nat
  BY <1>1
<1>4. Bit(z, 0) = v
  <2>1. z \div 1 = z
    <3> HIDE DEF z
    <3>1. z = 1 * z + 0 /\ 0 \in 0 .. 1 - 1 /\ z \in Int /\ 1 \in Nat \ {0}
      BY <1>2
    <3>2. QED  BY <1>2, <3>1, Division
  <2>2. z % 2 = v
    BY <1>3, ShiftIn
  <2>3. QED  BY <2>1, <2>2, Power DEF Bit
<1>5. ASSUME NEW m \in 0 .. w - 1  PROVE Bit(z, m + 1) = Bit(r, m)
  <2>1. m \in 0 .. Width - 1 /\ m \in 0 .. Width
    BY <1>0
  <2>2. 2^m \in Nat \ {0} /\ 2^(m + 1) = 2 * 2^m
    BY <2>1, Power
  <2>3. z \div (2 * 2^m) = r \div 2^m
    BY <1>3, <2>2, ShiftIn
  <2>4. QED  BY <2>2, <2>3 DEF Bit
<1>6. QED  BY <1>2, <1>4, <1>5 DEF Octet

(* The first bits of a byte: one more, none and all.                       *)
LEMMA Prefix ==
  ASSUME NEW x \in Octet
  PROVE  /\ \A w \in 0 .. Width - 1 :
              x \div 2^(Width - (w + 1)) = 2 * (x \div 2^(Width - w)) + Bit(x, Width - 1 - w)
         /\ x \div 2^(Width - 0) = 0 /\ x \div 2^(Width - Width) = x /\ x \in Nat
<1>0. /\ Width \in Nat /\ Width \in 0 .. Width /\ Width - 0 = Width
      /\ Width - Width = 0 /\ 2^Width \in Nat \ {0} /\ 2^0 = 1
  BY Dht11Assumption, Power
<1>1. x \in Nat /\ x \in 0 .. 2^Width - 1
  BY <1>0 DEF Octet
<1>2. ASSUME NEW w \in 0 .. Width - 1
      PROVE x \div 2^(Width - (w + 1)) = 2 * (x \div 2^(Width - w)) + Bit(x, Width - 1 - w)
  <2>1. /\ Width - (w + 1) = Width - 1 - w /\ Width - w = (Width - 1 - w) + 1
        /\ Width - 1 - w \in 0 .. Width - 1 /\ Width - 1 - w \in 0 .. Width
    BY <1>0
  <2>2. 2^(Width - 1 - w) \in Nat \ {0} /\ 2^(Width - w) = 2 * 2^(Width - 1 - w)
    BY <2>1, Power
  <2>3. x \div 2^(Width - 1 - w)
          = 2 * (x \div (2 * 2^(Width - 1 - w))) + ((x \div 2^(Width - 1 - w)) % 2)
    BY <1>1, <2>2, OneBitMore
  <2>4. QED  BY <2>1, <2>2, <2>3 DEF Bit
<1>3. x \div 2^Width = 0
  <2> DEFINE b == 2^Width
  <2>1. b \in Nat \ {0} /\ x \in 0 .. b - 1
    BY <1>0, <1>1
  <2> HIDE DEF b
  <2>2. x = b * 0 + x
    BY <1>1, <2>1
  <2>3. x \div b = 0
    BY <1>1, <2>1, <2>2, Division
  <2>4. QED  BY <2>3 DEF b
<1>4. x \div 1 = x
  <2>1. x = 1 * x + 0 /\ 0 \in 0 .. 1 - 1 /\ x \in Int /\ 1 \in Nat \ {0}
    BY <1>1
  <2>2. QED  BY <1>1, <2>1, Division
<1>5. QED  BY <1>0, <1>1, <1>2, <1>3, <1>4

(* The bits of the frame are those of its bytes, the highest first.        *)
LEMMA BitOfIs ==
  ASSUME NEW y \in 1 .. 5, NEW j \in 0 .. Width - 1, NEW bytes
  PROVE  BitOf(bytes, (y - 1) * Width + j) = Bit(bytes[y], Width - 1 - j)
<1>0. Width \in Nat \ {0}
  BY Dht11Assumption
<1> DEFINE b == (y - 1) * Width + j
<1>1. b \in Nat /\ b = Width * (y - 1) + j /\ y - 1 \in Int
  BY <1>0
<1> HIDE DEF b
<1>2. b \div Width = y - 1 /\ b % Width = j
  BY <1>0, <1>1, Division
<1>3. b \div Width + 1 = y
  BY <1>2
<1>4. BitOf(bytes, b) = Bit(bytes[y], Width - 1 - j)
  BY <1>2, <1>3 DEF BitOf, Bit
<1>5. QED  BY <1>4 DEF b

LEMMA BitAt ==
  ASSUME NEW b \in 0 .. Bits - 1
  PROVE  \E y \in 1 .. 5, j \in 0 .. Width - 1 : b = (y - 1) * Width + j
<1>0. Width \in Nat \ {0} /\ b \in Nat /\ b < 5 * Width
  BY Dht11Assumption DEF Bits
<1>1. PICK a \in Nat, j \in 0 .. Width - 1 : b = Width * a + j
  BY <1>0, Divide
<1>2. a < 5
  <2>1. a >= 5 => Width * a >= Width * 5
    BY <1>0
  <2>2. QED  BY <1>0, <1>1, <2>1
<1>3. a + 1 \in 1 .. 5 /\ b = ((a + 1) - 1) * Width + j
  BY <1>0, <1>1, <1>2
<1>4. QED  BY <1>3

(* The sensor sends five bytes.                                            *)
LEMMA FrameIs == \A m \in Measured : Frame(m) \in [1 .. 5 -> Octet]
<1> SUFFICES ASSUME NEW m \in Measured  PROVE Frame(m) \in [1 .. 5 -> Octet]
  OBVIOUS
<1>1. m \in [1 .. 4 -> Octet] /\ 2^Width \in Nat \ {0}
  BY Dht11Assumption, Power DEF Octet
<1> DEFINE c == (m[1] + m[2] + m[3] + m[4]) % 2^Width
           w == 2^Width
<1>2. c \in Octet
  <2>1. w \in Nat \ {0} /\ m[1] \in Nat /\ m[2] \in Nat /\ m[3] \in Nat /\ m[4] \in Nat
    BY <1>1 DEF Octet
  <2> HIDE DEF w
  <2>2. (m[1] + m[2] + m[3] + m[4]) % w \in 0 .. w - 1
    BY <2>1
  <2>3. QED  BY <2>2 DEF Octet, w
<1> HIDE DEF c
<1>3. m \in Seq(Octet)
  <2>1. m \in UNION {[1 .. l -> Octet] : l \in Nat}
    BY <1>1
  <2>2. QED  BY <2>1, SeqDef
<1>4. Len(m) = 4
  <2>1. DOMAIN m = 1 .. Len(m) /\ Len(m) \in Nat
    BY <1>3, LenProperties
  <2>2. 1 .. 4 = 1 .. Len(m)
    BY <1>1, <2>1
  <2>3. 4 \in 1 .. Len(m) /\ (Len(m) \in 1 .. Len(m) => Len(m) \in 1 .. 4)
    <3>1. 4 \in 1 .. 4
      OBVIOUS
    <3>2. QED  BY <2>2, <3>1, Zenon
  <2>4. QED  BY <2>1, <2>3
<1>5. Append(m, c) \in Seq(Octet) /\ Len(Append(m, c)) = 5
  <2>1. Append(m, c) \in Seq(Octet) /\ Len(Append(m, c)) = Len(m) + 1
    BY <1>2, <1>3, AppendProperties, Zenon
  <2>2. QED  BY <1>4, <2>1
<1>6. Append(m, c) \in [1 .. 5 -> Octet]
  BY <1>5, LenProperties
<1>7. QED  BY <1>6 DEF Frame, c

----------------------------------------------------------------------------
(* How long the levels are.                                                *)
LEMMA Levels ==
  ASSUME DhtTypeOK
  PROVE  /\ Duration \in Nat \ {0}
         /\ seg = 0 => Duration = Release
         /\ seg = 1 => Duration = RespLow
         /\ seg = 2 => Duration = RespHigh
         /\ seg % 2 = 1 /\ seg > 2 => Duration = BitLow
         /\ seg % 2 = 0 /\ seg > 2 => Duration \in {HighZero, HighOne}
  BY Dht11Assumption DEF DhtTypeOK, Duration

(* The levels of the bit that is being read.                               *)
LEMMA BitLevels ==
  ASSUME DhtTypeOK, k < 6
  PROVE  /\ Stored \in Nat /\ Stored < Bits
         /\ Stored + 1 = Bits <=> k = 5 /\ bits + 1 = Width
         /\ seg = 2 * Stored + 4 =>
              /\ DQ_IN = 1
              /\ Duration = IF SentBit = 1 THEN HighOne ELSE HighZero
         /\ seg \in {2 * Stored + 3, 2 * Stored + 5} => DQ_IN = 0 /\ Duration = BitLow
<1>1. /\ k \in 1 .. 5 /\ bits \in 0 .. Width - 1 /\ Width \in Nat \ {0} /\ seg \in Nat
  BY Dht11Assumption DEF DhtTypeOK
<1>2. /\ Stored \in Nat /\ Stored < Bits
      /\ Stored + 1 = Bits <=> k = 5 /\ bits + 1 = Width
  BY <1>1 DEF Stored, Bits
<1>3. BitOf(sent, Stored) = SentBit
  BY <1>1, BitOfIs DEF Stored, SentBit
<1> HIDE DEF Stored
<1>4. ASSUME seg = 2 * Stored + 4
      PROVE  seg % 2 = 0 /\ seg > 2 /\ seg \div 2 - 2 = Stored
  BY <1>2, <1>4
<1>5. ASSUME seg \in {2 * Stored + 3, 2 * Stored + 5}
      PROVE  seg % 2 = 1 /\ seg > 2
  BY <1>2, <1>5
<1>6. QED
  BY <1>1, <1>2, <1>3, <1>4, <1>5 DEF DQ_IN, Duration

(* The bit being sent is a zero or a one.                                  *)
LEMMA SentBitIs == DhtTypeOK /\ k < 6 => SentBit \in {0, 1}
<1> SUFFICES ASSUME DhtTypeOK, k < 6  PROVE SentBit \in {0, 1}
  OBVIOUS
<1>1. sent[k] \in Octet /\ Width - 1 - bits \in 0 .. Width
  BY Dht11Assumption DEF DhtTypeOK
<1>2. sent[k] \in Nat
  BY <1>1, Prefix
<1>3. QED  BY <1>1, <1>2, BitIs DEF SentBit

(* What a unit of time does to the line.                                   *)
LEMMA LineMoves ==
  ASSUME DhtTypeOK, Phases, Wave, UNCHANGED <<sent, answers>>
  PROVE  /\ seg' \in 0 .. Last /\ age' \in Nat
         /\ \/ seg' = seg /\ ~Resting /\ ~Edge /\ age' = age + 1
            \/ seg' = seg /\ Resting /\ ~Edge /\ age' = 0
            \/ seg' = seg + 1 /\ ~Resting /\ Edge /\ age' = 0 /\ age + 1 = Duration
         /\ answers /\ seg' < Last => age' < Duration'
         /\ ~answers => seg' = seg
<1>0. /\ Last \in Nat /\ seg \in 0 .. Last /\ age \in Nat
      /\ answers \in BOOLEAN
  BY Dht11Assumption DEF DhtTypeOK, Last, Bits
<1>1. Duration \in Nat \ {0}
  BY Levels
<1>2. seg' \in 0 .. Last => Duration' \in Nat \ {0}
  BY Dht11Assumption DEF Duration, Last, Bits
<1>3. seg' = seg => Duration' = Duration
  BY DEF Duration
<1>4. answers /\ seg < Last => age < Duration
  BY DEF Phases
<1>5. CASE Edge
  <2>1. seg' = seg + 1 /\ age' = 0 /\ ~Resting /\ age + 1 = Duration
    BY <1>5 DEF Wave, Edge
  <2>2. answers /\ seg # Last
    BY <2>1 DEF Resting
  <2>3. QED  BY <1>0, <1>1, <1>2, <1>5, <2>1, <2>2
<1>6. CASE ~Edge /\ Resting
  <2>1. seg' = seg /\ age' = 0
    BY <1>6 DEF Wave
  <2>2. answers => seg = Last
    BY <1>6 DEF Resting
  <2>3. QED  BY <1>0, <1>6, <2>1, <2>2
<1>7. CASE ~Edge /\ ~Resting
  <2>1. seg' = seg /\ age' = age + 1 /\ age + 1 # Duration
    BY <1>7 DEF Wave, Edge
  <2>2. answers /\ seg # Last
    BY <1>7 DEF Resting
  <2>3. seg' < Last => age' < Duration'
    BY <1>0, <1>1, <1>3, <1>4, <2>1, <2>2
  <2>4. QED  BY <1>0, <1>7, <2>1, <2>2, <2>3
<1>8. QED  BY <1>5, <1>6, <1>7

(* What storing a bit does to the bytes.                                   *)
LEMMA StoreMoves ==
  ASSUME DhtTypeOK, k < 6, NEW v \in {0, 1}, Store(v), UNCHANGED sent
  PROVE  /\ dht11_data' \in [1 .. 5 -> Octet]
         /\ k' \in 1 .. 6 /\ bits' \in 0 .. Width - 1 /\ read_data' \in 0 .. 2^bits' - 1
         /\ Stored' = Stored + 1
         /\ \/ stage' = "loop" /\ k' = 6 /\ bits' = 0 /\ Stored + 1 = Bits
            \/ stage' = "rise" /\ k' < 6
         /\ ExactSoFar /\ v = SentBit => ExactSoFar'
         /\ OnesSoFar /\ (v = 1 => SentBit = 1) => OnesSoFar'
<1> DEFINE byte == 2 * read_data + v
           full == bits + 1 = Width
<1>0. /\ Width \in Nat \ {0} /\ k \in 1 .. 5 /\ bits \in 0 .. Width - 1
      /\ read_data \in 0 .. 2^bits - 1 /\ dht11_data \in [1 .. 5 -> Octet]
      /\ sent \in [1 .. 5 -> Octet] /\ sent[k] \in Octet
  BY Dht11Assumption DEF DhtTypeOK
<1>1. /\ (2 * read_data + v) % 2^Width = byte
      /\ byte \in 0 .. 2^(bits + 1) - 1 /\ byte \in Octet
      /\ Bit(byte, 0) = v
      /\ \A m \in 0 .. bits - 1 : Bit(byte, m + 1) = Bit(read_data, m)
  BY <1>0, NewByte
<1> HIDE DEF byte
<1>2. /\ dht11_data' = IF full THEN [dht11_data EXCEPT ![k] = byte] ELSE dht11_data
      /\ k' = IF full THEN k + 1 ELSE k
      /\ bits' = IF full THEN 0 ELSE bits + 1
      /\ read_data' = IF full THEN 0 ELSE byte
      /\ stage' = IF full /\ k = 5 THEN "loop" ELSE "rise"
  BY <1>1 DEF Store
<1>3. /\ k' \in 1 .. 6 /\ bits' \in 0 .. Width - 1 /\ dht11_data' \in [1 .. 5 -> Octet]
  BY <1>0, <1>1, <1>2
<1>4. read_data' \in 0 .. 2^bits' - 1
  <2>1. CASE full
    BY <1>2, <2>1, Power
  <2>2. CASE ~full
    BY <1>1, <1>2, <2>2
  <2>3. QED  BY <2>1, <2>2
<1>5. Stored' = Stored + 1 /\ (full /\ k = 5 => Stored + 1 = Bits)
  BY <1>0, <1>2 DEF Stored, Bits
<1>6. ASSUME ExactSoFar, v = SentBit  PROVE ExactSoFar'
  <2>1. byte = sent[k] \div 2^(Width - (bits + 1))
    <3>1. read_data = sent[k] \div 2^(Width - bits)
      BY <1>0, <1>6 DEF ExactSoFar
    <3>2. sent[k] \div 2^(Width - (bits + 1))
            = 2 * (sent[k] \div 2^(Width - bits)) + Bit(sent[k], Width - 1 - bits)
      BY <1>0, Prefix
    <3>3. QED  BY <1>6, <3>1, <3>2 DEF byte, SentBit
  <2>2. CASE full
    <3>1. byte = sent[k]
      BY <1>0, <2>1, <2>2, Prefix
    <3>2. \A y \in 1 .. k' - 1 : dht11_data'[y] = sent'[y]
      BY <1>0, <1>2, <1>6, <2>2, <3>1 DEF ExactSoFar
    <3>3. k' < 6 => sent'[k'] \in Octet
      BY <1>0, <1>2, <1>3
    <3>4. k' < 6 => sent'[k'] \div 2^(Width - 0) = 0
      BY <3>3, Prefix
    <3>5. bits' = 0 /\ read_data' = 0
      BY <1>2, <2>2
    <3>6. k' < 6 => read_data' = sent'[k'] \div 2^(Width - bits')
      BY <3>4, <3>5
    <3>7. QED  BY <3>2, <3>6 DEF ExactSoFar
  <2>3. CASE ~full
    <3>1. k' = k /\ bits' = bits + 1 /\ read_data' = byte /\ dht11_data' = dht11_data
      BY <1>2, <2>3
    <3>2. QED  BY <1>6, <2>1, <3>1 DEF ExactSoFar
  <2>4. QED  BY <2>2, <2>3
<1>7. ASSUME OnesSoFar, v = 1 => SentBit = 1  PROVE OnesSoFar'
  <2>1. ASSUME NEW j \in 0 .. bits, Bit(byte, bits - j) = 1
        PROVE  Bit(sent[k], Width - 1 - j) = 1
    <3>1. CASE j = bits
      <4>1. bits - j = 0
        BY <1>0, <3>1
      <4>2. v = 1
        BY <1>1, <2>1, <4>1
      <4>3. QED  BY <1>7, <3>1, <4>2 DEF SentBit
    <3>2. CASE j # bits
      <4>1. /\ j \in 0 .. bits - 1 /\ bits - 1 - j \in 0 .. bits - 1
            /\ bits - j = (bits - 1 - j) + 1
        BY <1>0, <3>2
      <4>2. Bit(read_data, bits - 1 - j) = 1
        BY <1>1, <2>1, <4>1
      <4>3. QED  BY <1>7, <4>1, <4>2 DEF OnesSoFar
    <3>3. QED  BY <3>1, <3>2
  <2>2. CASE full
    <3>1. ASSUME NEW y \in 1 .. k' - 1, NEW j \in 0 .. Width - 1,
                 Bit(dht11_data'[y], Width - 1 - j) = 1
          PROVE  Bit(sent'[y], Width - 1 - j) = 1
      <4>1. CASE y = k
        <5>1. j \in 0 .. bits /\ Width - 1 - j = bits - j /\ dht11_data'[y] = byte
          BY <1>0, <1>2, <2>2, <4>1
        <5>2. QED  BY <2>1, <3>1, <4>1, <5>1
      <4>2. CASE y # k
        <5>1. y \in 1 .. k - 1 /\ dht11_data'[y] = dht11_data[y]
          BY <1>0, <1>2, <2>2, <4>2
        <5>2. QED  BY <1>7, <3>1, <5>1 DEF OnesSoFar
      <4>3. QED  BY <4>1, <4>2
    <3>2. bits' = 0
      BY <1>2, <2>2
    <3>3. QED  BY <3>1, <3>2 DEF OnesSoFar
  <2>3. CASE ~full
    <3>1. k' = k /\ bits' = bits + 1 /\ read_data' = byte /\ dht11_data' = dht11_data
      BY <1>2, <2>3
    <3>2. ASSUME NEW j \in 0 .. bits' - 1  PROVE j \in 0 .. bits /\ bits' - 1 - j = bits - j
      BY <1>0, <3>1
    <3>3. \A j \in 0 .. bits' - 1 :
            Bit(read_data', bits' - 1 - j) = 1 => Bit(sent'[k'], Width - 1 - j) = 1
      BY <2>1, <3>1, <3>2
    <3>4. QED  BY <1>7, <3>1, <3>3 DEF OnesSoFar
  <2>4. QED  BY <2>2, <2>3
<1>8. QED  BY <1>0, <1>2, <1>3, <1>4, <1>5, <1>6, <1>7

----------------------------------------------------------------------------
(* What every unit of time has in common.                                  *)
Timing == /\ {Release, RespLow, RespHigh, BitLow, HighZero, HighOne, Sample} \subseteq Nat
          /\ Slack \in Nat /\ Sample >= 1
          /\ HighZero =< Sample /\ Sample + Slack < HighOne
          /\ Slack < RespLow /\ Slack < RespHigh /\ Slack < BitLow /\ Slack < HighZero
          /\ Sample + 2 * Slack < HighZero + BitLow

LEMMA UnitFacts ==
  ASSUME DhtInv, Unit
  PROVE  /\ Timing
         /\ k < 6 /\ answers \in BOOLEAN /\ over \in BOOLEAN /\ over' \in BOOLEAN
         /\ Stored \in Nat /\ Stored + 1 =< Bits /\ Bits \in Nat /\ Last = 2 * Bits + 4
         /\ seg \in Nat /\ seg =< Last /\ age \in Nat /\ held \in Nat /\ held' \in Nat
         /\ seg' \in 0 .. Last /\ age' \in Nat /\ d \in 0 .. Sample - 1
         /\ total' \in 0 .. HeldMax
         /\ ~over' => ~over
         /\ UNCHANGED <<n, i, beep_value3, sent, answers>>
         /\ answers /\ seg' < Last => age' < Duration'
         /\ ~answers => seg' = seg
<1>1. /\ Wave /\ UNCHANGED <<n, i, beep_value3, sent, answers>>
      /\ stage # "loop" /\ (Poll \/ HeldUp)
  BY DEF Unit, loop
<1>2. DhtTypeOK /\ Phases
  BY DEF DhtInv
<1>3. k < 6
  BY <1>1, <1>2 DEF Phases
<1>4. Timing
  BY Dht11Assumption DEF Timing
<1>5. /\ Bits \in Nat /\ Last = 2 * Bits + 4
  BY Dht11Assumption DEF Last, Bits
<1>6. /\ seg \in Nat /\ seg =< Last /\ age \in Nat /\ held \in Nat /\ d \in 0 .. Sample - 1
      /\ total \in 0 .. HeldMax
  BY <1>2, <1>5 DEF DhtTypeOK
<1>7. answers \in BOOLEAN /\ over \in BOOLEAN
  BY <1>2, Zenon DEF DhtTypeOK
<1>8. /\ seg' \in 0 .. Last /\ age' \in Nat
      /\ answers /\ seg' < Last => age' < Duration'
      /\ ~answers => seg' = seg
  BY <1>1, <1>2, LineMoves
<1>9. Stored \in Nat /\ Stored + 1 =< Bits
  <2>1. Stored \in Nat /\ Stored < Bits
    BY <1>2, <1>3, BitLevels
  <2>2. QED  BY <1>5, <2>1
<1>10. /\ held' \in Nat /\ total' \in 0 .. HeldMax
       /\ over' \in BOOLEAN /\ (~over' => ~over)
  <2>1. CASE Poll
    <3>1. /\ held' \in {0, held} /\ total' = total /\ over' = over
      BY <2>1 DEF Poll
    <3>2. held' \in Nat /\ total' \in 0 .. HeldMax
      BY <1>6, <3>1
    <3>3. QED  BY <1>7, <3>1, <3>2, Zenon
  <2>2. CASE HeldUp
    <3>1. /\ held' \in {0, held + 1} /\ total' = total + 1 /\ total < HeldMax
      BY <2>2 DEF HeldUp
    <3>2. over' = (over \/ held + 1 > Slack)
      BY <2>2 DEF HeldUp
    <3>3. over' \in BOOLEAN /\ (~over' => ~over)
      BY <3>2, Zenon
    <3>4. HeldMax \in Nat
      BY Dht11Assumption
    <3>5. QED  BY <1>6, <3>1, <3>3, <3>4
  <2>3. QED  BY <1>1, <2>1, <2>2
<1>11. QED
  BY <1>1, <1>3, <1>4, <1>5, <1>6, <1>7, <1>8, <1>9, <1>10

(* The invariant without the bytes: what is left to show when a unit       *)
(* stores no bit.                                                          *)
LEMMA SameBytes ==
  ASSUME DhtInv, Unit, UNCHANGED <<dht11_data, k, read_data, bits>>,
         stage' \in {"low1", "high", "low2", "rise", "delay", "fall"},
         d' \in 0 .. Sample - 1,
         ~answers => stage' = "low1",
         stage' \in {"low1", "high", "low2"} => stage \in {"low1", "high", "low2"},
         ~Slipped' => ~Slipped,
         Behind',
         stage' = "delay" /\ seg' = 2 * Stored + 4 => age' + d' >= Sample,
         stage' = "fall" /\ ~Slipped' => SentBit = 1,
         InTime'
  PROVE  DhtInv'
<1>1. /\ DhtTypeOK /\ Phases /\ OnesAreOnes /\ Exact
  BY DEF DhtInv
<1>2. /\ Stored' = Stored
      /\ (UNCHANGED sent => SentBit' = SentBit /\ OnesSoFar' = OnesSoFar
                            /\ ExactSoFar' = ExactSoFar)
  BY DEF Stored, SentBit, OnesSoFar, ExactSoFar
<1>3. /\ UNCHANGED <<n, i, beep_value3, sent, answers>> /\ k < 6
      /\ seg' \in 0 .. Last /\ age' \in Nat /\ held' \in Nat /\ total' \in 0 .. HeldMax
      /\ over' \in BOOLEAN /\ (~over' => ~over)
      /\ answers /\ seg' < Last => age' < Duration'
      /\ ~answers => seg' = seg
  BY UnitFacts
<1>4. DhtTypeOK'
  <2>1. answers' \in BOOLEAN
    BY <1>1, <1>3, Zenon DEF DhtTypeOK
  <2>2. QED
    BY <1>1, <1>3, <2>1 DEF DhtTypeOK, Last, Bits
<1>5. Phases'
  BY <1>1, <1>3 DEF Phases, Last, Bits
<1>6. OnesAreOnes'
  BY <1>1, <1>2, <1>3 DEF OnesAreOnes
<1>7. Exact'
  BY <1>1, <1>2, <1>3 DEF Exact
<1>8. QED  BY <1>4, <1>5, <1>6, <1>7 DEF DhtInv

(* A bit is stored while the line is low, behind the bit's own level if no *)
(* bit was missed.                                                         *)
LEMMA StoreKeeps ==
  ASSUME DhtInv, Unit, Poll, NEW v \in {0, 1}, Store(v), UNCHANGED d,
         DQ_IN = 0, stage \in {"delay", "fall"},
         ~Slipped /\ v = 1 => SentBit = 1,
         ~over /\ answers => v = SentBit
  PROVE  DhtInv'
<1>1. /\ DhtTypeOK /\ Phases /\ Behind /\ OnesAreOnes /\ InTime /\ Exact
  BY DEF DhtInv
<1>2. /\ k < 6 /\ Stored \in Nat /\ Stored + 1 =< Bits /\ Bits \in Nat /\ Last = 2 * Bits + 4
      /\ seg \in Nat /\ seg =< Last /\ age \in Nat /\ held \in Nat /\ held' \in Nat
      /\ seg' \in 0 .. Last /\ age' \in Nat /\ d \in 0 .. Sample - 1
      /\ total' \in 0 .. HeldMax
      /\ answers /\ seg' < Last => age' < Duration'
      /\ Timing
  BY UnitFacts
<1>3. over' \in BOOLEAN /\ (~over' => ~over) /\ answers \in BOOLEAN
  BY UnitFacts
<1>4. UNCHANGED <<n, i, beep_value3, sent, answers>>
  BY UnitFacts
<1>5. /\ dht11_data' \in [1 .. 5 -> Octet]
      /\ k' \in 1 .. 6 /\ bits' \in 0 .. Width - 1 /\ read_data' \in 0 .. 2^bits' - 1
      /\ Stored' = Stored + 1
      /\ \/ stage' = "loop" /\ k' = 6 /\ bits' = 0 /\ Stored + 1 = Bits
         \/ stage' = "rise" /\ k' < 6
      /\ ExactSoFar /\ v = SentBit => ExactSoFar'
      /\ OnesSoFar /\ (v = 1 => SentBit = 1) => OnesSoFar'
  BY <1>1, <1>2, <1>4, StoreMoves
<1>6. answers
  BY <1>1 DEF Phases
<1>7. \/ seg' = seg
      \/ seg' = seg + 1 /\ age' = 0
  BY <1>1, <1>4, LineMoves DEF Unit
<1>8. seg % 2 = 1 /\ seg >= 2 * Stored + 5
  <2>1. seg >= 2 * Stored + 4 /\ seg % 2 # 0
    BY <1>1 DEF Behind, DQ_IN
  <2>2. QED  BY <1>2, <2>1
<1>9. DhtTypeOK'
  <2>1. answers' \in BOOLEAN
    BY <1>3, <1>4, Zenon
  <2>2. stage' \in {"loop", "rise"}
    BY <1>5
  <2>3. QED  BY <1>1, <1>2, <1>3, <1>4, <1>5, <2>1, <2>2 DEF DhtTypeOK, Last, Bits
<1>10. Phases'
  BY <1>2, <1>4, <1>5, <1>6 DEF Phases, Last, Bits
<1>11. Behind'
  <2>1. stage' = "rise" => seg' >= 2 * (Stored + 1) + 3
    BY <1>2, <1>7, <1>8
  <2>2. stage' = "loop" => seg' >= Last' - 1
    <3>1. Last' = Last
      BY DEF Last, Bits
    <3>2. QED  BY <1>2, <1>5, <1>7, <1>8, <3>1
  <2>3. QED  BY <1>5, <2>1, <2>2 DEF Behind
<1>12. OnesAreOnes'
  <2>1. ASSUME ~Slipped'  PROVE seg = 2 * Stored + 5
    <3>1. CASE stage' = "rise"
      <4>1. ~(seg' >= 2 * (Stored + 1) + 5)
        BY <1>5, <2>1, <3>1 DEF Slipped
      <4>2. QED  BY <1>2, <1>7, <1>8, <4>1
    <3>2. CASE stage' = "loop" /\ Stored + 1 = Bits
      BY <1>2, <1>8, <3>2
    <3>3. QED  BY <1>5, <3>1, <3>2
  <2>2. ~Slipped' => ~Slipped
    BY <1>2, <2>1 DEF Slipped
  <2>3. ~Slipped => OnesSoFar
    BY <1>1 DEF OnesAreOnes
  <2>4. ~Slipped' => OnesSoFar'
    BY <1>5, <2>2, <2>3
  <2>5. QED  BY <1>5, <2>4 DEF OnesAreOnes
<1>13. InTime'
  <2> SUFFICES ASSUME ~over'  PROVE InTime'
    BY DEF InTime
  <2>1. held =< Slack /\ seg = 2 * Stored + 5
    <3>1. /\ held =< Slack
          /\ stage = "fall" => seg \in {2 * Stored + 4, 2 * Stored + 4 + 1}
          /\ stage = "delay" => seg \in {2 * Stored + 4, 2 * Stored + 5}
      BY <1>1, <1>3, <1>6 DEF InTime, Late
    <3>2. QED  BY <1>2, <1>8, <3>1
  <2>2. held' =< Slack
    BY <1>2, <2>1 DEF Poll, Timing
  <2>3. stage' = "rise" => /\ seg' \in {2 * Stored' + 3, 2 * Stored' + 3 + 1}
                           /\ seg' = 2 * Stored' + 3 + 1 => age' =< held'
    BY <1>2, <1>5, <1>7, <2>1
  <2>4. QED  BY <1>5, <2>2, <2>3 DEF InTime, Late
<1>14. Exact'
  BY <1>1, <1>3, <1>5, <1>6 DEF Exact
<1>15. QED
  BY <1>9, <1>10, <1>11, <1>12, <1>13, <1>14 DEF DhtInv

(* The three loops of dht11_start.                                         *)
LEMMA StartKeeps ==
  ASSUME DhtInv, Unit, Poll, dht11_start
  PROVE  DhtInv'
<1>1. /\ DhtTypeOK /\ Phases /\ Behind /\ OnesAreOnes /\ InTime
  BY DEF DhtInv
<1>2. /\ k < 6 /\ Stored \in Nat /\ Stored + 1 =< Bits /\ Bits \in Nat /\ Last = 2 * Bits + 4
      /\ seg \in Nat /\ seg =< Last /\ age \in Nat /\ held \in Nat /\ held' \in Nat
      /\ seg' \in Nat /\ age' \in Nat /\ d \in 0 .. Sample - 1
      /\ Timing /\ UNCHANGED <<sent, answers>>
  BY UnitFacts
<1>3. (~over' => ~over) /\ answers \in BOOLEAN
  BY UnitFacts
<1>4. \/ seg' = seg /\ ~Resting /\ ~Edge /\ age' = age + 1
      \/ seg' = seg /\ Resting /\ ~Edge /\ age' = 0
      \/ seg' = seg + 1 /\ ~Resting /\ Edge /\ age' = 0 /\ age + 1 = Duration
  BY <1>1, <1>2, LineMoves DEF Unit
<1>5. /\ stage \in {"low1", "high", "low2"} /\ k = 1 /\ bits = 0
      /\ stage' \in {"low1", "high", "low2", "rise"}
      /\ UNCHANGED <<dht11_data, k, read_data, bits, d>>
  BY <1>1 DEF dht11_start, Await, Phases
<1>6. /\ stage = "low1" => stage' = IF DQ_IN = 1 THEN "low1" ELSE "high"
      /\ stage = "high" => stage' = IF DQ_IN = 0 THEN "high" ELSE "low2"
      /\ stage = "low2" => stage' = IF DQ_IN = 1 THEN "low2" ELSE "rise"
  BY DEF dht11_start, Await
<1>7. /\ DQ_IN = IF seg % 2 = 0 THEN 1 ELSE 0
      /\ stage = "high" => seg >= 1
      /\ stage = "low2" => seg >= 2
      /\ ~answers => seg = 0 /\ stage = "low1"
  BY <1>1 DEF DQ_IN, Behind, Phases
<1>8. Stored = 0 /\ Stored' = 0
  BY <1>5, Dht11Assumption DEF Stored
<1>9. ~Slipped
  BY <1>5 DEF Slipped
<1>10. Behind'
  BY <1>2, <1>4, <1>5, <1>6, <1>7, <1>8 DEF Behind
<1>11. InTime'
  <2> SUFFICES ASSUME ~over', answers  PROVE InTime'
    BY <1>2 DEF InTime
  <2>1. /\ held =< Slack
        /\ stage = "low1" => seg \in {0, 1}
        /\ stage = "high" => seg \in {1, 2}
        /\ stage = "low2" => seg \in {2, 3}
    BY <1>1, <1>3 DEF InTime, Late
  <2>2. held' =< Slack
    BY <1>2, <2>1 DEF Poll, Timing
  <2>3. /\ stage' = "low1" => seg' \in {0, 1} /\ (seg' = 1 => age' =< held')
        /\ stage' = "high" => seg' \in {1, 2} /\ (seg' = 2 => age' =< held')
        /\ stage' = "low2" => seg' \in {2, 3} /\ (seg' = 3 => age' =< held')
        /\ stage' = "rise" => seg' \in {3, 4} /\ (seg' = 4 => age' =< held')
    BY <1>2, <1>4, <1>5, <1>6, <1>7, <2>1
  <2>4. QED  BY <1>5, <1>8, <2>2, <2>3 DEF InTime, Late
<1>12. QED
  BY <1>2, <1>5, <1>6, <1>7, <1>9, <1>10, <1>11, SameBytes

(* A bit's level has come: the delay starts.                               *)
LEMMA RiseKeeps ==
  ASSUME DhtInv, Unit, Poll, Rise
  PROVE  DhtInv'
<1>1. /\ DhtTypeOK /\ Phases /\ Behind /\ OnesAreOnes /\ InTime
  BY DEF DhtInv
<1>2. /\ k < 6 /\ Stored \in Nat /\ Stored + 1 =< Bits /\ Bits \in Nat /\ Last = 2 * Bits + 4
      /\ seg \in Nat /\ seg =< Last /\ age \in Nat /\ held \in Nat /\ held' \in Nat
      /\ seg' \in Nat /\ age' \in Nat /\ d \in 0 .. Sample - 1
      /\ Timing /\ UNCHANGED <<sent, answers>>
  BY UnitFacts
<1>3. (~over' => ~over) /\ answers \in BOOLEAN
  BY UnitFacts
<1>4. \/ seg' = seg /\ ~Resting /\ ~Edge /\ age' = age + 1
      \/ seg' = seg /\ Resting /\ ~Edge /\ age' = 0
      \/ seg' = seg + 1 /\ ~Resting /\ Edge /\ age' = 0 /\ age + 1 = Duration
  BY <1>1, <1>2, LineMoves DEF Unit
<1>5. /\ stage = "rise" /\ UNCHANGED <<dht11_data, k, read_data, bits>>
      /\ stage' = IF DQ_IN = 1 THEN "delay" ELSE "rise"
      /\ d' = IF DQ_IN = 1 THEN Sample - 1 ELSE d
  BY DEF Rise
<1>6. answers
  BY <1>1, <1>5 DEF Phases
<1>7. Stored' = Stored
  BY <1>5 DEF Stored
<1>8. DQ_IN = (IF seg % 2 = 0 THEN 1 ELSE 0) /\ seg >= 2 * Stored + 3
  BY <1>1, <1>5 DEF DQ_IN, Behind
<1>9. /\ DQ_IN = 1 => seg >= 2 * Stored + 4
      /\ DQ_IN = 0 => seg # 2 * Stored + 4
  BY <1>2, <1>8
<1>10. Behind'
  BY <1>2, <1>4, <1>5, <1>7, <1>8, <1>9 DEF Behind
<1>11. ~Slipped' => ~Slipped
  BY <1>2, <1>4, <1>5, <1>7, <1>8, <1>9 DEF Slipped
<1>12. stage' = "delay" /\ seg' = 2 * Stored + 4 => age' + d' >= Sample
  <2>1. seg = 2 * Stored + 4 => ~Resting
    BY <1>2, <1>6 DEF Resting
  <2>2. QED  BY <1>2, <1>4, <1>5, <1>9, <2>1 DEF Timing
<1>13. InTime'
  <2> SUFFICES ASSUME ~over'  PROVE InTime'
    BY <1>2 DEF InTime
  <2>1. /\ held =< Slack /\ seg \in {2 * Stored + 3, 2 * Stored + 4}
        /\ seg = 2 * Stored + 4 => age =< held
    BY <1>1, <1>2, <1>3, <1>5, <1>6 DEF InTime, Late
  <2>2. held' =< Slack
    BY <1>2, <2>1 DEF Poll, Timing
  <2>3. stage' = "rise" => /\ seg' \in {2 * Stored + 3, 2 * Stored + 3 + 1}
                           /\ seg' = 2 * Stored + 3 + 1 => age' =< held'
    BY <1>2, <1>4, <1>5, <1>8, <1>9, <2>1
  <2>4. ASSUME stage' = "delay"
        PROVE  /\ seg' \in {2 * Stored + 4, 2 * Stored + 5}
               /\ seg' = 2 * Stored + 4 => age' + d' =< Sample + held'
               /\ seg' = 2 * Stored + 5 => /\ SentBit = 0
                                           /\ HighZero + age' + d' =< Sample + Slack + held'
    <3>1. /\ seg = 2 * Stored + 4 /\ d' = Sample - 1 /\ age =< held
      BY <1>2, <1>5, <1>9, <2>1, <2>4
    <3>2. /\ Duration = IF SentBit = 1 THEN HighOne ELSE HighZero
          /\ SentBit \in {0, 1}
      BY <1>1, <1>2, <3>1, BitLevels, SentBitIs
    <3>3. ~Edge => held' = held
      BY DEF Poll
    <3>4. ~Resting
      BY <1>2, <1>6, <3>1 DEF Resting
    <3>5. CASE ~Edge
      BY <1>2, <1>4, <2>1, <3>1, <3>3, <3>4, <3>5 DEF Timing
    <3>6. CASE Edge
      <4>1. /\ age + 1 = Duration /\ seg' = seg + 1 /\ age' = 0
        BY <1>4, <3>6
      <4>2. SentBit = 0 /\ HighZero = age + 1
        BY <1>2, <2>1, <3>1, <3>2, <4>1 DEF Timing
      <4>3. QED  BY <1>2, <2>1, <2>2, <3>1, <4>1, <4>2 DEF Timing
    <3>7. QED  BY <3>5, <3>6
  <2>5. SentBit' = SentBit
    BY <1>2, <1>5 DEF SentBit
  <2>6. QED  BY <1>5, <1>7, <2>2, <2>3, <2>4, <2>5 DEF InTime, Late
<1>14. QED
  BY <1>2, <1>5, <1>6, <1>10, <1>11, <1>12, <1>13, SameBytes DEF Timing

(* The delay runs, with the thread polling or held up.                     *)
LEMMA DelayKeeps ==
  ASSUME DhtInv, Unit, stage = "delay", UNCHANGED <<dht11_data, k, read_data, bits, stage>>,
         d' = IF d > 0 THEN d - 1 ELSE d,
         (Poll /\ d > 0) \/ HeldUp
  PROVE  DhtInv'
<1>1. /\ DhtTypeOK /\ Phases /\ Behind /\ OnesAreOnes /\ InTime
  BY DEF DhtInv
<1>2. /\ k < 6 /\ Stored \in Nat /\ Stored + 1 =< Bits /\ Bits \in Nat /\ Last = 2 * Bits + 4
      /\ seg \in Nat /\ seg =< Last /\ age \in Nat /\ held \in Nat /\ held' \in Nat
      /\ seg' \in Nat /\ age' \in Nat /\ d \in 0 .. Sample - 1
      /\ Timing /\ UNCHANGED <<sent, answers>>
  BY UnitFacts
<1>3. (~over' => ~over) /\ answers \in BOOLEAN
  BY UnitFacts
<1>4. \/ seg' = seg /\ ~Resting /\ ~Edge /\ age' = age + 1
      \/ seg' = seg /\ Resting /\ ~Edge /\ age' = 0
      \/ seg' = seg + 1 /\ ~Resting /\ Edge /\ age' = 0 /\ age + 1 = Duration
  BY <1>1, <1>2, LineMoves DEF Unit
<1>5. answers
  BY <1>1 DEF Phases
<1>6. Stored' = Stored
  BY DEF Stored
<1>7. seg >= 2 * Stored + 4
  BY <1>1 DEF Behind
<1>8. Behind'
  BY <1>2, <1>4, <1>6, <1>7 DEF Behind
<1>9. ~Slipped' => ~Slipped
  BY <1>2, <1>4, <1>6 DEF Slipped
<1>10. seg' = 2 * Stored + 4 => age' + d' >= Sample
  <2>1. seg = 2 * Stored + 4 => ~Resting /\ age + d >= Sample
    BY <1>1, <1>2, <1>5 DEF Resting, OnesAreOnes
  <2>2. QED  BY <1>2, <1>4, <1>7, <2>1 DEF Timing
<1>11. InTime'
  <2> SUFFICES ASSUME ~over'  PROVE InTime'
    BY <1>2 DEF InTime
  <2>1. /\ held =< Slack /\ seg \in {2 * Stored + 4, 2 * Stored + 5}
        /\ seg = 2 * Stored + 4 => age + d =< Sample + held
        /\ seg = 2 * Stored + 5 => /\ SentBit = 0
                                   /\ HighZero + age + d =< Sample + Slack + held
    BY <1>1, <1>3, <1>5 DEF InTime
  <2>2. /\ HeldUp => held + 1 =< Slack
        /\ held' = IF Edge /\ seg % 2 = 0 THEN 0 ELSE IF HeldUp THEN held + 1 ELSE held
        /\ ~HeldUp => d > 0
    <3>1. CASE HeldUp
      <4>1. over' = (over \/ held + 1 > Slack)
        BY <3>1 DEF HeldUp
      <4>2. ~(held + 1 > Slack)
        BY <4>1, Zenon
      <4>3. held' = IF Edge /\ seg % 2 = 0 THEN 0 ELSE held + 1
        BY <3>1 DEF HeldUp
      <4>4. QED  BY <1>2, <3>1, <4>2, <4>3 DEF Timing
    <3>2. CASE ~HeldUp
      BY <3>2 DEF Poll
    <3>3. QED  BY <3>1, <3>2
  <2>3. held' =< Slack
    BY <1>2, <2>1, <2>2 DEF Timing
  <2>4. /\ seg = 2 * Stored + 4 => /\ seg % 2 = 0 /\ SentBit \in {0, 1}
                                   /\ Duration = IF SentBit = 1 THEN HighOne ELSE HighZero
        /\ seg = 2 * Stored + 5 => seg % 2 = 1 /\ Duration = BitLow
    <3>1. seg = 2 * Stored + 4 => Duration = IF SentBit = 1 THEN HighOne ELSE HighZero
      BY <1>1, <1>2, BitLevels
    <3>2. SentBit \in {0, 1}
      BY <1>1, <1>2, SentBitIs
    <3>3. seg = 2 * Stored + 5 => Duration = BitLow
      BY <1>1, <1>2, BitLevels
    <3>4. QED  BY <1>2, <3>1, <3>2, <3>3
  <2>5. ~Resting
    BY <1>2, <1>5, <2>1 DEF Resting
  <2>6. CASE ~Edge
    <3>1. seg' = seg /\ age' = age + 1
      BY <1>4, <2>5, <2>6
    <3>2. /\ seg' = 2 * Stored + 4 => age' + d' =< Sample + held'
          /\ seg' = 2 * Stored + 5 => /\ SentBit = 0
                                      /\ HighZero + age' + d' =< Sample + Slack + held'
      BY <1>2, <2>1, <2>2, <2>6, <3>1 DEF Timing
    <3>3. SentBit' = SentBit
      BY <1>2 DEF SentBit
    <3>4. QED  BY <1>6, <2>1, <2>3, <3>1, <3>2, <3>3 DEF InTime, Late
  <2>7. CASE Edge
    <3>1. age + 1 = Duration /\ seg' = seg + 1 /\ age' = 0
      BY <1>4, <2>7
    <3>2. seg = 2 * Stored + 4
      <4>1. ASSUME seg = 2 * Stored + 5  PROVE FALSE
        <5>1. age + 1 = BitLow /\ held' = IF HeldUp THEN held + 1 ELSE held
          BY <2>2, <2>4, <3>1, <4>1
        <5>2. HighZero + age + d =< Sample + Slack + held
          BY <2>1, <4>1
        <5>3. QED  BY <1>2, <2>1, <2>2, <5>1, <5>2 DEF Timing
      <4>2. QED  BY <2>1, <4>1
    <3>3. age + d =< Sample + held
      BY <2>1, <3>2
    <3>4. SentBit = 0 /\ age + 1 = HighZero
      BY <1>2, <2>1, <2>2, <2>4, <3>1, <3>2, <3>3 DEF Timing
    <3>5. HighZero + age' + d' =< Sample + Slack + held'
      BY <1>2, <2>1, <2>2, <3>1, <3>3, <3>4 DEF Timing
    <3>6. SentBit' = SentBit
      BY <1>2 DEF SentBit
    <3>7. seg' = 2 * Stored + 5
      BY <1>2, <3>1, <3>2
    <3>8. QED  BY <1>2, <1>6, <2>3, <3>4, <3>5, <3>6, <3>7 DEF InTime, Late
  <2>8. QED  BY <2>6, <2>7
<1>12. d' \in 0 .. Sample - 1
  BY <1>2 DEF Timing
<1>13. QED
  BY <1>2, <1>5, <1>6, <1>8, <1>9, <1>10, <1>11, <1>12, SameBytes

(* The sample: a line that is still high is a one.                         *)
LEMMA SampleKeeps ==
  ASSUME DhtInv, Unit, Poll, TakeSample
  PROVE  DhtInv'
<1>1. /\ DhtTypeOK /\ Phases /\ Behind /\ OnesAreOnes /\ InTime
  BY DEF DhtInv
<1>2. /\ k < 6 /\ Stored \in Nat /\ Stored + 1 =< Bits /\ Bits \in Nat /\ Last = 2 * Bits + 4
      /\ seg \in Nat /\ seg =< Last /\ age \in Nat /\ held \in Nat /\ held' \in Nat
      /\ seg' \in Nat /\ age' \in Nat /\ d \in 0 .. Sample - 1
      /\ Timing /\ UNCHANGED <<sent, answers>>
  BY UnitFacts
<1>3. (~over' => ~over) /\ answers \in BOOLEAN
  BY UnitFacts
<1>4. \/ seg' = seg /\ ~Resting /\ ~Edge /\ age' = age + 1
      \/ seg' = seg /\ Resting /\ ~Edge /\ age' = 0
      \/ seg' = seg + 1 /\ ~Resting /\ Edge /\ age' = 0 /\ age + 1 = Duration
  BY <1>1, <1>2, LineMoves DEF Unit
<1>5. stage = "delay" /\ d = 0 /\ UNCHANGED d
  BY DEF TakeSample
<1>6. answers /\ seg >= 2 * Stored + 4
  BY <1>1, <1>5 DEF Phases, Behind
<1>7. DQ_IN = (IF seg % 2 = 0 THEN 1 ELSE 0)
  BY DEF DQ_IN
<1>8. CASE DQ_IN = 1
  <2>1. stage' = "fall" /\ UNCHANGED <<dht11_data, k, read_data, bits>>
    BY <1>8 DEF TakeSample
  <2>2. Stored' = Stored
    BY <2>1 DEF Stored
  <2>3. Behind'
    BY <1>2, <1>4, <1>6, <2>1, <2>2 DEF Behind
  <2>4. ~Slipped' => ~Slipped
    BY <1>2, <1>4, <1>5, <2>1, <2>2 DEF Slipped
  <2>5. ASSUME ~Slipped'  PROVE SentBit = 1
    <3>1. seg = 2 * Stored + 4
      <4>1. ~(seg' >= 2 * Stored + 6)
        BY <2>1, <2>2, <2>5 DEF Slipped
      <4>2. QED  BY <1>2, <1>4, <1>6, <1>7, <1>8, <4>1
    <3>2. age >= Sample
      BY <1>1, <1>2, <1>5, <3>1 DEF OnesAreOnes
    <3>3. age < Duration
      BY <1>1, <1>2, <1>6, <3>1 DEF Phases
    <3>4. Duration = IF SentBit = 1 THEN HighOne ELSE HighZero
      BY <1>1, <1>2, <3>1, BitLevels
    <3>5. QED  BY <1>2, <3>2, <3>3, <3>4 DEF Timing
  <2>6. InTime'
    <3> SUFFICES ASSUME ~over'  PROVE InTime'
      BY <1>2 DEF InTime
    <3>1. /\ held =< Slack /\ seg \in {2 * Stored + 4, 2 * Stored + 5}
      BY <1>1, <1>3, <1>5, <1>6 DEF InTime
    <3>2. held' =< Slack
      BY <1>2, <3>1 DEF Poll, Timing
    <3>3. /\ seg' \in {2 * Stored + 4, 2 * Stored + 4 + 1}
          /\ seg' = 2 * Stored + 4 + 1 => age' =< held'
      BY <1>2, <1>4, <1>7, <1>8, <3>1
    <3>4. QED  BY <2>1, <2>2, <3>2, <3>3 DEF InTime, Late
  <2>7. QED
    BY <1>2, <1>5, <1>6, <2>1, <2>3, <2>4, <2>5, <2>6, SameBytes
<1>9. CASE DQ_IN = 0
  <2>1. Store(0)
    BY <1>9 DEF TakeSample
  <2>2. ASSUME ~over  PROVE SentBit = 0
    <3>1. /\ seg \in {2 * Stored + 4, 2 * Stored + 5}
          /\ seg = 2 * Stored + 5 => SentBit = 0
      BY <1>1, <1>5, <1>6, <2>2 DEF InTime
    <3>2. seg # 2 * Stored + 4
      BY <1>2, <1>7, <1>9
    <3>3. QED  BY <3>1, <3>2
  <2>3. QED
    BY <1>5, <1>9, <2>1, <2>2, StoreKeeps
<1>10. QED  BY <1>7, <1>8, <1>9

(* The end of a one.                                                       *)
LEMMA FallKeeps ==
  ASSUME DhtInv, Unit, Poll, Fall
  PROVE  DhtInv'
<1>1. /\ DhtTypeOK /\ Phases /\ Behind /\ OnesAreOnes /\ InTime
  BY DEF DhtInv
<1>2. /\ k < 6 /\ Stored \in Nat /\ Stored + 1 =< Bits /\ Bits \in Nat /\ Last = 2 * Bits + 4
      /\ seg \in Nat /\ seg =< Last /\ age \in Nat /\ held \in Nat /\ held' \in Nat
      /\ seg' \in Nat /\ age' \in Nat /\ d \in 0 .. Sample - 1
      /\ Timing /\ UNCHANGED <<sent, answers>>
  BY UnitFacts
<1>3. (~over' => ~over) /\ answers \in BOOLEAN
  BY UnitFacts
<1>4. \/ seg' = seg /\ ~Resting /\ ~Edge /\ age' = age + 1
      \/ seg' = seg /\ Resting /\ ~Edge /\ age' = 0
      \/ seg' = seg + 1 /\ ~Resting /\ Edge /\ age' = 0 /\ age + 1 = Duration
  BY <1>1, <1>2, LineMoves DEF Unit
<1>5. stage = "fall" /\ UNCHANGED d
  BY DEF Fall
<1>6. answers /\ seg >= 2 * Stored + 4
  BY <1>1, <1>5 DEF Phases, Behind
<1>7. DQ_IN = (IF seg % 2 = 0 THEN 1 ELSE 0)
  BY DEF DQ_IN
<1>8. CASE DQ_IN = 1
  <2>1. stage' = "fall" /\ UNCHANGED <<dht11_data, k, read_data, bits>>
    BY <1>5, <1>8 DEF Fall
  <2>2. Stored' = Stored
    BY <2>1 DEF Stored
  <2>3. Behind'
    BY <1>2, <1>4, <1>6, <2>1, <2>2 DEF Behind
  <2>4. ~Slipped' => ~Slipped
    BY <1>2, <1>4, <1>5, <2>1, <2>2 DEF Slipped
  <2>5. ~Slipped => SentBit = 1
    BY <1>1, <1>5 DEF OnesAreOnes
  <2>6. InTime'
    <3> SUFFICES ASSUME ~over'  PROVE InTime'
      BY <1>2 DEF InTime
    <3>1. /\ held =< Slack /\ seg \in {2 * Stored + 4, 2 * Stored + 4 + 1}
      BY <1>1, <1>3, <1>5, <1>6 DEF InTime, Late
    <3>2. held' =< Slack
      BY <1>2, <3>1 DEF Poll, Timing
    <3>3. /\ seg' \in {2 * Stored + 4, 2 * Stored + 4 + 1}
          /\ seg' = 2 * Stored + 4 + 1 => age' =< held'
      BY <1>2, <1>4, <1>7, <1>8, <3>1
    <3>4. QED  BY <2>1, <2>2, <3>2, <3>3 DEF InTime, Late
  <2>7. QED
    BY <1>2, <1>5, <1>6, <2>1, <2>3, <2>4, <2>5, <2>6, SameBytes
<1>9. CASE DQ_IN = 0
  <2>1. Store(1)
    BY <1>9 DEF Fall
  <2>2. ~Slipped => SentBit = 1
    BY <1>1, <1>5 DEF OnesAreOnes
  <2>3. ASSUME ~over  PROVE ~Slipped
    <3>1. seg \in {2 * Stored + 4, 2 * Stored + 4 + 1}
      BY <1>1, <1>5, <1>6, <2>3 DEF InTime, Late
    <3>2. QED  BY <1>2, <1>5, <3>1 DEF Slipped
  <2>4. QED
    BY <1>5, <1>9, <2>1, <2>2, <2>3, StoreKeeps
<1>10. QED  BY <1>7, <1>8, <1>9

(* A unit in which the thread does not run.                                *)
LEMMA HeldUpKeeps ==
  ASSUME DhtInv, Unit, HeldUp
  PROVE  DhtInv'
<1>1. /\ DhtTypeOK /\ Phases /\ Behind /\ OnesAreOnes /\ InTime
  BY DEF DhtInv
<1>2. /\ k < 6 /\ Stored \in Nat /\ Stored + 1 =< Bits /\ Bits \in Nat /\ Last = 2 * Bits + 4
      /\ seg \in Nat /\ seg =< Last /\ age \in Nat /\ held \in Nat /\ held' \in Nat
      /\ seg' \in Nat /\ age' \in Nat /\ d \in 0 .. Sample - 1
      /\ Timing /\ UNCHANGED <<sent, answers>>
  BY UnitFacts
<1>3. (~over' => ~over) /\ answers \in BOOLEAN
  BY UnitFacts
<1>4. \/ seg' = seg /\ ~Resting /\ ~Edge /\ age' = age + 1
      \/ seg' = seg /\ Resting /\ ~Edge /\ age' = 0
      \/ seg' = seg + 1 /\ ~Resting /\ Edge /\ age' = 0 /\ age + 1 = Duration
  BY <1>1, <1>2, LineMoves DEF Unit
<1>5. /\ UNCHANGED <<dht11_data, k, read_data, bits, stage>>
      /\ d' = IF stage = "delay" /\ d > 0 THEN d - 1 ELSE d
      /\ stage # "loop"
  BY DEF HeldUp, Unit
<1>6. CASE stage = "delay"
  BY <1>5, <1>6, DelayKeeps
<1>7. CASE stage # "delay"
  <2>1. Stored' = Stored /\ d' = d
    BY <1>5, <1>7 DEF Stored
  <2>2. /\ ~answers => stage = "low1"
        /\ stage \in {"low1", "high", "low2", "rise", "fall"}
        /\ stage \in {"low1", "high", "low2"} => k = 1 /\ bits = 0
    BY <1>1, <1>5, <1>7 DEF Phases, DhtTypeOK
  <2>3. Behind'
    BY <1>1, <1>2, <1>4, <1>5, <2>1 DEF Behind
  <2>4. ~Slipped' => ~Slipped
    BY <1>2, <1>4, <1>5, <2>1 DEF Slipped
  <2>5. stage = "fall" /\ ~Slipped => SentBit = 1
    BY <1>1 DEF OnesAreOnes
  <2>6. InTime'
    <3> SUFFICES ASSUME ~over', answers  PROVE InTime'
      BY <1>2 DEF InTime
    <3>1. held + 1 =< Slack
      <4>1. over' = (over \/ held + 1 > Slack)
        BY DEF HeldUp
      <4>2. ~(held + 1 > Slack)
        BY <4>1, Zenon
      <4>3. QED  BY <1>2, <4>2 DEF Timing
    <3>2. held' = IF Edge /\ seg % 2 = 0 THEN 0 ELSE held + 1
      BY DEF HeldUp
    <3>3. held' =< Slack
      BY <1>2, <3>1, <3>2 DEF Timing
    <3>4. ASSUME NEW from \in Nat, seg \in {from, from + 1},
                 seg = from + 1 => age =< held /\ Slack < Duration /\ ~Resting
          PROVE  /\ seg' \in {from, from + 1}
                 /\ seg' = from + 1 => age' =< held'
      <4>1. Slack \in Nat /\ Duration \in Nat
        BY <1>1, <1>2, Levels DEF Timing
      <4>2. CASE seg = from
        BY <1>2, <1>4, <4>1, <4>2, <3>4
      <4>3. CASE seg = from + 1
        <5>1. ~(age + 1 = Duration)
          BY <1>2, <3>1, <3>4, <4>1, <4>3
        <5>2. ~Edge /\ seg' = seg /\ age' = age + 1
          BY <1>4, <3>4, <4>3, <5>1 DEF Edge
        <5>3. held' = held + 1
          BY <3>2, <5>2
        <5>4. QED  BY <1>2, <3>4, <4>3, <5>2, <5>3
      <4>4. QED  BY <3>4, <4>2, <4>3
    <3>5. /\ stage = "low1" => seg \in {0, 1} /\ (seg = 1 => age =< held)
          /\ stage = "high" => seg \in {1, 2} /\ (seg = 2 => age =< held)
          /\ stage = "low2" => seg \in {2, 3} /\ (seg = 3 => age =< held)
          /\ stage = "rise" => /\ seg \in {2 * Stored + 3, 2 * Stored + 3 + 1}
                               /\ seg = 2 * Stored + 3 + 1 => age =< held
          /\ stage = "fall" => /\ seg \in {2 * Stored + 4, 2 * Stored + 4 + 1}
                               /\ seg = 2 * Stored + 4 + 1 => age =< held
      BY <1>1, <1>2, <1>3 DEF InTime, Late
    <3>6. seg < Last => ~Resting
      BY <1>2 DEF Resting
    <3>7. /\ seg = 1 => Slack < Duration
          /\ seg = 2 => Slack < Duration
          /\ seg = 3 => Slack < Duration
      BY <1>1, <1>2, Levels DEF Timing
    <3>8. /\ seg = 2 * Stored + 4 => Slack < Duration
          /\ seg = 2 * Stored + 5 => Slack < Duration
      <4>1. /\ seg = 2 * Stored + 4 => Duration = IF SentBit = 1 THEN HighOne ELSE HighZero
            /\ seg = 2 * Stored + 5 => Duration = BitLow
        BY <1>1, <1>2, BitLevels
      <4>2. QED  BY <1>2, <4>1 DEF Timing
    <3>9. CASE stage = "low1"
      <4>1. seg' \in {0, 1} /\ (seg' = 1 => age' =< held')
        <5>1. PICK from \in Nat : from = 0
          OBVIOUS
        <5>2. seg \in {from, from + 1}
          BY <3>5, <3>9, <5>1
        <5>3. seg = from + 1 => age =< held /\ Slack < Duration /\ ~Resting
          BY <1>2, <3>5, <3>6, <3>7, <3>9, <5>1
        <5>4. /\ seg' \in {from, from + 1}
              /\ seg' = from + 1 => age' =< held'
          BY <3>4, <5>2, <5>3
        <5>5. QED  BY <5>1, <5>4
      <4>2. QED  BY <1>5, <2>1, <3>3, <3>9, <4>1 DEF InTime, Late
    <3>10. CASE stage = "high"
      <4>1. seg' \in {1, 2} /\ (seg' = 2 => age' =< held')
        <5>1. PICK from \in Nat : from = 1
          OBVIOUS
        <5>2. seg \in {from, from + 1}
          BY <3>5, <3>10, <5>1
        <5>3. seg = from + 1 => age =< held /\ Slack < Duration /\ ~Resting
          BY <1>2, <3>5, <3>6, <3>7, <3>10, <5>1
        <5>4. /\ seg' \in {from, from + 1}
              /\ seg' = from + 1 => age' =< held'
          BY <3>4, <5>2, <5>3
        <5>5. QED  BY <5>1, <5>4
      <4>2. QED  BY <1>5, <2>1, <3>3, <3>10, <4>1 DEF InTime, Late
    <3>11. CASE stage = "low2"
      <4>1. seg' \in {2, 3} /\ (seg' = 3 => age' =< held')
        <5>1. PICK from \in Nat : from = 2
          OBVIOUS
        <5>2. seg \in {from, from + 1}
          BY <3>5, <3>11, <5>1
        <5>3. seg = from + 1 => age =< held /\ Slack < Duration /\ ~Resting
          BY <1>2, <3>5, <3>6, <3>7, <3>11, <5>1
        <5>4. /\ seg' \in {from, from + 1}
              /\ seg' = from + 1 => age' =< held'
          BY <3>4, <5>2, <5>3
        <5>5. QED  BY <5>1, <5>4
      <4>2. QED  BY <1>5, <2>1, <3>3, <3>11, <4>1 DEF InTime, Late
    <3>12. CASE stage = "rise"
      <4>1. /\ seg' \in {2 * Stored + 3, 2 * Stored + 3 + 1}
            /\ seg' = 2 * Stored + 3 + 1 => age' =< held'
        <5>1. 2 * Stored + 3 \in Nat /\ 2 * Stored + 3 + 1 = 2 * Stored + 4
          BY <1>2
        <5>2. seg = 2 * Stored + 3 + 1 => ~Resting /\ Slack < Duration
          BY <1>2, <3>6, <3>8, <5>1
        <5> DEFINE from == 2 * Stored + 3
        <5>3. /\ from \in Nat /\ seg \in {from, from + 1}
              /\ seg = from + 1 => age =< held /\ Slack < Duration /\ ~Resting
          BY <3>5, <3>12, <5>1, <5>2
        <5> HIDE DEF from
        <5>4. /\ seg' \in {from, from + 1}
              /\ seg' = from + 1 => age' =< held'
          BY <3>4, <5>3
        <5>5. QED  BY <5>4 DEF from
      <4>2. QED  BY <1>5, <2>1, <3>3, <3>12, <4>1 DEF InTime, Late
    <3>13. CASE stage = "fall"
      <4>1. /\ seg' \in {2 * Stored + 4, 2 * Stored + 4 + 1}
            /\ seg' = 2 * Stored + 4 + 1 => age' =< held'
        <5>1. 2 * Stored + 4 \in Nat /\ 2 * Stored + 4 + 1 = 2 * Stored + 5
          BY <1>2
        <5>2. seg = 2 * Stored + 4 + 1 => ~Resting /\ Slack < Duration
          BY <1>2, <3>6, <3>8, <5>1
        <5> DEFINE from == 2 * Stored + 4
        <5>3. /\ from \in Nat /\ seg \in {from, from + 1}
              /\ seg = from + 1 => age =< held /\ Slack < Duration /\ ~Resting
          BY <3>5, <3>13, <5>1, <5>2
        <5> HIDE DEF from
        <5>4. /\ seg' \in {from, from + 1}
              /\ seg' = from + 1 => age' =< held'
          BY <3>4, <5>3
        <5>5. QED  BY <5>4 DEF from
      <4>2. QED  BY <1>5, <2>1, <3>3, <3>13, <4>1 DEF InTime, Late
    <3>14. QED  BY <2>2, <3>9, <3>10, <3>11, <3>12, <3>13
  <2>7. QED
    BY <1>2, <1>5, <1>7, <2>1, <2>2, <2>3, <2>4, <2>5, <2>6, SameBytes
<1>8. QED  BY <1>6, <1>7

(* A read that begins has stored nothing and is in step.                   *)
Fresh == /\ sent \in [1 .. 5 -> Octet] /\ k = 1 /\ bits = 0 /\ read_data = 0
         /\ seg = 0 /\ age = 0 /\ held = 0 /\ stage \in {"loop", "low1"}

InStep == /\ Behind /\ OnesAreOnes /\ InTime /\ Exact
          /\ read_data \in 0 .. 2^bits - 1 /\ age < Duration

LEMMA NothingYet == Fresh => InStep
<1> SUFFICES ASSUME Fresh  PROVE InStep
  OBVIOUS
<1> USE DEF Fresh, InStep
<1>1. 2^0 = 1 /\ Width \in Nat /\ Slack \in Nat /\ Release \in Nat \ {0}
  BY Power, Dht11Assumption
<1>2. sent[1] \div 2^(Width - 0) = 0
  <2>1. sent[1] \in Octet
    OBVIOUS
  <2>2. QED  BY <2>1, Prefix
<1>3. ExactSoFar
  BY <1>2 DEF ExactSoFar
<1>4. OnesSoFar
  BY DEF OnesSoFar
<1>5. QED
  BY <1>1, <1>3, <1>4 DEF Behind, OnesAreOnes, InTime, Late, Exact, Duration

(* At boot nothing was read.                                               *)
LEMMA DhtInitial == DhtInit => DhtInv
<1> SUFFICES ASSUME DhtInit  PROVE DhtInv
  OBVIOUS
<1>1. sent \in [1 .. 5 -> Octet]
  BY FrameIs DEF DhtInit
<1>2. /\ Behind /\ OnesAreOnes /\ InTime /\ Exact
      /\ read_data \in 0 .. 2^bits - 1 /\ age < Duration
  BY <1>1, NothingYet DEF DhtInit, Fresh, InStep
<1>3. 0 \in Octet /\ Last \in Nat
  BY Power, Dht11Assumption DEF Octet, Last, Bits
<1>4. answers = TRUE /\ over = FALSE
  BY DEF DhtInit
<1>5. DhtTypeOK
  <2>1. /\ Sample \in Nat /\ Sample >= 1 /\ HeldMax \in Nat /\ ReadEvery \in Nat
        /\ AlarmEvery \in Nat /\ Width \in Nat \ {0}
    BY Dht11Assumption
  <2>2. /\ dht11_data = [b \in 1 .. 5 |-> 0] /\ k = 1 /\ bits = 0 /\ n = 0 /\ i = 0
        /\ beep_value3 = 0 /\ stage = "loop" /\ d = 0 /\ seg = 0 /\ age = 0
        /\ held = 0 /\ total = 0
    BY DEF DhtInit
  <2>3. dht11_data \in [1 .. 5 -> Octet]
    BY <1>3, <2>2
  <2>4. /\ k \in 1 .. 6 /\ bits \in 0 .. Width - 1 /\ n \in 0 .. ReadEvery
        /\ i \in 0 .. AlarmEvery /\ d \in 0 .. Sample - 1 /\ seg \in 0 .. Last
        /\ age \in Nat /\ held \in Nat /\ total \in 0 .. HeldMax
    BY <1>3, <2>1, <2>2
  <2>5. answers \in BOOLEAN /\ over \in BOOLEAN
    BY <1>4, Zenon
  <2>6. QED  BY <1>1, <1>2, <2>2, <2>3, <2>4, <2>5 DEF DhtTypeOK
<1>6. Phases
  BY <1>2, <1>4 DEF DhtInit, Phases
<1>7. QED  BY <1>2, <1>5, <1>6 DEF DhtInv

(* An iteration of dht11_handle's loop.                                    *)
LEMMA IterateKeeps ==
  ASSUME DhtInv, Iterate
  PROVE  DhtInv'
<1>1. /\ DhtTypeOK /\ Phases /\ Behind /\ OnesAreOnes /\ InTime /\ Exact
  BY DEF DhtInv
<1>2. stage = "loop" /\ Alarm
  BY DEF Iterate
<1>3. /\ n \in 0 .. ReadEvery /\ i \in 0 .. AlarmEvery /\ ReadEvery \in Nat /\ AlarmEvery \in Nat
      /\ ReadEvery < AlarmEvery /\ beep_value3 \in {0, 1}
  BY <1>1, Dht11Assumption DEF DhtTypeOK
<1>4. /\ i' = IF i >= AlarmEvery THEN 0 ELSE i + 1
      /\ beep_value3' \in {0, 1}
  BY <1>2, <1>3 DEF Alarm
<1>5. i' \in 0 .. AlarmEvery
  BY <1>3, <1>4
<1>6. CASE n >= ReadEvery
  <2>1. /\ n' = 0 /\ (\E m \in Measured : sent' = Frame(m))
        /\ stage' = "low1" /\ k' = 1 /\ read_data' = 0 /\ bits' = 0
        /\ seg' = 0 /\ age' = 0 /\ held' = 0 /\ total' = 0
        /\ UNCHANGED <<dht11_data, d>>
    BY <1>6 DEF Iterate, StartRead
  <2>2. answers' \in BOOLEAN /\ over' \in BOOLEAN
    BY <1>6, Zenon DEF Iterate, StartRead
  <2>3. sent' \in [1 .. 5 -> Octet]
    BY <2>1, FrameIs
  <2>4. /\ Behind' /\ OnesAreOnes' /\ InTime' /\ Exact'
        /\ read_data' \in 0 .. 2^bits' - 1 /\ age' < Duration'
    <3>1. Fresh'
      BY <2>1, <2>3 DEF Fresh
    <3>2. InStep'
      BY <3>1, NothingYet, PTL
    <3>3. QED  BY <3>2 DEF InStep
  <2>5. DhtTypeOK'
    <3>1. Last \in Nat /\ Last' = Last /\ HeldMax \in Nat /\ Width \in Nat \ {0}
      BY Dht11Assumption DEF Last, Bits
    <3>2. QED
      BY <1>1, <1>3, <1>4, <1>5, <2>1, <2>2, <2>3, <2>4, <3>1 DEF DhtTypeOK
  <2>6. Phases'
    BY <2>1, <2>4 DEF Phases
  <2>7. QED  BY <2>4, <2>5, <2>6 DEF DhtInv
<1>7. CASE ~(n >= ReadEvery)
  <2>1. /\ n' = n + 1
        /\ UNCHANGED <<dht11_data, k, read_data, bits, stage, d, sent, answers, seg, age,
                       held, total, over>>
    BY <1>7 DEF Iterate, thread, signal, holds
  <2>2. DhtTypeOK'
    <3>1. answers' \in BOOLEAN /\ over' \in BOOLEAN
      BY <1>1, <2>1, Zenon DEF DhtTypeOK
    <3>2. n' \in 0 .. ReadEvery
      BY <1>3, <1>7, <2>1
    <3>3. QED
      BY <1>1, <1>4, <1>5, <2>1, <3>1, <3>2 DEF DhtTypeOK, Last, Bits
  <2>3. Phases'
    <3>1. n = i => n' = i'
      BY <1>3, <1>4, <1>7, <2>1
    <3>2. Duration' = Duration /\ Last' = Last
      BY <2>1 DEF Duration, Last, Bits
    <3>3. QED  BY <1>1, <2>1, <3>1, <3>2 DEF Phases
  <2>4. /\ Stored' = Stored /\ SentBit' = SentBit /\ Last' = Last
        /\ OnesSoFar' = OnesSoFar /\ ExactSoFar' = ExactSoFar
    BY <2>1 DEF Stored, SentBit, Last, Bits, OnesSoFar, ExactSoFar
  <2>5. /\ Behind' /\ OnesAreOnes' /\ InTime' /\ Exact'
    BY <1>1, <2>1, <2>4 DEF Behind, OnesAreOnes, Slipped, InTime, Late, Exact
  <2>6. QED  BY <2>2, <2>3, <2>5 DEF DhtInv
<1>8. QED  BY <1>6, <1>7

(* Every step preserves the invariant.                                     *)
LEMMA DhtInductive == DhtInv /\ [DhtNext]_dhtvars => DhtInv'
<1> SUFFICES ASSUME DhtInv, [DhtNext]_dhtvars  PROVE DhtInv'
  OBVIOUS
<1>1. CASE Iterate
  BY <1>1, IterateKeeps
<1>2. CASE Unit /\ HeldUp
  BY <1>2, HeldUpKeeps
<1>3. CASE Unit /\ Poll
  <2>1. CASE dht11_start
    BY <1>3, <2>1, StartKeeps
  <2>2. CASE Rise
    BY <1>3, <2>2, RiseKeeps
  <2>3. CASE Delay
    BY <1>3, <2>3, DelayKeeps DEF Delay
  <2>4. CASE TakeSample
    BY <1>3, <2>4, SampleKeeps
  <2>5. CASE Fall
    BY <1>3, <2>5, FallKeeps
  <2>6. QED
    BY <1>3, <2>1, <2>2, <2>3, <2>4, <2>5 DEF Poll, dht11_read_byte
<1>4. CASE UNCHANGED dhtvars
  <2>1. UNCHANGED <<dht11_data, k, read_data, bits, stage, d, n, i, beep_value3,
                    sent, answers, seg, age, held, total, over>>
    BY <1>4 DEF dhtvars, thread, loop, signal, holds
  <2>2. DhtTypeOK' /\ Phases'
    BY <2>1 DEF DhtInv, DhtTypeOK, Phases, Last, Bits, Duration
  <2>3. /\ Stored' = Stored /\ SentBit' = SentBit /\ Last' = Last
        /\ OnesSoFar' = OnesSoFar /\ ExactSoFar' = ExactSoFar
    BY <2>1 DEF Stored, SentBit, Last, Bits, OnesSoFar, ExactSoFar
  <2>4. /\ Behind' /\ OnesAreOnes' /\ InTime' /\ Exact'
    BY <2>1, <2>3 DEF DhtInv, Behind, OnesAreOnes, Slipped, InTime, Late, Exact
  <2>5. QED  BY <2>2, <2>4 DEF DhtInv
<1>5. QED
  BY <1>1, <1>2, <1>3, <1>4 DEF DhtNext, Unit

LEMMA DhtAlways == DhtSpec => []DhtInv
  BY DhtInitial, DhtInductive, PTL DEF DhtSpec

----------------------------------------------------------------------------
(* The sensor thread's counters and bytes keep their types: no bit is lost *)
(* from a byte, and no sixth byte is written behind dht11_data.            *)
THEOREM DhtTypeCorrect == DhtSpec => []DhtTypeOK
<1>1. DhtInv => DhtTypeOK
  BY DEF DhtInv
<1>2. QED  BY <1>1, DhtAlways, PTL

(* For every width, every timing within the assumptions and every          *)
(* measurement: a read that was never held up for longer than Slack in one *)
(* bit delivers the frame the sensor sent.                                 *)
THEOREM DhtDecodesTheFrame == DhtSpec => []DecodesTheFrame
<1>1. DhtInv => DecodesTheFrame
  <2> SUFFICES ASSUME DhtInv, ReadOver, ~over  PROVE dht11_data = sent
    BY DEF DecodesTheFrame
  <2>1. /\ dht11_data \in [1 .. 5 -> Octet] /\ sent \in [1 .. 5 -> Octet] /\ k = 6
    BY DEF DhtInv, DhtTypeOK, ReadOver
  <2>2. \A y \in 1 .. 5 : dht11_data[y] = sent[y]
    BY <2>1 DEF DhtInv, Exact, ExactSoFar
  <2>3. QED  BY <2>1, <2>2
<1>2. QED  BY <1>1, DhtAlways, PTL

(* However long the hold-ups were, a read that ends has stored a one only  *)
(* for a one of the same place in the frame: a thread that missed a bit    *)
(* waits for ever behind the frame.                                        *)
THEOREM DhtEndedReadKeptStep == DhtSpec => []EndedReadKeptStep
<1>1. DhtInv => EndedReadKeptStep
  <2> SUFFICES ASSUME DhtInv, ReadOver, NEW b \in 0 .. Bits - 1, BitOf(dht11_data, b) = 1
               PROVE  BitOf(sent, b) = 1
    BY DEF EndedReadKeptStep
  <2>1. k = 6 /\ OnesSoFar
    BY DEF DhtInv, ReadOver, OnesAreOnes, Slipped
  <2>2. PICK y \in 1 .. 5, j \in 0 .. Width - 1 : b = (y - 1) * Width + j
    BY BitAt
  <2>3. /\ BitOf(dht11_data, b) = Bit(dht11_data[y], Width - 1 - j)
        /\ BitOf(sent, b) = Bit(sent[y], Width - 1 - j)
    BY <2>2, BitOfIs
  <2>4. y \in 1 .. k - 1
    BY <2>1
  <2>5. QED  BY <2>1, <2>3, <2>4 DEF OnesSoFar
<1>2. QED  BY <1>1, DhtAlways, PTL

(* None of the loops without a timeout catches the thread for ever unless  *)
(* the sensor is silent or one bit was held up for longer than Slack.      *)
THEOREM DhtCaughtOnlyByHoldUp == DhtSpec => []CaughtOnlyByHoldUp
<1>1. DhtInv => CaughtOnlyByHoldUp
  <2> SUFFICES ASSUME DhtInv, Caught, ~over, answers  PROVE FALSE
    BY DEF CaughtOnlyByHoldUp
  <2>1. seg = Last /\ stage \in {"low1", "low2", "fall"}
    BY DEF Caught, Resting
  <2>2. /\ stage = "low1" => seg \in {0, 1}
        /\ stage = "low2" => seg \in {2, 3}
        /\ stage = "fall" => seg \in {2 * Stored + 4, 2 * Stored + 4 + 1}
    BY DEF DhtInv, InTime, Late
  <2>3. Stored \in Nat /\ Stored < Bits
    <3>1. DhtTypeOK /\ k < 6
      BY <2>1 DEF DhtInv, Phases
    <3>2. QED  BY <3>1, BitLevels
  <2>4. Last = 2 * Bits + 4 /\ Bits \in Nat
    BY Dht11Assumption DEF Last, Bits
  <2>5. QED  BY <2>1, <2>2, <2>3, <2>4
<1>2. QED  BY <1>1, DhtAlways, PTL

(* The alarm is raised only for a measurement that is out of limits, and   *)
(* never on the zeros from before the first read: ReadEvery is below       *)
(* AlarmEvery, and until then the two counters run together.               *)
THEOREM DhtAlarmIsJustified == DhtSpec => AlarmIsJustified
<1>1. ASSUME DhtInv, [DhtNext]_dhtvars, beep_value3 = 0, beep_value3' = 1, ~over
      PROVE  OutOfLimits(sent)
  <2>1. Iterate
    BY <1>1 DEF DhtNext, Unit, loop, dhtvars
  <2>2. stage = "loop" /\ i >= AlarmEvery /\ OutOfLimits(dht11_data)
    BY <1>1, <2>1 DEF Iterate, Alarm
  <2>3. k = 6
    <3>1. k \in {1, 6} /\ (k = 1 => n = i) /\ n \in 0 .. ReadEvery
      BY <1>1, <2>2 DEF DhtInv, DhtTypeOK, Phases
    <3>2. QED  BY <2>2, <3>1, Dht11Assumption
  <2>4. dht11_data = sent
    <3>1. dht11_data \in [1 .. 5 -> Octet] /\ sent \in [1 .. 5 -> Octet]
      BY <1>1 DEF DhtInv, DhtTypeOK
    <3>2. \A y \in 1 .. 5 : dht11_data[y] = sent[y]
      BY <1>1, <2>3 DEF DhtInv, Exact, ExactSoFar
    <3>3. QED  BY <3>1, <3>2
  <2>5. QED  BY <2>2, <2>4
<1>2. DhtInv /\ [DhtNext]_dhtvars
        => [beep_value3 = 0 /\ beep_value3' = 1 => over \/ OutOfLimits(sent)]_dhtvars
  BY <1>1
<1>3. QED  BY <1>2, DhtAlways, PTL DEF DhtSpec, AlarmIsJustified
----------------------------------------------------------------------------
(* The display bus.                                                        *)

(* The panel; flags is a parameter because the provers handle records with *)
(* set-valued fields better when they do not see what the sets are.        *)
PanelOf(flags) == [count : Nat, shift : Nat, cmd : Nat, args : Seq(Nat),
                   cols : Nat \X Nat, rows : Nat \X Nat, pos : Nat,
                   modes : flags, ram : [Pixels -> Nat]]
Modes == {"awake", "on", "inverted", "partial", "idle", "rgb565"}
Panel == PanelOf(SUBSET Modes)

(* What TFT_init switches on is still on in r.                             *)
Kept(p, r) == \A m \in Normal : m \in p.modes => m \in r.modes

(* The commands that leave a mode of TFT_init.                             *)
Darkening == {SWRESET, SLPIN, DISPOFF, INVOFF}

(* What may be on the bus once the panel is initialised: data, or a        *)
(* command of one byte that leaves no mode of TFT_init. TFT_init itself    *)
(* sends one command more.                                                 *)
OneByte == 0 .. 255
Gentle == OneByte \ (Darkening \cup {COLMOD})
Mild == ({1} \X OneByte) \cup ({0} \X Gentle)
InitByte == Mild \cup {Cmd(COLMOD)}

(* Bytes of the job that have gone by.                                     *)
Received == IF step = 10 THEN at ELSE at - 1

LcdTypeOK ==
    /\ dc \in {0, 1} /\ cs \in {0, 1} /\ panel \in Panel
    /\ job \in 0 .. Len(Jobs) /\ step \in 0 .. 10 /\ since \in 0 .. Gap
    /\ at \in Nat \ {0} /\ IF job = 0 THEN at = 1 ELSE at =< Len(Jobs[job])
    /\ alarm \in {"none", "torn", "whole"}

(* The shift register holds the bits of the byte that were sent since CS   *)
(* fell. A cut raises CS, so that the rest of its byte is lost, and leaves *)
(* DC high, so that the next byte may be taken for data.                   *)
Shifted ==
    /\ step \in {0, 1, 10} \/ cs = 1 => panel.count = 0 /\ panel.shift = 0
    /\ step \in 2 .. 9 /\ cs = 0 =>
         panel.count = step - 2 /\ panel.shift = ByteNow[2] \div 2^(10 - step)
    /\ step > 0 /\ dc = 0 => job > 0 /\ ByteNow[1] = 0
    /\ panel.count = 0 => panel.shift = 0
    /\ job = 0 => step = 0 /\ dc = 0 /\ panel = PowerOn

(* No alarm before the text has been repeated.                             *)
Calm == since = 0 /\ alarm = "none"
Undisturbed ==
    /\ ~Calm => job >= FirstOfText
    /\ Calm /\ job > 0 => /\ step > 0 => dc = ByteNow[1]
                          /\ step > 1 => cs = 0

(* What TFT_init has switched on so far: its first command wakes the       *)
(* panel, the second sets the colour format, and the last two invert it    *)
(* and switch it on.                                                       *)
Initialised ==
    /\ job = 1 => LET m == Received IN
         /\ m >= 1 => "awake" \in panel.modes
         /\ m >= 3 => "rgb565" \in panel.modes
         /\ m >= Len(Commands) - 1 => "inverted" \in panel.modes
         /\ m >= Len(Commands) => "on" \in panel.modes
         /\ (panel.cmd = COLMOD) <=> (m = 2)
    /\ job # 1 => panel.cmd # COLMOD
    /\ job = 2 => Lit

LcdInv == LcdTypeOK /\ Shifted /\ Undisturbed /\ Initialised

----------------------------------------------------------------------------
(* What the panel makes of a command.                                      *)
LEMMA SwitchedIs ==
  ASSUME NEW modes \in SUBSET Modes, NEW b \in Nat
  PROVE  /\ Switched(modes, b) \in SUBSET Modes
         /\ b \notin Darkening => \A m \in Normal : m \in modes => m \in Switched(modes, b)
         /\ b = SLPOUT => "awake" \in Switched(modes, b)
         /\ b = INVON => "inverted" \in Switched(modes, b)
         /\ b = DISPON => "on" \in Switched(modes, b)
<1> USE DEF SWRESET, SLPIN, SLPOUT, PTLON, NORON, INVOFF, INVON, DISPOFF, DISPON, IDMOFF, IDMON
<1> DEFINE r == Switched(modes, b)
           Enters(m) == \E s \in Switches : s[1] = b /\ s[3] = m
           Leaves(m) == \E s \in Switches : s[2] = b /\ s[3] = m
<1>1. \A m : m \in r <=> b # SWRESET /\ (m \in modes \/ Enters(m)) /\ ~Leaves(m)
  BY DEF Switched
<1>2. \A m : Enters(m) => m \in Modes
  BY DEF Switches, Modes
<1>3. b \notin Darkening => \A m \in Normal : ~Leaves(m)
  BY DEF Switches, Normal, Darkening
<1>4. b = SLPOUT => Enters("awake") /\ ~Leaves("awake")
  BY DEF Switches
<1>5. b = INVON => Enters("inverted") /\ ~Leaves("inverted")
  BY DEF Switches
<1>6. b = DISPON => Enters("on") /\ ~Leaves("on")
  BY DEF Switches
<1>7. /\ b \notin Darkening => b # SWRESET
      /\ b \in {SLPOUT, INVON, DISPON} => b # SWRESET
  BY DEF Darkening
<1> HIDE DEF r, Enters, Leaves, SWRESET, SLPIN, SLPOUT, INVOFF, INVON, DISPOFF, DISPON
<1>8. r \in SUBSET Modes
  BY <1>1, <1>2
<1>9. QED  BY <1>1, <1>3, <1>4, <1>5, <1>6, <1>7, <1>8 DEF r

LEMMA CommandIs ==
  ASSUME NEW p \in Panel, NEW b \in Nat
  PROVE  /\ Command(p, b) \in Panel /\ Command(p, b).cmd = b
         /\ b \notin Darkening => Kept(p, Command(p, b))
         /\ b = SLPOUT => "awake" \in Command(p, b).modes
         /\ b = INVON => "inverted" \in Command(p, b).modes
         /\ b = DISPON => "on" \in Command(p, b).modes
<1> DEFINE r == Command(p, b)
           switched == Switched(p.modes, b)
           flags == SUBSET Modes
           pos == IF b = RAMWR THEN 0 ELSE p.pos
<1>1. Panel = PanelOf(flags) /\ p.modes \in SUBSET Modes
  BY DEF Panel, PanelOf
<1>2. r = [p EXCEPT !.cmd = b, !.args = << >>, !.pos = pos, !.modes = switched]
  BY DEF Command
<1>3. pos \in Nat /\ << >> \in Seq(Nat)
  BY DEF Panel, PanelOf
<1>4. /\ switched \in flags
      /\ b \notin Darkening => \A m \in Normal : m \in p.modes => m \in switched
      /\ b = SLPOUT => "awake" \in switched
      /\ b = INVON => "inverted" \in switched
      /\ b = DISPON => "on" \in switched
  BY <1>1, SwitchedIs
<1> HIDE DEF r, switched, pos, flags
<1>5. r \in Panel /\ r.cmd = b /\ r.modes = switched
  BY <1>1, <1>2, <1>3, <1>4 DEF PanelOf
<1>6. QED  BY <1>4, <1>5, Zenon DEF r, Kept

LEMMA SpanIs == \A w \in Nat \X Nat : Span(w) \in Nat \ {0}
<1>1. ASSUME NEW w \in Nat \X Nat  PROVE Span(w) \in Nat \ {0}
  <2>1. w[1] \in Nat /\ w[2] \in Nat
    OBVIOUS
  <2>2. QED  BY <2>1 DEF Span
<1>2. QED  BY <1>1

(* Data switch nothing, unless they are the parameter of COLMOD.           *)
LEMMA DataIs ==
  ASSUME NEW p \in Panel, NEW b \in Nat
  PROVE  /\ Data(p, b) \in Panel /\ Data(p, b).cmd # COLMOD
         /\ p.cmd # COLMOD \/ b = 5 => Kept(p, Data(p, b))
         /\ p.cmd = COLMOD /\ b = 5 => "rgb565" \in Data(p, b).modes
<1> DEFINE args == Append(p.args, b)
           Same(r) == r \in Panel /\ r.modes = p.modes /\ r.cmd \in {0, p.cmd}
           flags == SUBSET Modes
<1>1. args \in Seq(Nat) /\ p.cols \in Nat \X Nat /\ p.rows \in Nat \X Nat /\ p.pos \in Nat
  BY DEF Panel, PanelOf
<1>0. Panel = PanelOf(flags) /\ << >> \in Seq(Nat)
  BY DEF Panel
<1> HIDE DEF flags
<1>2. ASSUME Len(args) = 2  PROVE Same(WritePixel(p, args[1] * 256 + args[2]))
  <2> DEFINE v == args[1] * 256 + args[2]
             size == Span(p.cols) * Span(p.rows)
             ram == [q \in Pixels |-> IF q = Place(p) THEN v ELSE p.ram[q]]
  <2>1. v \in Nat
    BY <1>1, <1>2
  <2>2. Span(p.cols) \in Nat \ {0} /\ Span(p.rows) \in Nat \ {0}
    BY <1>1, SpanIs
  <2>3. size \in Nat \ {0}
    BY <2>2
  <2> HIDE DEF v, size
  <2>4. ram \in [Pixels -> Nat]
    BY <2>1 DEF Panel, PanelOf
  <2> HIDE DEF ram
  <2>5. (p.pos + 1) % size \in Nat
    BY <1>1, <2>3
  <2>6. WritePixel(p, v) = [p EXCEPT !.args = << >>, !.ram = ram, !.pos = (p.pos + 1) % size]
    BY DEF WritePixel, ram, size
  <2>7. Same(WritePixel(p, v))
    BY <1>0, <2>4, <2>5, <2>6 DEF PanelOf
  <2>8. QED  BY <2>7 DEF v
<1>3. ASSUME Len(args) = 4
      PROVE  /\ Same([p EXCEPT !.cols = Window(args), !.cmd = 0, !.args = << >>])
             /\ Same([p EXCEPT !.rows = Window(args), !.cmd = 0, !.args = << >>])
  <2>1. Window(args) \in Nat \X Nat
    <3> HIDE DEF args
    <3>1. args[1] \in Nat /\ args[2] \in Nat /\ args[3] \in Nat /\ args[4] \in Nat
      <4>1. 1 \in 1 .. Len(args) /\ 2 \in 1 .. Len(args) /\ 3 \in 1 .. Len(args) /\ 4 \in 1 .. Len(args)
        BY <1>3
      <4>2. QED  BY <1>1, <4>1, ElementOfSeq
    <3>2. args[1] * 256 + args[2] \in Nat /\ args[3] * 256 + args[4] \in Nat
      BY <3>1
    <3>3. QED  BY <3>2 DEF Window
  <2> HIDE DEF args
  <2>2. QED  BY <1>0, <2>1 DEF PanelOf
<1>4. Same([p EXCEPT !.args = args]) /\ Same(p)
  <2> HIDE DEF args
  <2>1. QED  BY <1>0, <1>1 DEF PanelOf
<1> DEFINE r == Data(p, b)
<1>5. CASE p.cmd # COLMOD
  <2>1. \/ Len(args) = 2 /\ r = WritePixel(p, args[1] * 256 + args[2])
        \/ Len(args) = 4 /\ \/ r = [p EXCEPT !.cols = Window(args), !.cmd = 0, !.args = << >>]
                            \/ r = [p EXCEPT !.rows = Window(args), !.cmd = 0, !.args = << >>]
        \/ r = [p EXCEPT !.args = args]
        \/ r = p
    BY <1>5 DEF Data
  <2>2. Same(r)
    BY <1>2, <1>3, <1>4, <2>1
  <2>3. COLMOD # 0
    BY DEF COLMOD
  <2> HIDE DEF r
  <2>4. QED  BY <1>5, <2>2, <2>3 DEF Kept, r
<1>6. CASE p.cmd = COLMOD
  <2> DEFINE m == IF b = 5 THEN p.modes \cup {"rgb565"} ELSE p.modes \ {"rgb565"}
  <2>1. r = [p EXCEPT !.modes = m, !.cmd = 0]
    BY <1>6 DEF Data, COLMOD, RAMWR, CASET, RASET
  <2>2. m \in SUBSET Modes /\ (b = 5 => "rgb565" \in m /\ \A o \in p.modes : o \in m)
    BY DEF Modes, Panel, PanelOf
  <2>3. m \in flags
    BY <2>2 DEF flags
  <2> HIDE DEF r, m
  <2>4. r \in Panel /\ r.modes = m /\ r.cmd = 0
    BY <1>0, <2>1, <2>3 DEF PanelOf
  <2>5. QED  BY <1>6, <2>2, <2>4 DEF Kept, r, COLMOD
<1>7. QED  BY <1>5, <1>6

(* What the panel makes of a byte.                                         *)
LEMMA ReceiveIs ==
  ASSUME NEW p \in Panel, NEW level \in {0, 1}, NEW b \in Nat, NEW r, r = Receive(p, level, b)
  PROVE  /\ r \in Panel
         /\ level = 0 => r.cmd = b
         /\ level = 1 => r.cmd # COLMOD
         /\ level = 0 /\ b \notin Darkening => Kept(p, r)
         /\ level = 1 /\ (p.cmd # COLMOD \/ b = 5) => Kept(p, r)
         /\ level = 0 /\ b = SLPOUT => "awake" \in r.modes
         /\ level = 0 /\ b = INVON => "inverted" \in r.modes
         /\ level = 0 /\ b = DISPON => "on" \in r.modes
         /\ level = 1 /\ p.cmd = COLMOD /\ b = 5 => "rgb565" \in r.modes
<1>1. CASE level = 0
  <2>1. r = Command(p, b) /\ level # 1
    BY <1>1 DEF Receive
  <2>2. QED  BY <1>1, <2>1, CommandIs, Zenon
<1>2. CASE level = 1
  <2>1. r = Data(p, b) /\ level # 0
    BY <1>2 DEF Receive
  <2>2. QED  BY <1>2, <2>1, DataIs, Zenon
<1>3. QED  BY <1>1, <1>2

(* CS drops what is in the shift register, and nothing else.               *)
Same(p, r) == /\ r.cmd = p.cmd /\ r.args = p.args /\ r.cols = p.cols /\ r.rows = p.rows
              /\ r.pos = p.pos /\ r.modes = p.modes /\ r.ram = p.ram

LEMMA DeselectIs ==
  ASSUME NEW p \in Panel
  PROVE  /\ Deselect(p) \in Panel /\ Deselect(p).count = 0 /\ Deselect(p).shift = 0
         /\ Same(p, Deselect(p))
<1> DEFINE flags == SUBSET Modes
<1>1. Panel = PanelOf(flags)
  BY DEF Panel
<1> HIDE DEF flags
<1>2. p \in PanelOf(flags)
  BY <1>1
<1> DEFINE r == [p EXCEPT !.count = 0, !.shift = 0]
<1>3. r.count = 0 /\ r.shift = 0 /\ Same(p, r)
  BY <1>2 DEF PanelOf, Same
<1>4. r \in PanelOf(flags)
  BY <1>2 DEF PanelOf
<1>5. Deselect(p) = r
  BY DEF Deselect
<1>6. QED  BY <1>1, <1>3, <1>4, <1>5, Zenon

----------------------------------------------------------------------------
(* The functions that the module defines by recursion. Each exists: of the *)
(* lengths for which there is none, take the least.                        *)
LEMMA SentIs ==
  ASSUME NEW p, NEW bytes, Len(bytes) \in Nat
  PROVE  \E f : /\ f[0] = p /\ \A b \in 1 .. Len(bytes) : f[b] = SendByte(f[b - 1], bytes[b])
               /\ Sent(p, bytes) = f[Len(bytes)]
<1> DEFINE Builds(f, m) == f = [b \in 0 .. m |-> IF b = 0 THEN p ELSE SendByte(f[b - 1], bytes[b])]
           S == {m \in Nat : ~\E f : Builds(f, m)}
<1>1. \A m \in Nat : \E f : Builds(f, m)
  <2>1. ASSUME S # {}  PROVE FALSE
    <3>1. PICK m \in S : \A o \in S : m =< o
      BY <2>1, LeastNumber
    <3>2. m \in Nat /\ ~\E f : Builds(f, m)
      BY <3>1
    <3>3. CASE m = 0
      <4> DEFINE g == [b \in 0 .. 0 |-> p]
      <4>1. Builds(g, 0)
        OBVIOUS
      <4>2. QED  BY <3>2, <3>3, <4>1
    <3>4. CASE m # 0
      <4>0. m - 1 \in Nat /\ ~(m =< m - 1)
        BY <3>2, <3>4
      <4>1. m - 1 \notin S
        BY <3>1, <4>0, Zenon
      <4>2. PICK f : Builds(f, m - 1)
        BY <4>0, <4>1, Zenon
      <4> DEFINE g == [b \in 0 .. m |-> IF b < m THEN f[b] ELSE SendByte(f[m - 1], bytes[m])]
      <4>3. ASSUME NEW b \in 0 .. m
            PROVE  g[b] = IF b = 0 THEN p ELSE SendByte(g[b - 1], bytes[b])
        <5>1. CASE b < m
          <6>1. b \in 0 .. m - 1 /\ g[b] = f[b] /\ (b # 0 => g[b - 1] = f[b - 1])
            BY <3>2, <5>1
          <6>2. f[b] = IF b = 0 THEN p ELSE SendByte(f[b - 1], bytes[b])
            BY <4>2, <6>1
          <6>3. QED  BY <6>1, <6>2
        <5>2. CASE b = m
          <6>1. g[m] = SendByte(f[m - 1], bytes[m]) /\ g[m - 1] = f[m - 1]
            <7>1. m \in 0 .. m /\ m - 1 \in 0 .. m /\ m - 1 < m /\ ~(m < m)
              BY <3>2, <3>4
            <7>2. QED  BY <7>1, Zenon
          <6>2. QED  BY <3>4, <5>2, <6>1
        <5>3. QED  BY <3>2, <5>1, <5>2
      <4>4. Builds(g, m)
        BY <4>3
      <4>5. QED  BY <3>2, <4>4
    <3>5. QED  BY <3>3, <3>4
  <2>2. QED  BY <2>1
<1>2. PICK h : Builds(h, Len(bytes))
  BY <1>1
<1> DEFINE f == CHOOSE g : Builds(g, Len(bytes))
<1>3. Builds(f, Len(bytes))
  BY <1>2, Zenon
<1>4. Sent(p, bytes) = f[Len(bytes)]
  BY DEF Sent
<1> HIDE DEF f
<1>5. f[0] = p /\ \A b \in 1 .. Len(bytes) : f[b] = SendByte(f[b - 1], bytes[b])
  BY <1>3
<1>6. QED  BY <1>4, <1>5

LEMMA JoinedIs ==
  ASSUME NEW parts, Len(parts) \in Nat
  PROVE  \E f : /\ f[0] = << >> /\ \A b \in 1 .. Len(parts) : f[b] = f[b - 1] \o parts[b]
               /\ Joined(parts) = f[Len(parts)]
<1> DEFINE Builds(f, m) == f = [b \in 0 .. m |-> IF b = 0 THEN << >> ELSE f[b - 1] \o parts[b]]
           S == {m \in Nat : ~\E f : Builds(f, m)}
<1>1. \A m \in Nat : \E f : Builds(f, m)
  <2>1. ASSUME S # {}  PROVE FALSE
    <3>1. PICK m \in S : \A o \in S : m =< o
      BY <2>1, LeastNumber
    <3>2. m \in Nat /\ ~\E f : Builds(f, m)
      BY <3>1
    <3>3. CASE m = 0
      <4> DEFINE g == [b \in 0 .. 0 |-> << >>]
      <4>1. Builds(g, 0)
        OBVIOUS
      <4>2. QED  BY <3>2, <3>3, <4>1
    <3>4. CASE m # 0
      <4>0. m - 1 \in Nat /\ ~(m =< m - 1)
        BY <3>2, <3>4
      <4>1. m - 1 \notin S
        BY <3>1, <4>0, Zenon
      <4>2. PICK f : Builds(f, m - 1)
        BY <4>0, <4>1, Zenon
      <4> DEFINE g == [b \in 0 .. m |-> IF b < m THEN f[b] ELSE f[m - 1] \o parts[m]]
      <4>3. ASSUME NEW b \in 0 .. m
            PROVE  g[b] = IF b = 0 THEN << >> ELSE g[b - 1] \o parts[b]
        <5>1. CASE b < m
          <6>1. b \in 0 .. m - 1 /\ g[b] = f[b] /\ (b # 0 => g[b - 1] = f[b - 1])
            BY <3>2, <5>1
          <6>2. f[b] = IF b = 0 THEN << >> ELSE f[b - 1] \o parts[b]
            BY <4>2, <6>1
          <6>3. QED  BY <6>1, <6>2
        <5>2. CASE b = m
          <6>1. g[m] = f[m - 1] \o parts[m] /\ g[m - 1] = f[m - 1]
            <7>1. m \in 0 .. m /\ m - 1 \in 0 .. m /\ m - 1 < m /\ ~(m < m)
              BY <3>2, <3>4
            <7>2. QED  BY <7>1, Zenon
          <6>2. QED  BY <3>4, <5>2, <6>1
        <5>3. QED  BY <3>2, <5>1, <5>2
      <4>4. Builds(g, m)
        BY <4>3
      <4>5. QED  BY <3>2, <4>4
    <3>5. QED  BY <3>3, <3>4
  <2>2. QED  BY <2>1
<1>2. PICK h : Builds(h, Len(parts))
  BY <1>1
<1> DEFINE f == CHOOSE g : Builds(g, Len(parts))
<1>3. Builds(f, Len(parts))
  BY <1>2, Zenon
<1>4. Joined(parts) = f[Len(parts)]
  BY DEF Joined
<1> HIDE DEF f
<1>5. f[0] = << >> /\ \A b \in 1 .. Len(parts) : f[b] = f[b - 1] \o parts[b]
  BY <1>3
<1>6. QED  BY <1>4, <1>5

----------------------------------------------------------------------------
(* Sequences of bytes.                                                     *)
LEMMA Concatenated ==
  ASSUME NEW H, NEW s \in Seq(H), NEW t \in Seq(H)
  PROVE  /\ s \o t \in Seq(H) /\ Len(s \o t) = Len(s) + Len(t)
         /\ \A e \in 1 .. Len(s) : (s \o t)[e] = s[e]
         /\ \A e \in 1 .. Len(t) : (s \o t)[Len(s) + e] = t[e]
<1>1. s \o t \in Seq(H) /\ Len(s \o t) = Len(s) + Len(t)
  BY ConcatProperties
<1>2. Len(s) \in Nat /\ Len(t) \in Nat
  BY LenProperties
<1>3. \A e \in 1 .. Len(s) + Len(t) :
         (s \o t)[e] = IF e =< Len(s) THEN s[e] ELSE t[e - Len(s)]
  BY ConcatProperties
<1>4. ASSUME NEW e \in 1 .. Len(s)  PROVE (s \o t)[e] = s[e]
  BY <1>2, <1>3
<1>5. ASSUME NEW e \in 1 .. Len(t)  PROVE (s \o t)[Len(s) + e] = t[e]
  <2>1. /\ Len(s) + e \in 1 .. Len(s) + Len(t) /\ ~(Len(s) + e =< Len(s))
        /\ (Len(s) + e) - Len(s) = e
    BY <1>2
  <2>2. QED  BY <1>3, <2>1
<1>6. QED  BY <1>1, <1>4, <1>5

(* A joined sequence holds what its parts hold and begins and ends as the  *)
(* first and the last of them.                                             *)
LEMMA JoinedHolds ==
  ASSUME NEW H, NEW parts, Len(parts) \in Nat \ {0},
         \A b \in 1 .. Len(parts) : parts[b] \in Seq(H) /\ Len(parts[b]) >= 1
  PROVE  /\ Joined(parts) \in Seq(H) /\ Len(Joined(parts)) >= 1
         /\ Joined(parts)[1] = parts[1][1]
         /\ Joined(parts)[Len(Joined(parts))] = parts[Len(parts)][Len(parts[Len(parts)])]
<1> DEFINE N == Len(parts)
<1>0. N \in Nat /\ N >= 1
  OBVIOUS
<1>1. PICK f : /\ f[0] = << >> /\ \A b \in 1 .. N : f[b] = f[b - 1] \o parts[b]
               /\ Joined(parts) = f[N]
  BY <1>0, JoinedIs
<1> HIDE DEF N
<1> DEFINE Good(b) == f[b] \in Seq(H) /\ Len(f[b]) >= 1 /\ f[b][1] = parts[1][1]
           S == {b \in 1 .. N : ~Good(b)}
<1>2. f[1] = parts[1] /\ parts[1] \in Seq(H) /\ Len(parts[1]) >= 1
  <2>1. 1 \in 1 .. N /\ 1 - 1 = 0
    BY <1>0
  <2>2. f[1] = << >> \o parts[1] /\ parts[1] \in Seq(H) /\ Len(parts[1]) >= 1
    BY <1>1, <2>1 DEF N
  <2>3. QED  BY <2>2
<1>3. ASSUME S # {}  PROVE FALSE
  <2>1. S \in SUBSET Nat
    OBVIOUS
  <2>2. PICK m \in S : \A o \in S : m =< o
    BY <1>3, <2>1, LeastNumber
  <2>3. m \in 1 .. N /\ ~Good(m)
    BY <2>2
  <2>4. m # 1
    BY <1>2, <2>3
  <2>5. m - 1 \in 1 .. N /\ ~(m =< m - 1)
    BY <1>0, <2>3, <2>4
  <2>6. Good(m - 1)
    BY <2>2, <2>5, Zenon
  <2> DEFINE s == f[m - 1]
             t == parts[m]
  <2>7. f[m] = s \o t /\ t \in Seq(H)
    BY <1>1, <2>3 DEF N
  <2>8. s \in Seq(H) /\ Len(s) >= 1 /\ s[1] = parts[1][1]
    BY <2>6
  <2> HIDE DEF s, t
  <2>9. /\ s \o t \in Seq(H) /\ Len(s \o t) = Len(s) + Len(t)
        /\ \A e \in 1 .. Len(s) : (s \o t)[e] = s[e]
    BY <2>7, <2>8, Concatenated
  <2>10. Len(s) \in Nat /\ Len(t) \in Nat
    BY <2>7, <2>8, LenProperties
  <2>11. 1 \in 1 .. Len(s) /\ Len(s) + Len(t) >= 1
    BY <2>8, <2>10
  <2>12. (s \o t)[1] = parts[1][1]
    BY <2>8, <2>9, <2>11
  <2>13. Good(m)
    BY <2>7, <2>9, <2>11, <2>12
  <2>14. QED  BY <2>3, <2>13
<1>4. ASSUME NEW b \in 1 .. N  PROVE Good(b)
  BY <1>3, Zenon
<1>5. N \in 1 .. N
  BY <1>0
<1>6. Good(N)
  BY <1>4, <1>5
<1>7. f[N][Len(f[N])] = parts[N][Len(parts[N])]
  <2>1. /\ f[N] = f[N - 1] \o parts[N] /\ parts[N] \in Seq(H) /\ Len(parts[N]) >= 1
    BY <1>1, <1>5 DEF N
  <2>2. f[N - 1] \in Seq(H)
    <3>1. CASE N = 1
      <4>1. N - 1 = 0 /\ << >> \in Seq(H)
        BY <3>1
      <4>2. QED  BY <1>1, <4>1
    <3>2. CASE N # 1
      <4>1. N - 1 \in 1 .. N
        BY <1>0, <3>2
      <4>2. QED  BY <1>4, <4>1
    <3>3. QED  BY <3>1, <3>2
  <2> DEFINE s == f[N - 1]
             t == parts[N]
  <2>3. f[N] = s \o t /\ s \in Seq(H) /\ t \in Seq(H) /\ Len(t) >= 1
    BY <2>1, <2>2
  <2> HIDE DEF s, t
  <2>4. Len(s \o t) = Len(s) + Len(t) /\ \A e \in 1 .. Len(t) : (s \o t)[Len(s) + e] = t[e]
    BY <2>3, Concatenated
  <2>5. Len(t) \in Nat
    BY <2>3, LenProperties
  <2>6. Len(t) \in 1 .. Len(t)
    BY <2>3, <2>5
  <2>7. (s \o t)[Len(s \o t)] = t[Len(t)]
    BY <2>4, <2>6
  <2>8. QED  BY <2>3, <2>7 DEF t
<1>8. QED  BY <1>1, <1>6, <1>7 DEF N

----------------------------------------------------------------------------
(* What the threads send.                                                  *)
LEMMA Below ==
  ASSUME NEW w \in TwoBytes, NEW v \in Nat, v =< w
  PROVE  v \in TwoBytes
<1> DEFINE m == 256 * 256 - 1
<1>1. m \in Int
  OBVIOUS
<1>2. TwoBytes = 0 .. m
  BY Zenon DEF TwoBytes
<1> HIDE DEF m
<1>3. QED  BY <1>1, <1>2

LEMMA Halves ==
  ASSUME NEW w \in TwoBytes
  PROVE  w \div 256 \in OneByte /\ w % 256 \in OneByte /\ (w \div 256) * 256 + (w % 256) = w
<1>1. w \in Nat /\ w < 256 * 256 /\ 256 \in Nat \ {0}
  BY DEF TwoBytes
<1>2. PICK a \in Nat, c \in 0 .. 256 - 1 : w = 256 * a + c /\ w \div 256 = a /\ w % 256 = c
  BY <1>1, Divide
<1>3. QED  BY <1>1, <1>2 DEF OneByte

(* Sequences that may be on the bus.                                       *)
Bytes == {s \in Seq(Mild) : Len(s) >= 1}

LEMMA Follows ==
  ASSUME NEW s \in Bytes, NEW t \in Bytes
  PROVE  s \o t \in Bytes
<1>1. s \in Seq(Mild) /\ t \in Seq(Mild) /\ Len(s) >= 1 /\ Len(t) >= 1
  BY DEF Bytes
<1>2. s \o t \in Seq(Mild) /\ Len(s \o t) = Len(s) + Len(t)
  BY <1>1, Concatenated
<1>3. Len(s) \in Nat /\ Len(t) \in Nat
  BY <1>1, LenProperties
<1>4. QED  BY <1>1, <1>2, <1>3 DEF Bytes

LEMMA WordIs ==
  ASSUME NEW w \in TwoBytes
  PROVE  Word(w) \in Bytes /\ Len(Word(w)) = 2 /\ Word(w)[1][1] = 1 /\ Word(w)[2][1] = 1
<1>1. <<1, w \div 256>> \in Mild /\ <<1, w % 256>> \in Mild
  BY Halves DEF Mild
<1>2. Word(w) \in Seq(Mild) /\ Len(Word(w)) = 2
  BY <1>1 DEF Word, Dat
<1>3. Word(w)[1][1] = 1 /\ Word(w)[2][1] = 1
  BY DEF Word, Dat
<1>4. QED  BY <1>2, <1>3 DEF Bytes

LEMMA OneCommand ==
  ASSUME NEW b \in Gentle
  PROVE  <<Cmd(b)>> \in Bytes
<1>1. Cmd(b) \in Mild
  BY DEF Cmd, Mild
<1>2. <<Cmd(b)>> \in Seq(Mild) /\ Len(<<Cmd(b)>>) = 1
  BY <1>1
<1>3. QED  BY <1>2 DEF Bytes

LEMMA WindowCommands == CASET \in Gentle /\ RASET \in Gentle /\ RAMWR \in Gentle
BY DEF Gentle, OneByte, Darkening, COLMOD, CASET, RASET, RAMWR, SWRESET, SLPIN, DISPOFF, INVOFF

LEMMA HeaderIs ==
  ASSUME NEW x0, NEW y0 \in TwoBytes, NEW x1, NEW y1 \in TwoBytes,
         x0 + Offset \in TwoBytes, x1 + Offset \in TwoBytes
  PROVE  TFT_SET_ADD(x0, y0, x1, y1) \in Bytes
<1>2. /\ Word(x0 + Offset) \in Bytes /\ Word(x1 + Offset) \in Bytes
      /\ Word(y0) \in Bytes /\ Word(y1) \in Bytes
  BY WordIs
<1>4. <<Cmd(CASET)>> \in Bytes /\ <<Cmd(RASET)>> \in Bytes /\ <<Cmd(RAMWR)>> \in Bytes
  BY WindowCommands, OneCommand
<1>5. <<Cmd(CASET)>> \o Word(x0 + Offset) \o Word(x1 + Offset) \in Bytes
  BY <1>2, <1>4, Follows, Zenon
<1>6. <<Cmd(CASET)>> \o Word(x0 + Offset) \o Word(x1 + Offset) \o <<Cmd(RASET)>> \in Bytes
  BY <1>4, <1>5, Follows, Zenon
<1>7. <<Cmd(CASET)>> \o Word(x0 + Offset) \o Word(x1 + Offset) \o <<Cmd(RASET)>>
         \o Word(y0) \o Word(y1) \in Bytes
  BY <1>2, <1>6, Follows, Zenon
<1>8. QED  BY <1>4, <1>7, Follows, Zenon DEF TFT_SET_ADD

(* Colours are data.                                                       *)
DataOnly == {s \in Seq({1} \X OneByte) : Len(s) >= 1}

LEMMA ColoursAre ==
  ASSUME NEW cells, Len(cells) \in Nat \ {0}, \A q \in 1 .. Len(cells) : cells[q] \in TwoBytes
  PROVE  Colours(cells) \in DataOnly /\ Colours(cells) \in Bytes
<1> DEFINE parts == [q \in 1 .. Len(cells) |-> Word(cells[q])]
           H == {1} \X OneByte
<1>1. Len(parts) = Len(cells) /\ \A q \in 1 .. Len(parts) : parts[q] = Word(cells[q])
  OBVIOUS
<1>2. Colours(cells) = Joined(parts)
  BY DEF Colours
<1> HIDE DEF parts
<1>3. ASSUME NEW q \in 1 .. Len(parts)  PROVE parts[q] \in Seq(H) /\ Len(parts[q]) >= 1
  <2>1. PICK w \in TwoBytes : parts[q] = Word(w)
    BY <1>1
  <2>2. <<1, w \div 256>> \in H /\ <<1, w % 256>> \in H
    BY Halves
  <2> HIDE DEF H
  <2>3. Word(w) \in Seq(H) /\ Len(Word(w)) = 2
    BY <2>2 DEF Word, Dat
  <2>4. QED  BY <2>1, <2>3
<1> HIDE DEF H
<1>4. Len(parts) \in Nat \ {0}
  BY <1>1
<1>5. Joined(parts) \in Seq(H) /\ Len(Joined(parts)) >= 1
  BY <1>3, <1>4, JoinedHolds
<1>6. \A s \in Seq(H) : s \in Seq(Mild)
  BY DEF H, Mild
<1>7. QED  BY <1>2, <1>5, <1>6 DEF Bytes, DataOnly, H

LEMMA FullIs == TFT_full(WHITE) \in Bytes
<1>1. /\ Columns \in Nat \ {0} /\ Lines \in Nat \ {0} /\ Offset \in Nat
      /\ Offset + Columns - 1 \in TwoBytes /\ Lines - 1 \in TwoBytes
  BY LcdAssumption
<1>2. Columns - 1 + Offset \in TwoBytes /\ 0 \in TwoBytes /\ 0 + Offset \in TwoBytes
  <2>1. Columns - 1 + Offset = Offset + Columns - 1
    BY <1>1
  <2>2. 0 =< Lines - 1 /\ 0 + Offset =< Offset + Columns - 1
    BY <1>1
  <2>3. QED  BY <1>1, <2>1, <2>2, Below
<1> DEFINE m == Columns * Lines
           cells == [j \in 1 .. Columns * Lines |-> WHITE]
<1>3. m \in Nat \ {0}
  BY <1>1
<1>4. cells = [j \in 1 .. m |-> WHITE]
  BY Zenon
<1>5. TFT_full(WHITE) = TFT_SET_ADD(0, 0, Columns - 1, Lines - 1) \o Colours(cells)
  BY Zenon DEF TFT_full
<1> HIDE DEF m, cells
<1>6. Len(cells) \in Nat \ {0} /\ \A q \in 1 .. Len(cells) : cells[q] \in TwoBytes
  BY <1>3, <1>4 DEF WHITE, TwoBytes
<1>7. Colours(cells) \in Bytes
  BY <1>6, ColoursAre
<1>8. TFT_SET_ADD(0, 0, Columns - 1, Lines - 1) \in Bytes
  BY <1>1, <1>2, HeaderIs
<1>9. QED  BY <1>5, <1>7, <1>8, Follows

(* A character's coordinates fit into two bytes.                           *)
Area == Cell * Cell
Placed(c) == /\ c.x \in Nat /\ c.y \in Nat
             /\ Offset + c.x + Cell - 1 \in TwoBytes /\ c.y + Cell - 1 \in TwoBytes

LEMMA AreaIs == Cell \in Nat \ {0} /\ Area \in Nat \ {0} /\ Offset \in Nat
<1>1. Cell \in Nat \ {0} /\ Offset \in Nat
  BY LcdAssumption
<1>2. QED  BY <1>1 DEF Area

(* The colours of a character.                                             *)
CellsOf(c) == [j \in 1 .. Cell * Cell |-> IF c.glyph[j] = 1 THEN BLACK ELSE WHITE]

LEMMA CellsAre ==
  ASSUME NEW c
  PROVE  /\ Len(CellsOf(c)) = Area
         /\ \A q \in 1 .. Area : /\ CellsOf(c)[q] \in TwoBytes
                                 /\ CellsOf(c)[q] = IF c.glyph[q] = 1 THEN BLACK ELSE WHITE
<1> DEFINE Colour(j) == IF c.glyph[j] = 1 THEN BLACK ELSE WHITE
<1>1. \A j : Colour(j) \in TwoBytes
  BY DEF BLACK, WHITE, TwoBytes
<1>2. CellsOf(c) = [j \in 1 .. Area |-> Colour(j)]
  BY Zenon DEF Area, CellsOf
<1> HIDE DEF Colour
<1>3. Len(CellsOf(c)) = Area /\ \A q \in 1 .. Area : CellsOf(c)[q] = Colour(q)
  BY <1>2, AreaIs
<1>4. QED  BY <1>1, <1>3, Zenon DEF Colour

LEMMA CharacterIs ==
  ASSUME NEW c, Placed(c)
  PROVE  /\ display_ascii_16_16(c) \in Bytes
         /\ display_ascii_16_16(c) =
              TFT_SET_ADD(c.x, c.y, c.x + Cell - 1, c.y + Cell - 1) \o Colours(CellsOf(c))
         /\ TFT_SET_ADD(c.x, c.y, c.x + Cell - 1, c.y + Cell - 1) \in Bytes
         /\ Colours(CellsOf(c)) \in Bytes /\ Colours(CellsOf(c)) \in DataOnly
<1>1. Cell \in Nat \ {0} /\ Offset \in Nat
  BY AreaIs
<1>2. /\ c.x + Offset \in TwoBytes /\ c.x + Cell - 1 + Offset \in TwoBytes
      /\ c.y \in TwoBytes /\ c.y + Cell - 1 \in TwoBytes
  <2>1. /\ c.x \in Nat /\ c.y \in Nat
        /\ Offset + c.x + Cell - 1 \in TwoBytes /\ c.y + Cell - 1 \in TwoBytes
    BY DEF Placed
  <2>2. c.x + Cell - 1 + Offset = Offset + c.x + Cell - 1
    BY <1>1, <2>1
  <2>3. c.x + Offset =< Offset + c.x + Cell - 1 /\ c.y =< c.y + Cell - 1 /\ c.x + Offset \in Nat
    BY <1>1, <2>1
  <2>4. QED  BY <2>1, <2>2, <2>3, Below
<1>3. display_ascii_16_16(c) =
        TFT_SET_ADD(c.x, c.y, c.x + Cell - 1, c.y + Cell - 1) \o Colours(CellsOf(c))
  BY Zenon DEF display_ascii_16_16, CellsOf
<1>4. Len(CellsOf(c)) \in Nat \ {0} /\ \A q \in 1 .. Len(CellsOf(c)) : CellsOf(c)[q] \in TwoBytes
  BY CellsAre, AreaIs
<1>5. Colours(CellsOf(c)) \in Bytes /\ Colours(CellsOf(c)) \in DataOnly
  BY <1>4, ColoursAre
<1>6. TFT_SET_ADD(c.x, c.y, c.x + Cell - 1, c.y + Cell - 1) \in Bytes
  BY <1>2, HeaderIs
<1>7. QED  BY <1>3, <1>5, <1>6, Follows

(* The lines of TFT_init: a command that leaves no mode and its            *)
(* parameters, and one line that sets the colour format.                   *)
InitLine == {s \in Seq(Nat) : /\ Len(s) >= 1 /\ s[1] \in Gentle
                              /\ \A a \in 2 .. Len(s) : s[a] \in OneByte}

LEMMA InitLines ==
  /\ Len(TFT_init) = 19 /\ TFT_init[1] = <<SLPOUT>> /\ TFT_init[2] = <<COLMOD, 5>>
  /\ TFT_init[18] = <<INVON>> /\ TFT_init[19] = <<DISPON>>
  /\ \A q \in 1 .. 19 : q # 2 => TFT_init[q] \in InitLine
<1>1. /\ Len(TFT_init) = 19 /\ TFT_init[1] = <<SLPOUT>> /\ TFT_init[2] = <<COLMOD, 5>>
      /\ TFT_init[18] = <<INVON>> /\ TFT_init[19] = <<DISPON>>
  BY DEF TFT_init
<1>2. ASSUME NEW q \in 1 .. 19, q # 2  PROVE TFT_init[q] \in InitLine
  <2> USE DEF InitLine, Gentle, OneByte, Darkening, SWRESET, SLPIN, DISPOFF, INVOFF, COLMOD
  <2>1. CASE q = 1
    <3>1. TFT_init[1] = <<17>>
      BY <1>1 DEF SLPOUT
    <3>2. QED  BY <2>1, <3>1
  <2>3. CASE q = 3
    <3>1. TFT_init[3] = <<197, 26>>
      BY DEF TFT_init
    <3>2. QED  BY <2>3, <3>1
  <2>4. CASE q = 4
    <3>1. TFT_init[4] = <<54, 0>>
      BY DEF TFT_init
    <3>2. QED  BY <2>4, <3>1
  <2>5. CASE q = 5
    <3>1. TFT_init[5] = <<178, 5, 5, 0, 51, 51>>
      BY DEF TFT_init
    <3>2. QED  BY <2>5, <3>1
  <2>6. CASE q = 6
    <3>1. TFT_init[6] = <<183, 5>>
      BY DEF TFT_init
    <3>2. QED  BY <2>6, <3>1
  <2>7. CASE q = 7
    <3>1. TFT_init[7] = <<187, 63>>
      BY DEF TFT_init
    <3>2. QED  BY <2>7, <3>1
  <2>8. CASE q = 8
    <3>1. TFT_init[8] = <<192, 44>>
      BY DEF TFT_init
    <3>2. QED  BY <2>8, <3>1
  <2>9. CASE q = 9
    <3>1. TFT_init[9] = <<194, 1>>
      BY DEF TFT_init
    <3>2. QED  BY <2>9, <3>1
  <2>10. CASE q = 10
    <3>1. TFT_init[10] = <<195, 15>>
      BY DEF TFT_init
    <3>2. QED  BY <2>10, <3>1
  <2>11. CASE q = 11
    <3>1. TFT_init[11] = <<196, 32>>
      BY DEF TFT_init
    <3>2. QED  BY <2>11, <3>1
  <2>12. CASE q = 12
    <3>1. TFT_init[12] = <<198, 1>>
      BY DEF TFT_init
    <3>2. QED  BY <2>12, <3>1
  <2>13. CASE q = 13
    <3>1. TFT_init[13] = <<208, 164, 161>>
      BY DEF TFT_init
    <3>2. QED  BY <2>13, <3>1
  <2>14. CASE q = 14
    <3>1. TFT_init[14] = <<232, 3>>
      BY DEF TFT_init
    <3>2. QED  BY <2>14, <3>1
  <2>15. CASE q = 15
    <3>1. TFT_init[15] = <<233, 9, 9, 8>>
      BY DEF TFT_init
    <3>2. QED  BY <2>15, <3>1
  <2>16. CASE q = 16
    <3>1. TFT_init[16] = <<224, 208, 5, 9, 9, 8, 20, 40, 51, 63, 7, 19, 20, 40, 48>>
      BY DEF TFT_init
    <3>2. QED  BY <2>16, <3>1
  <2>17. CASE q = 17
    <3>1. TFT_init[17] = <<225, 208, 5, 9, 9, 8, 3, 36, 50, 50, 59, 20, 19, 40, 47>>
      BY DEF TFT_init
    <3>2. QED  BY <2>17, <3>1
  <2>18. CASE q = 18
    <3>1. TFT_init[18] = <<33>>
      BY <1>1 DEF INVON
    <3>2. QED  BY <2>18, <3>1
  <2>19. CASE q = 19
    <3>1. TFT_init[19] = <<41>>
      BY <1>1 DEF DISPON
    <3>2. QED  BY <2>19, <3>1
  <2> HIDE DEF InitLine, Gentle, OneByte, Darkening, SWRESET, SLPIN, DISPOFF, INVOFF, COLMOD
  <2>20. QED  BY <1>2, <2>1, <2>3, <2>4, <2>5, <2>6, <2>7, <2>8, <2>9, <2>10, <2>11, <2>12, <2>13, <2>14, <2>15, <2>16, <2>17, <2>18, <2>19
<1>3. QED  BY <1>1, <1>2

LEMMA LineIs ==
  ASSUME NEW l \in InitLine, NEW s, s = <<Cmd(l[1])>> \o Parameters(l)
  PROVE  s \in Bytes /\ s[1] = Cmd(l[1]) /\ (Len(l) = 1 => Len(s) = 1)
<1> DEFINE h == <<Cmd(l[1])>>
           t == Parameters(l)
<1>1. /\ l \in Seq(Nat) /\ Len(l) \in Nat \ {0} /\ l[1] \in Gentle
      /\ \A a \in 2 .. Len(l) : l[a] \in OneByte
  BY DEF InitLine
<1>2. h \in Bytes /\ Len(h) = 1 /\ h[1] = Cmd(l[1])
  BY <1>1, OneCommand
<1>3. ASSUME NEW a \in 1 .. Len(l) - 1  PROVE Dat(l[a + 1]) \in Mild
  <2>1. a + 1 \in 2 .. Len(l)
    BY <1>1
  <2>2. QED  BY <1>1, <2>1 DEF Dat, Mild
<1>4. t = [a \in 1 .. Len(l) - 1 |-> Dat(l[a + 1])]
  BY DEF Parameters
<1>5. s = h \o t
  OBVIOUS
<1> HIDE DEF h, t
<1>6. t \in Seq(Mild) /\ Len(t) = Len(l) - 1
  BY <1>1, <1>3, <1>4
<1>7. h \in Seq(Mild)
  BY <1>2 DEF Bytes
<1>8. /\ s \in Seq(Mild) /\ Len(s) = Len(h) + Len(t)
      /\ \A e \in 1 .. Len(h) : s[e] = h[e]
  <2>1. h \in Seq(Mild) /\ t \in Seq(Mild)
    BY <1>6, <1>7
  <2>2. s \in Seq(Mild) /\ Len(s) = Len(h) + Len(t)
    BY <1>5, <2>1, Concatenated
  <2>3. \A e \in 1 .. Len(h) : (h \o t)[e] = h[e]
    BY <2>1, Concatenated
  <2>4. QED  BY <1>5, <2>2, <2>3, Zenon
<1>9. Len(s) = Len(l) /\ s[1] = h[1]
  BY <1>1, <1>2, <1>6, <1>8
<1>10. s \in Bytes
  BY <1>1, <1>8, <1>9 DEF Bytes
<1>11. QED  BY <1>2, <1>9, <1>10

(* The bytes of TFT_init: the three that begin it, the two that end it,    *)
(* and one only is the command COLMOD.                                     *)
LEMMA CommandsAre ==
  /\ Commands \in Seq(InitByte) /\ Len(Commands) >= 5
  /\ Commands[1] = Cmd(SLPOUT) /\ Commands[2] = Cmd(COLMOD) /\ Commands[3] = Dat(5)
  /\ Commands[Len(Commands) - 1] = Cmd(INVON) /\ Commands[Len(Commands)] = Cmd(DISPON)
  /\ \A e \in 1 .. Len(Commands) : e # 2 => Commands[e] \in Mild
<1> DEFINE parts == [q \in 1 .. Len(TFT_init) |-> <<Cmd(TFT_init[q][1])>> \o Parameters(TFT_init[q])]
<1>1. Len(parts) = 19 /\ \A q \in 1 .. 19 : parts[q] = <<Cmd(TFT_init[q][1])>> \o Parameters(TFT_init[q])
  BY InitLines
<1>2. Commands = Joined(parts)
  BY DEF Commands
<1> HIDE DEF parts
<1>3. ASSUME NEW q \in 1 .. 19, q # 2
      PROVE  /\ parts[q] \in Bytes /\ parts[q][1] = Cmd(TFT_init[q][1])
             /\ Len(TFT_init[q]) = 1 => Len(parts[q]) = 1
  <2> DEFINE l == TFT_init[q]
             s == parts[q]
  <2>1. l \in InitLine /\ s = <<Cmd(l[1])>> \o Parameters(l)
    BY <1>1, <1>3, InitLines
  <2> HIDE DEF l, s
  <2>2. s \in Bytes /\ s[1] = Cmd(l[1]) /\ (Len(l) = 1 => Len(s) = 1)
    BY <2>1, LineIs
  <2>3. QED  BY <2>2 DEF l, s
<1>4. PICK f : /\ f[0] = << >> /\ \A b \in 1 .. 19 : f[b] = f[b - 1] \o parts[b]
               /\ Commands = f[19]
  <2>1. Len(parts) \in Nat
    BY <1>1
  <2>2. PICK f : /\ f[0] = << >> /\ \A b \in 1 .. Len(parts) : f[b] = f[b - 1] \o parts[b]
                 /\ Joined(parts) = f[Len(parts)]
    BY <2>1, JoinedIs
  <2>3. QED  BY <1>1, <1>2, <2>2
<1>5. /\ parts[1] \in Bytes /\ parts[1][1] = Cmd(SLPOUT) /\ Len(parts[1]) = 1
      /\ parts[18] \in Bytes /\ parts[18][1] = Cmd(INVON) /\ Len(parts[18]) = 1
      /\ parts[19] \in Bytes /\ parts[19][1] = Cmd(DISPON) /\ Len(parts[19]) = 1
  <2>1. \A v : <<v>>[1] = v /\ Len(<<v>>) = 1
    OBVIOUS
  <2>2. /\ parts[1] \in Bytes /\ parts[1][1] = Cmd(TFT_init[1][1])
        /\ Len(TFT_init[1]) = 1 => Len(parts[1]) = 1
    BY <1>3
  <2>3. /\ parts[18] \in Bytes /\ parts[18][1] = Cmd(TFT_init[18][1])
        /\ Len(TFT_init[18]) = 1 => Len(parts[18]) = 1
    BY <1>3
  <2>4. /\ parts[19] \in Bytes /\ parts[19][1] = Cmd(TFT_init[19][1])
        /\ Len(TFT_init[19]) = 1 => Len(parts[19]) = 1
    BY <1>3
  <2>5. /\ TFT_init[1] = <<SLPOUT>> /\ TFT_init[18] = <<INVON>> /\ TFT_init[19] = <<DISPON>>
    BY InitLines
  <2>6. /\ TFT_init[1][1] = SLPOUT /\ TFT_init[18][1] = INVON /\ TFT_init[19][1] = DISPON
        /\ Len(TFT_init[1]) = 1 /\ Len(TFT_init[18]) = 1 /\ Len(TFT_init[19]) = 1
    BY <2>1, <2>5, Zenon
  <2>7. QED  BY <2>2, <2>3, <2>4, <2>6
<1>6. parts[2] = <<Cmd(COLMOD)>> \o <<Dat(5)>>
  <2>1. Parameters(<<COLMOD, 5>>) = <<Dat(5)>>
    <3> DEFINE v == Dat(5)
    <3>1. Parameters(<<COLMOD, 5>>) = [a \in 1 .. 1 |-> Dat(<<COLMOD, 5>>[a + 1])]
      BY DEF Parameters
    <3>2. \A a \in 1 .. 1 : Dat(<<COLMOD, 5>>[a + 1]) = v
      OBVIOUS
    <3> HIDE DEF v
    <3>3. QED  BY <3>1, <3>2 DEF v
  <2>2. 2 \in 1 .. 19 /\ <<COLMOD, 5>>[1] = COLMOD
    OBVIOUS
  <2>3. QED  BY <1>1, <2>1, <2>2, InitLines
<1> DEFINE Begins(s) == s[1] = Cmd(SLPOUT) /\ s[2] = Cmd(COLMOD) /\ s[3] = Dat(5)
           Good(b) == /\ f[b] \in Seq(InitByte) /\ Len(f[b]) >= 3 /\ Begins(f[b])
                      /\ \A e \in 1 .. Len(f[b]) : e # 2 => f[b][e] \in Mild
           S == {b \in 2 .. 19 : ~Good(b)}
<1>7. Good(2)
  <2> DEFINE t == Cmd(SLPOUT)
             u == Cmd(COLMOD)
             v == Dat(5)
  <2>1. t \in Mild /\ v \in Mild /\ u \in InitByte
    <3>1. SLPOUT \in Gentle /\ 5 \in OneByte
      BY DEF SLPOUT, Gentle, OneByte, Darkening, SWRESET, SLPIN, DISPOFF, INVOFF, COLMOD
    <3>2. QED  BY <3>1 DEF Cmd, Dat, Mild, InitByte
  <2>2. parts[1] = <<t>> /\ parts[2] = <<u>> \o <<v>>
    <3>1. parts[1] = <<t>>
      BY <1>5 DEF Bytes
    <3>2. QED  BY <1>6, <3>1
  <2>3. f[1] = << >> \o parts[1] /\ f[2] = f[1] \o parts[2]
    <3>1. 1 \in 1 .. 19 /\ 2 \in 1 .. 19 /\ 1 - 1 = 0 /\ 2 - 1 = 1
      OBVIOUS
    <3>2. QED  BY <1>4, <3>1
  <2>4. t \in InitByte /\ v \in InitByte
    BY <2>1 DEF InitByte
  <2> HIDE DEF t, u, v
  <2> DEFINE w == <<u>> \o <<v>>
             x == <<t>> \o w
  <2>5. w \in Seq(InitByte) /\ Len(w) = 2 /\ w[1] = u /\ w[2] = v
    <3>1. <<u>> \in Seq(InitByte) /\ <<v>> \in Seq(InitByte)
      BY <2>1, <2>4
    <3>2. /\ w \in Seq(InitByte) /\ Len(w) = Len(<<u>>) + Len(<<v>>)
          /\ \A e \in 1 .. Len(<<u>>) : w[e] = <<u>>[e]
          /\ \A e \in 1 .. Len(<<v>>) : w[Len(<<u>>) + e] = <<v>>[e]
      BY <3>1, Concatenated
    <3> HIDE DEF w
    <3>3. Len(<<u>>) = 1 /\ Len(<<v>>) = 1 /\ <<u>>[1] = u /\ <<v>>[1] = v
      OBVIOUS
    <3>4. w[1] = u /\ w[1 + 1] = v /\ Len(w) = 2
      <4>1. 1 \in 1 .. Len(<<u>>) /\ 1 \in 1 .. Len(<<v>>)
        BY <3>3
      <4>2. w[1] = <<u>>[1] /\ w[Len(<<u>>) + 1] = <<v>>[1]
        BY <3>2, <4>1
      <4>3. QED  BY <3>2, <3>3, <4>2
    <3>5. QED  BY <3>2, <3>4
  <2>6. f[2] \in Seq(InitByte) /\ Len(f[2]) = 3 /\ f[2][1] = t /\ f[2][2] = u /\ f[2][3] = v
    <3>1. f[2] = x
      BY <2>2, <2>3
    <3> HIDE DEF w
    <3>2. <<t>> \in Seq(InitByte) /\ w \in Seq(InitByte)
      BY <2>4, <2>5
    <3>3. /\ x \in Seq(InitByte) /\ Len(x) = Len(<<t>>) + Len(w)
          /\ \A e \in 1 .. Len(<<t>>) : x[e] = <<t>>[e]
          /\ \A e \in 1 .. Len(w) : x[Len(<<t>>) + e] = w[e]
      BY <3>2, Concatenated
    <3> HIDE DEF x
    <3>4. Len(<<t>>) = 1 /\ <<t>>[1] = t
      OBVIOUS
    <3>5. x[1] = t /\ x[1 + 1] = w[1] /\ x[1 + 2] = w[2] /\ Len(x) = 3
      BY <2>5, <3>3, <3>4
    <3>6. QED  BY <2>5, <3>1, <3>3, <3>5
  <2>7. \A e \in 1 .. Len(f[2]) : e # 2 => f[2][e] \in Mild
    BY <2>1, <2>6
  <2>8. QED  BY <2>6, <2>7 DEF t, u, v
<1>8. ASSUME NEW b \in 3 .. 19, Good(b - 1)  PROVE Good(b)
  <2> DEFINE s == f[b - 1]
             t == parts[b]
  <2>1. b \in 1 .. 19 /\ b # 2
    OBVIOUS
  <2>2. t \in Seq(Mild) /\ f[b] = s \o t
    BY <1>3, <1>4, <2>1 DEF Bytes
  <2>3. s \in Seq(InitByte) /\ Len(s) >= 3 /\ Begins(s) /\ \A e \in 1 .. Len(s) : e # 2 => s[e] \in Mild
    BY <1>8
  <2> HIDE DEF s, t
  <2>4. t \in Seq(InitByte)
    BY <2>2 DEF InitByte
  <2>5. /\ f[b] \in Seq(InitByte) /\ Len(f[b]) = Len(s) + Len(t)
        /\ \A e \in 1 .. Len(s) : f[b][e] = s[e]
        /\ \A e \in 1 .. Len(t) : f[b][Len(s) + e] = t[e]
    BY <2>2, <2>3, <2>4, Concatenated
  <2>6. Len(s) \in Nat /\ Len(t) \in Nat
    BY <2>2, <2>3, LenProperties
  <2>7. 1 \in 1 .. Len(s) /\ 2 \in 1 .. Len(s) /\ 3 \in 1 .. Len(s)
    BY <2>3, <2>6
  <2>8. Begins(f[b])
    BY <2>3, <2>5, <2>7
  <2>9. ASSUME NEW e \in 1 .. Len(f[b]), e # 2  PROVE f[b][e] \in Mild
    <3>1. CASE e =< Len(s)
      <4>1. e \in 1 .. Len(s)
        BY <2>6, <3>1
      <4>2. QED  BY <2>3, <2>5, <2>9, <4>1
    <3>2. CASE ~(e =< Len(s))
      <4>1. PICK p0 \in 1 .. Len(t) : e = Len(s) + p0
        <5>1. e - Len(s) \in 1 .. Len(t) /\ e = Len(s) + (e - Len(s))
          BY <2>5, <2>6, <3>2
        <5>2. QED  BY <5>1
      <4>2. t[p0] \in Mild
        BY <2>2, <2>6, ElementOfSeq
      <4>3. QED  BY <2>5, <4>1, <4>2
    <3>3. QED  BY <3>1, <3>2
  <2>10. Len(f[b]) >= 3
    BY <2>3, <2>5, <2>6
  <2>11. QED  BY <2>5, <2>8, <2>9, <2>10
<1> HIDE DEF Good
<1>9. ASSUME S # {}  PROVE FALSE
  <2>1. S \in SUBSET Nat
    OBVIOUS
  <2>2. PICK m \in S : \A o \in S : m =< o
    BY <1>9, <2>1, LeastNumber
  <2>3. m \in 2 .. 19 /\ ~Good(m)
    BY <2>2
  <2>4. m # 2
    BY <1>7, <2>3
  <2>5. m \in 3 .. 19 /\ m - 1 \in 2 .. 19 /\ ~(m =< m - 1)
    BY <2>3, <2>4
  <2>6. Good(m - 1)
    BY <2>2, <2>5, Zenon
  <2>7. QED  BY <1>8, <2>3, <2>5, <2>6
<1>10. Good(17) /\ Good(19)
  <2>1. 17 \in 2 .. 19 /\ 19 \in 2 .. 19
    OBVIOUS
  <2>2. QED  BY <1>9, <2>1, Zenon
<1>11. /\ Len(f[19]) = Len(f[17]) + 2 /\ Len(f[17]) \in Nat
       /\ f[19][Len(f[17]) + 1] = Cmd(INVON) /\ f[19][Len(f[17]) + 2] = Cmd(DISPON)
  <2> DEFINE u == Cmd(INVON)
             v == Cmd(DISPON)
             s == f[17]
  <2>1. parts[18] = <<u>> /\ parts[19] = <<v>> /\ s \in Seq(InitByte)
    <3>1. s \in Seq(InitByte)
      BY <1>10 DEF Good
    <3>2. parts[18] = <<u>> /\ parts[19] = <<v>>
      BY <1>5 DEF Bytes
    <3>3. QED  BY <3>1, <3>2
  <2>2. f[18] = s \o parts[18] /\ f[19] = f[18] \o parts[19]
    <3>1. 18 \in 1 .. 19 /\ 19 \in 1 .. 19 /\ 18 - 1 = 17 /\ 19 - 1 = 18
      OBVIOUS
    <3>2. QED  BY <1>4, <3>1
  <2> HIDE DEF u, v, s
  <2>3. f[19] = (s \o <<u>>) \o <<v>>
    BY <2>1, <2>2
  <2>4. /\ Len(f[19]) = Len(s) + 2 /\ Len(s) \in Nat
        /\ f[19][Len(s) + 1] = u /\ f[19][Len(s) + 2] = v
    BY <2>1, <2>3
  <2>5. QED  BY <2>4 DEF u, v, s
<1>12. Len(Commands) >= 5 /\ Len(Commands) - 1 = Len(f[17]) + 1 /\ Len(Commands) = Len(f[17]) + 2
  BY <1>4, <1>10, <1>11 DEF Good
<1>13. QED  BY <1>4, <1>10, <1>11, <1>12 DEF Good

(* What the display thread sends.                                          *)
LEMMA JobsAre ==
  /\ Len(Jobs) \in Nat /\ FirstOfText \in 4 .. Len(Jobs) /\ Jobs[1] = Commands
  /\ Len(Jobs) = FirstOfText + Len(Text) - 1 /\ Len(Text) \in Nat \ {0}
  /\ Len(Labels) \in Nat \ {0} /\ FirstOfText = 3 + Len(Labels)
  /\ \A j \in 1 .. Len(Jobs) : Jobs[j] \in Seq(InitByte) /\ Len(Jobs[j]) \in Nat \ {0}
  /\ \A j \in 2 .. Len(Jobs) : Jobs[j] \in Bytes
  /\ \A c \in 1 .. Len(Labels) : Placed(Labels[c]) /\ Jobs[2 + c] = display_ascii_16_16(Labels[c])
  /\ \A c \in 1 .. Len(Text) : /\ Placed(Text[c])
                               /\ Jobs[FirstOfText - 1 + c] = display_ascii_16_16(Text[c])
<1> DEFINE s == << Commands, TFT_full(WHITE) >>
           t == [c \in 1 .. Len(Labels) |-> display_ascii_16_16(Labels[c])]
           u == [c \in 1 .. Len(Text) |-> display_ascii_16_16(Text[c])]
           H == {w \in Seq(InitByte) : Len(w) \in Nat \ {0}}
<1>1. /\ Len(Text) \in Nat \ {0} /\ \A c \in 1 .. Len(Text) : Placed(Text[c])
      /\ Len(Labels) \in Nat \ {0} /\ \A c \in 1 .. Len(Labels) : Placed(Labels[c])
  BY LcdAssumption DEF Placed
<1>2. \A w \in Bytes : w \in H
  <2>1. \A w \in Seq(Mild) : w \in Seq(InitByte) /\ Len(w) \in Nat
    BY DEF InitByte
  <2>2. QED  BY <2>1 DEF Bytes
<1>3. /\ \A c \in 1 .. Len(Text) : display_ascii_16_16(Text[c]) \in Bytes
      /\ \A c \in 1 .. Len(Labels) : display_ascii_16_16(Labels[c]) \in Bytes
  BY <1>1, CharacterIs
<1>4. s \in Seq(H) /\ Len(s) = 2 /\ s[1] = Commands /\ s[2] \in Bytes
  <2>1. Commands \in H /\ TFT_full(WHITE) \in H
    BY <1>2, CommandsAre, FullIs
  <2> HIDE DEF H
  <2>2. QED  BY <2>1, FullIs
<1>5. /\ t \in Seq(H) /\ Len(t) = Len(Labels) /\ u \in Seq(H) /\ Len(u) = Len(Text)
      /\ \A c \in 1 .. Len(t) : t[c] = display_ascii_16_16(Labels[c]) /\ t[c] \in Bytes
      /\ \A c \in 1 .. Len(u) : u[c] = display_ascii_16_16(Text[c]) /\ u[c] \in Bytes
  <2> HIDE DEF H
  <2>1. QED  BY <1>1, <1>2, <1>3
<1>6. Jobs = (s \o t) \o u
  BY DEF Jobs
<1> HIDE DEF s, t, u, H
<1>7. /\ s \o t \in Seq(H) /\ Len(s \o t) = Len(s) + Len(t)
      /\ \A e \in 1 .. Len(s) : (s \o t)[e] = s[e]
      /\ \A e \in 1 .. Len(t) : (s \o t)[Len(s) + e] = t[e]
  <2>1. s \in Seq(H) /\ t \in Seq(H)
    BY <1>4, <1>5
  <2>2. QED  BY <2>1, Concatenated
<1> DEFINE v == s \o t
<1>8. /\ v \in Seq(H) /\ Len(v) = 2 + Len(Labels) /\ v[1] = Commands /\ v[2] \in Bytes
      /\ \A c \in 1 .. Len(Labels) : v[2 + c] = display_ascii_16_16(Labels[c])
      /\ Jobs = v \o u
  <2>1. 1 \in 1 .. Len(s) /\ 2 \in 1 .. Len(s)
    BY <1>4
  <2>2. QED  BY <1>4, <1>5, <1>6, <1>7, <2>1
<1> HIDE DEF v
<1>9. /\ Jobs \in Seq(H) /\ Len(Jobs) = Len(v) + Len(u)
      /\ \A e \in 1 .. Len(v) : Jobs[e] = v[e]
      /\ \A e \in 1 .. Len(u) : Jobs[Len(v) + e] = u[e]
  <2>1. v \in Seq(H) /\ u \in Seq(H) /\ Jobs = v \o u
    BY <1>5, <1>8
  <2>2. /\ v \o u \in Seq(H) /\ Len(v \o u) = Len(v) + Len(u)
        /\ \A e \in 1 .. Len(v) : (v \o u)[e] = v[e]
        /\ \A e \in 1 .. Len(u) : (v \o u)[Len(v) + e] = u[e]
    BY <2>1, Concatenated
  <2>3. QED  BY <2>1, <2>2
<1>10. FirstOfText = 3 + Len(Labels) /\ FirstOfText - 1 = Len(v)
  BY <1>1, <1>8 DEF FirstOfText
<1>11. /\ Len(Jobs) \in Nat /\ FirstOfText \in 4 .. Len(Jobs) /\ Len(Jobs) = FirstOfText + Len(Text) - 1
  BY <1>1, <1>5, <1>8, <1>9, <1>10
<1>12. \A c \in 1 .. Len(Labels) : Jobs[2 + c] = display_ascii_16_16(Labels[c])
  <2>1. ASSUME NEW c \in 1 .. Len(Labels)  PROVE Jobs[2 + c] = display_ascii_16_16(Labels[c])
    <3>1. 2 + c \in 1 .. Len(v)
      BY <1>1, <1>8
    <3>2. QED  BY <1>8, <1>9, <3>1
  <2>2. QED  BY <2>1
<1>13. \A c \in 1 .. Len(Text) : Jobs[FirstOfText - 1 + c] = display_ascii_16_16(Text[c])
  BY <1>5, <1>9, <1>10
<1>14. ASSUME NEW j \in 2 .. Len(Jobs)  PROVE Jobs[j] \in Bytes
  <2>1. CASE j = 2
    <3>1. 2 \in 1 .. Len(v)
      BY <1>1, <1>8
    <3>2. QED  BY <1>8, <1>9, <2>1, <3>1
  <2>2. CASE j \in 3 .. 2 + Len(Labels)
    <3>1. PICK c \in 1 .. Len(Labels) : j = 2 + c
      <4>1. j - 2 \in 1 .. Len(Labels) /\ j = 2 + (j - 2)
        BY <1>1, <2>2
      <4>2. QED  BY <4>1
    <3>2. QED  BY <1>3, <1>12, <3>1
  <2>3. CASE j > 2 + Len(Labels)
    <3>1. PICK c \in 1 .. Len(Text) : j = FirstOfText - 1 + c
      <4>1. j - (FirstOfText - 1) \in 1 .. Len(Text) /\ j = FirstOfText - 1 + (j - (FirstOfText - 1))
        BY <1>1, <1>10, <1>11, <2>3
      <4>2. QED  BY <4>1
    <3>2. QED  BY <1>3, <1>13, <3>1
  <2>4. QED  BY <1>1, <2>1, <2>2, <2>3
<1>15. \A j \in 1 .. Len(Jobs) : Jobs[j] \in Seq(InitByte) /\ Len(Jobs[j]) \in Nat \ {0}
  <2>1. ASSUME NEW j \in 1 .. Len(Jobs)  PROVE Jobs[j] \in H
    BY <1>9, <1>11, ElementOfSeq
  <2>2. QED  BY <2>1 DEF H
<1>16. Jobs[1] = Commands
  <2>1. 1 \in 1 .. Len(v)
    BY <1>1, <1>8
  <2>2. QED  BY <1>8, <1>9, <2>1
<1>17. QED  BY <1>1, <1>10, <1>11, <1>12, <1>13, <1>14, <1>15, <1>16

----------------------------------------------------------------------------
(* Bits of a byte.                                                         *)
LEMMA PowersAre == \A m \in 0 .. 8 : 2^m \in Nat \ {0}
<1>1. ASSUME NEW m \in 0 .. 8  PROVE 2^m \in Nat \ {0}
  <2>1. CASE m \in 0 .. 7
    BY <2>1, BytePowers
  <2>2. CASE m = 8
    <3>1. 7 \in 0 .. 7 /\ 7 + 1 = 8
      OBVIOUS
    <3>2. 2^7 \in Nat \ {0} /\ 2^8 = 2 * 2^7
      BY <3>1, BytePowers
    <3>3. QED  BY <2>2, <3>2
  <2>3. QED  BY <2>1, <2>2
<1>2. QED  BY <1>1

LEMMA MildIs ==
  ASSUME NEW s \in InitByte
  PROVE  /\ s[1] \in {0, 1} /\ s[2] \in OneByte
         /\ s[1] = 0 => s[2] \notin Darkening
         /\ s \in Mild /\ s[1] = 0 => s[2] # COLMOD
<1> USE DEF COLMOD, Darkening, SWRESET, SLPIN, DISPOFF, INVOFF
<1>1. CASE s \in Mild
  BY <1>1 DEF Mild, Gentle
<1>2. CASE s = Cmd(COLMOD)
  <2>1. s[1] = 0 /\ s[2] = COLMOD /\ COLMOD \in OneByte /\ COLMOD \notin Darkening
    BY <1>2 DEF Cmd, OneByte
  <2>2. s \notin Mild
    <3>1. \A o \in Mild : o[1] = 0 => o[2] # COLMOD
      BY DEF Mild, Gentle
    <3>2. QED  BY <2>1, <3>1
  <2>3. QED  BY <2>1, <2>2
<1>3. QED  BY <1>1, <1>2 DEF InitByte

LEMMA QuotientIs ==
  ASSUME NEW x \in Nat, NEW p \in Nat \ {0}
  PROVE  x \div p \in Nat
<1>1. PICK a \in Nat, c \in 0 .. p - 1 : x = p * a + c /\ x \div p = a /\ x % p = c
  BY Divide
<1>2. QED  BY <1>1

LEMMA ShiftedIn ==
  ASSUME NEW b \in Nat, NEW j \in 2 .. 9
  PROVE  b \div 2^(9 - j) = 2 * (b \div 2^(10 - j)) + ((b \div 2^(9 - j)) % 2)
<1> DEFINE p == 2^(9 - j)
           r == 2^(10 - j)
<1>1. 9 - j \in 0 .. 7 /\ (9 - j) + 1 = 10 - j
  OBVIOUS
<1>2. p \in Nat \ {0} /\ r = 2 * p
  BY <1>1, BytePowers
<1> HIDE DEF p, r
<1>3. b \div p = 2 * (b \div (2 * p)) + ((b \div p) % 2)
  BY <1>2, OneBitMore
<1>4. QED  BY <1>2, <1>3 DEF p, r

LEMMA NoBitYet ==
  ASSUME NEW b \in 0 .. 255
  PROVE  b \div 2^8 = 0
<1>1. 2^8 = 256
  <2> DEFINE P(m) == 2^m
  <2>1. P(0) = 1 /\ \A m \in 0 .. 7 : P(m) \in Nat /\ P(m + 1) = 2 * P(m)
    BY BytePowers
  <2> HIDE DEF P
  <2>2. P(1) = 2 /\ P(2) = 4 /\ P(3) = 8
    <3>1. P(0 + 1) = 2 * P(0) /\ P(1 + 1) = 2 * P(1) /\ P(2 + 1) = 2 * P(2)
      BY <2>1
    <3>2. QED  BY <2>1, <3>1
  <2>3. P(4) = 16 /\ P(5) = 32 /\ P(6) = 64
    <3>1. P(3 + 1) = 2 * P(3) /\ P(4 + 1) = 2 * P(4) /\ P(5 + 1) = 2 * P(5)
      BY <2>1
    <3>2. QED  BY <2>2, <3>1
  <2>4. P(7) = 128 /\ P(8) = 256
    <3>1. P(6 + 1) = 2 * P(6) /\ P(7 + 1) = 2 * P(7)
      BY <2>1
    <3>2. QED  BY <2>3, <3>1
  <2>5. QED  BY <2>4 DEF P
<1>2. PICK p \in Nat \ {0} : p = 256
  OBVIOUS
<1>3. b \in Nat /\ b = p * 0 + b /\ b \in 0 .. p - 1 /\ 0 \in Int
  BY <1>2
<1>4. b \div p = 0
  BY <1>3, Division
<1>5. QED  BY <1>1, <1>2, <1>4

----------------------------------------------------------------------------
(* What the panel makes of whole bytes and of bits.                        *)
Empty(p) == p.count = 0 /\ p.shift = 0

(* A panel between two bytes.                                              *)
Ready(p) == p \in Panel /\ Empty(p)

LEMMA SendByteIs ==
  ASSUME NEW p \in Panel, p.count \in 0 .. 7, NEW s \in InitByte, NEW r, r = SendByte(p, s)
  PROVE  /\ Ready(r)
         /\ s[1] = 1 => r.cmd # COLMOD
         /\ Empty(p) => /\ r = Deselect(Receive(p, s[1], s[2]))
                        /\ p.cmd # COLMOD => Kept(p, r)
                        /\ p.cmd # COLMOD /\ s \in Mild => r.cmd # COLMOD
<1> DEFINE b == p.shift * 2^(8 - p.count) + s[2] \div 2^p.count
           z == Receive(p, s[1], b)
<1>1. /\ s[1] \in {0, 1} /\ s[2] \in Nat
      /\ s[1] = 0 => s[2] \notin Darkening
      /\ s \in Mild /\ s[1] = 0 => s[2] # COLMOD
  BY MildIs DEF OneByte
<1>2. p.shift \in Nat /\ 8 - p.count \in 0 .. 8 /\ p.count \in 0 .. 8
  BY DEF Panel, PanelOf
<1>3. PICK hi \in Nat \ {0}, lo \in Nat \ {0} : hi = 2^(8 - p.count) /\ lo = 2^p.count
  BY <1>2, PowersAre
<1>4. s[2] \div lo \in Nat
  BY <1>1, <1>3, QuotientIs
<1>5. b = p.shift * hi + s[2] \div lo
  BY <1>3
<1>6. b \in Nat
  BY <1>2, <1>4, <1>5
<1>7. Empty(p) => b = s[2]
  <2>1. SUFFICES ASSUME p.count = 0, p.shift = 0  PROVE b = s[2]
    BY DEF Empty
  <2>2. lo = 1
    BY <1>3, <2>1, BytePowers
  <2>3. s[2] \div 1 = s[2]
    BY <1>1
  <2>4. 0 * hi = 0
    OBVIOUS
  <2>5. QED  BY <1>1, <1>5, <2>1, <2>2, <2>3, <2>4
<1>8. r = Deselect(z)
  BY DEF SendByte
<1> HIDE DEF b
<1>9. /\ z \in Panel
      /\ s[1] = 0 => z.cmd = b
      /\ s[1] = 1 => z.cmd # COLMOD
      /\ s[1] = 0 /\ b \notin Darkening => Kept(p, z)
      /\ s[1] = 1 /\ p.cmd # COLMOD => Kept(p, z)
  <2> DEFINE l == s[1]
  <2>1. l \in {0, 1} /\ z = Receive(p, l, b)
    BY <1>1
  <2> HIDE DEF z, l
  <2>2. /\ z \in Panel
        /\ l = 0 => z.cmd = b
        /\ l = 1 => z.cmd # COLMOD
        /\ l = 0 /\ b \notin Darkening => Kept(p, z)
        /\ l = 1 /\ (p.cmd # COLMOD \/ b = 5) => Kept(p, z)
    BY <1>6, <2>1, ReceiveIs
  <2>3. QED  BY <2>2 DEF l
<1>10. Empty(p) => z = Receive(p, s[1], s[2])
  BY <1>7
<1> HIDE DEF z
<1>11. Deselect(z) \in Panel /\ Deselect(z).count = 0 /\ Deselect(z).shift = 0 /\ Same(z, Deselect(z))
  BY <1>9, DeselectIs
<1>12. Ready(r) /\ Same(z, r)
  BY <1>8, <1>11 DEF Ready, Empty
<1>13. r.cmd = z.cmd /\ (Kept(p, z) => Kept(p, r))
  BY <1>12 DEF Same, Kept
<1>14. Empty(p) /\ s[1] = 0 => Kept(p, z) /\ (s \in Mild => z.cmd # COLMOD)
  BY <1>1, <1>7, <1>9
<1>15. QED  BY <1>1, <1>8, <1>9, <1>10, <1>12, <1>13, <1>14

(* A ready panel that takes no COLMOD stays as TFT_init left it; the last  *)
(* byte, being data, ends a COLMOD that a torn byte has made.              *)
LEMMA SentKeeps ==
  ASSUME NEW p \in Panel, p.count \in 0 .. 7, NEW bytes \in Bytes, NEW r, r = Sent(p, bytes)
  PROVE  /\ Ready(r)
         /\ bytes[Len(bytes)][1] = 1 => r.cmd # COLMOD
         /\ Empty(p) /\ p.cmd # COLMOD => Kept(p, r) /\ r.cmd # COLMOD
<1> DEFINE N == Len(bytes)
           Fine == Empty(p) /\ p.cmd # COLMOD
<1>1. N \in Nat /\ N >= 1 /\ \A b \in 1 .. N : bytes[b] \in Mild /\ bytes[b] \in InitByte
  BY DEF Bytes, InitByte
<1>2. PICK f : /\ f[0] = p /\ \A b \in 1 .. N : f[b] = SendByte(f[b - 1], bytes[b])
               /\ r = f[N]
  BY <1>1, SentIs
<1> HIDE DEF N, Fine
<1> DEFINE Good(b) == /\ Ready(f[b]) /\ (bytes[b][1] = 1 => f[b].cmd # COLMOD)
                      /\ Fine => Kept(p, f[b]) /\ f[b].cmd # COLMOD
           S == {b \in 1 .. N : ~Good(b)}
<1>3. ASSUME NEW b \in 1 .. N, f[b - 1] \in Panel, f[b - 1].count \in 0 .. 7,
             Fine => Empty(f[b - 1]) /\ Kept(p, f[b - 1]) /\ f[b - 1].cmd # COLMOD
      PROVE  Good(b)
  <2> DEFINE v == f[b - 1]
             w == f[b]
             s == bytes[b]
  <2>1. w = SendByte(v, s) /\ s \in Mild /\ s \in InitByte
    BY <1>1, <1>2
  <2>2. v \in Panel /\ v.count \in 0 .. 7 /\ (Fine => Empty(v) /\ Kept(p, v) /\ v.cmd # COLMOD)
    BY <1>3
  <2> HIDE DEF v, w, s
  <2>3. /\ Ready(w) /\ (s[1] = 1 => w.cmd # COLMOD)
        /\ Empty(v) => (v.cmd # COLMOD => Kept(v, w)) /\ (v.cmd # COLMOD /\ s \in Mild => w.cmd # COLMOD)
    BY <2>1, <2>2, SendByteIs
  <2>4. Fine => Kept(p, w) /\ w.cmd # COLMOD
    BY <2>1, <2>2, <2>3, Zenon DEF Kept
  <2>5. QED  BY <2>3, <2>4 DEF v, w, s
<1>4. Good(1)
  <2>1. 1 \in 1 .. N /\ f[1 - 1] = p
    BY <1>1, <1>2
  <2>2. Fine => Empty(p) /\ Kept(p, p) /\ p.cmd # COLMOD
    BY DEF Fine, Kept
  <2>3. QED  BY <1>3, <2>1, <2>2
<1>5. ASSUME NEW m \in 1 .. N, m # 1, Good(m - 1)  PROVE Good(m)
  <2>1. f[m - 1] \in Panel /\ Empty(f[m - 1]) /\ (Fine => Kept(p, f[m - 1]) /\ f[m - 1].cmd # COLMOD)
    BY <1>5 DEF Ready
  <2>2. f[m - 1].count \in 0 .. 7
    BY <2>1 DEF Empty
  <2>3. QED  BY <1>3, <2>1, <2>2
<1> HIDE DEF Good
<1>6. ASSUME S # {}  PROVE FALSE
  <2>1. S \in SUBSET Nat
    OBVIOUS
  <2>2. PICK m \in S : \A o \in S : m =< o
    BY <1>6, <2>1, LeastNumber
  <2>3. m \in 1 .. N /\ ~Good(m)
    BY <2>2
  <2>4. m # 1
    BY <1>4, <2>3
  <2>5. m - 1 \in 1 .. N /\ ~(m =< m - 1)
    BY <1>1, <2>3, <2>4
  <2>6. Good(m - 1)
    BY <2>2, <2>5, Zenon
  <2>7. QED  BY <1>5, <2>3, <2>4, <2>6
<1>7. N \in 1 .. N
  BY <1>1
<1>8. Good(N)
  BY <1>6, <1>7, Zenon
<1>9. QED  BY <1>2, <1>8 DEF Good, N, Fine

LEMMA ClockIs ==
  ASSUME NEW p \in Panel, NEW level \in {0, 1}, NEW bit \in Nat, p.count < 7,
         NEW r, r = Clock(p, level, bit)
  PROVE  /\ r \in Panel /\ r.count = p.count + 1 /\ r.shift = 2 * p.shift + bit /\ Same(p, r)
<1> DEFINE flags == SUBSET Modes
<1>1. Panel = PanelOf(flags)
  BY DEF Panel
<1> HIDE DEF flags
<1>2. p \in PanelOf(flags)
  BY <1>1
<1>3. r = [p EXCEPT !.count = @ + 1, !.shift = 2 * @ + bit]
  BY DEF Clock
<1>4. r.count = p.count + 1 /\ r.shift = 2 * p.shift + bit /\ Same(p, r)
  BY <1>2, <1>3 DEF PanelOf, Same
<1>5. r \in PanelOf(flags)
  <2>0. p.count \in Nat /\ p.shift \in Nat
    BY <1>2 DEF PanelOf
  <2>1. PICK c \in Nat, h \in Nat : c = p.count + 1 /\ h = 2 * p.shift + bit
    BY <2>0
  <2>2. r = [p EXCEPT !.count = c, !.shift = h]
    BY <1>2, <1>3, <2>1 DEF PanelOf
  <2>3. QED  BY <1>2, <2>2 DEF PanelOf
<1>6. QED  BY <1>1, <1>4, <1>5

----------------------------------------------------------------------------
(* The steps of the display thread and the cut.                            *)
LEMMA EndsInData ==
  ASSUME NEW c, Placed(c), NEW s, s = display_ascii_16_16(c)
  PROVE  s \in Seq(Mild) /\ Len(s) \in Nat /\ Len(s) >= 1 /\ s[Len(s)][1] = 1
<1> DEFINE h == TFT_SET_ADD(c.x, c.y, c.x + Cell - 1, c.y + Cell - 1)
           t == Colours(CellsOf(c))
<1>1. s = h \o t /\ s \in Bytes /\ h \in Bytes /\ t \in Bytes /\ t \in DataOnly
  BY CharacterIs
<1> HIDE DEF h, t
<1>2. s \in Seq(Mild) /\ Len(s) >= 1 /\ h \in Seq(Mild) /\ t \in Seq(Mild) /\ t \in Seq({1} \X OneByte) /\ Len(t) >= 1
  BY <1>1 DEF Bytes, DataOnly
<1>3. Len(h \o t) = Len(h) + Len(t) /\ \A e \in 1 .. Len(t) : (h \o t)[Len(h) + e] = t[e]
  BY <1>2, Concatenated
<1>4. Len(h) \in Nat /\ Len(t) \in Nat /\ Len(s) \in Nat
  BY <1>2, LenProperties
<1>5. Len(t) \in 1 .. Len(t)
  BY <1>2, <1>4
<1>6. t[Len(t)] \in {1} \X OneByte
  BY <1>2, <1>5, ElementOfSeq
<1>7. s[Len(s)] = t[Len(t)]
  BY <1>1, <1>3, <1>5
<1>8. QED  BY <1>2, <1>4, <1>6, <1>7

LEMMA AlarmIs == AlarmBytes \in Bytes /\ AlarmBytes[Len(AlarmBytes)][1] = 1
<1> DEFINE parts == [c \in 1 .. Len(AlarmText) |-> display_ascii_16_16(AlarmText[c])]
           N == Len(AlarmText)
<1>1. N \in Nat \ {0} /\ \A c \in 1 .. N : Placed(AlarmText[c])
  BY LcdAssumption DEF Placed
<1>2. Len(parts) = N /\ \A c \in 1 .. N : parts[c] = display_ascii_16_16(AlarmText[c])
  BY <1>1
<1>3. AlarmBytes = Joined(parts)
  BY DEF AlarmBytes
<1> HIDE DEF parts, N
<1>4. ASSUME NEW q \in 1 .. N
      PROVE  parts[q] \in Seq(Mild) /\ Len(parts[q]) >= 1 /\ parts[q][Len(parts[q])][1] = 1
  BY <1>1, <1>2, EndsInData
<1>5. /\ Len(parts) \in Nat \ {0} /\ N \in 1 .. N
      /\ \A q \in 1 .. Len(parts) : parts[q] \in Seq(Mild) /\ Len(parts[q]) >= 1
  BY <1>1, <1>2, <1>4
<1>6. /\ Joined(parts) \in Seq(Mild) /\ Len(Joined(parts)) >= 1
      /\ Joined(parts)[Len(Joined(parts))] = parts[Len(parts)][Len(parts[Len(parts)])]
  BY <1>5, JoinedHolds
<1>7. parts[N][Len(parts[N])][1] = 1
  BY <1>4, <1>5
<1>8. QED  BY <1>2, <1>3, <1>6, <1>7 DEF Bytes

LEMMA ByteKnown ==
  ASSUME LcdTypeOK, job > 0
  PROVE  /\ job \in 1 .. Len(Jobs) /\ Jobs[job] \in Seq(InitByte) /\ Len(Jobs[job]) \in Nat \ {0}
         /\ at \in 1 .. Len(Jobs[job])
         /\ ByteNow \in InitByte /\ (job # 1 => ByteNow \in Mild)
         /\ ByteNow[1] \in {0, 1} /\ ByteNow[2] \in OneByte
         /\ ByteNow[1] = 0 => ByteNow[2] \notin Darkening
         /\ job # 1 /\ ByteNow[1] = 0 => ByteNow[2] # COLMOD
<1>1. job \in 1 .. Len(Jobs) /\ at \in Nat \ {0} /\ at =< Len(Jobs[job])
  BY JobsAre DEF LcdTypeOK
<1> DEFINE s == Jobs[job]
<1>2. s \in Seq(InitByte) /\ Len(s) \in Nat \ {0}
  BY <1>1, JobsAre
<1>3. job # 1 => s \in Bytes
  <2>1. job # 1 => job \in 2 .. Len(Jobs)
    BY <1>1, JobsAre
  <2>2. QED  BY <2>1, JobsAre
<1>4. ByteNow = s[at]
  BY DEF ByteNow
<1> HIDE DEF s
<1>5. at \in 1 .. Len(s)
  BY <1>1, <1>2 DEF s
<1>6. ByteNow \in InitByte
  BY <1>2, <1>4, <1>5, ElementOfSeq
<1>7. job # 1 => ByteNow \in Mild
  <2>1. SUFFICES ASSUME job # 1  PROVE ByteNow \in Mild
    OBVIOUS
  <2>2. s \in Seq(Mild)
    BY <1>3, <2>1 DEF Bytes
  <2>3. QED  BY <1>4, <1>5, <2>2, ElementOfSeq
<1>8. QED  BY <1>1, <1>2, <1>5, <1>6, <1>7, MildIs DEF s

LEMMA PowerOnIs == Ready(PowerOn) /\ PowerOn.cmd = 0 /\ PowerOn.modes = {}
<1> DEFINE flags == SUBSET Modes
           none == {}
<1>1. Panel = PanelOf(flags) /\ none \in flags
  BY DEF Panel
<1>2. PowerOn = [count |-> 0, shift |-> 0, cmd |-> 0, args |-> << >>,
                 cols |-> <<0, 0>>, rows |-> <<0, 0>>, pos |-> 0,
                 modes |-> none, ram |-> [q \in Pixels |-> BLACK]]
  BY DEF PowerOn
<1> HIDE DEF flags, none
<1>3. [q \in Pixels |-> BLACK] \in [Pixels -> Nat] /\ << >> \in Seq(Nat) /\ <<0, 0>> \in Nat \X Nat
  BY DEF BLACK
<1>4. PowerOn \in PanelOf(flags)
  BY <1>1, <1>2, <1>3 DEF PanelOf
<1>5. PowerOn.count = 0 /\ PowerOn.shift = 0 /\ PowerOn.cmd = 0 /\ PowerOn.modes = none
  BY <1>2
<1>6. QED  BY <1>1, <1>4, <1>5 DEF Ready, Empty, none

LEMMA LcdInitial == LcdInit => LcdInv
<1> SUFFICES ASSUME LcdInit  PROVE LcdInv
  OBVIOUS
<1>1. Gap \in Nat \ {0} /\ Len(Jobs) \in Nat
  BY LcdAssumption, JobsAre
<1>2. /\ dc = 0 /\ cs = 0 /\ panel = PowerOn /\ job = 0 /\ at = 1 /\ step = 0 /\ since = 0
      /\ alarm = "none"
  BY DEF LcdInit
<1>3. LcdTypeOK
  BY <1>1, <1>2, PowerOnIs DEF LcdTypeOK, Ready
<1>4. Shifted
  BY <1>2, PowerOnIs DEF Shifted, Ready, Empty
<1>5. Undisturbed
  BY <1>2 DEF Undisturbed, Calm
<1>6. Initialised
  BY <1>2, PowerOnIs DEF Initialised, COLMOD
<1>7. QED  BY <1>3, <1>4, <1>5, <1>6 DEF LcdInv

LEMMA LcdStartKeeps ==
  ASSUME LcdInv, Start
  PROVE  LcdInv' /\ ~Lit /\ Ready(panel') /\ Same(panel, panel')
<1>1. /\ job = 0 /\ job' = 1 /\ dc' = dc /\ cs' = cs /\ at' = at /\ step' = step /\ since' = since
      /\ panel' = Deselect(Clock(panel, dc, 0)) /\ alarm' = alarm
  BY DEF Start, Reset, Deselect
<1>2. LcdTypeOK /\ Shifted /\ Undisturbed
  BY DEF LcdInv
<1>3. step = 0 /\ panel = PowerOn /\ at = 1
  BY <1>1, <1>2 DEF Shifted, LcdTypeOK
<1>4. panel \in Panel /\ panel.count = 0 /\ dc \in {0, 1} /\ panel.cmd = 0 /\ panel.modes = {}
  BY <1>2, <1>3, PowerOnIs DEF LcdTypeOK, Ready, Empty
<1>5. Clock(panel, dc, 0) \in Panel /\ Same(panel, Clock(panel, dc, 0))
  <2>1. panel.count < 7 /\ 0 \in Nat
    BY <1>4
  <2>2. QED  BY <1>4, <2>1, ClockIs
<1>6. panel' \in Panel /\ panel'.count = 0 /\ panel'.shift = 0 /\ Same(panel, panel')
  <2> DEFINE z == Clock(panel, dc, 0)
  <2>1. z \in Panel /\ Same(panel, z) /\ panel' = Deselect(z)
    BY <1>1, <1>5
  <2> HIDE DEF z
  <2>2. panel' \in Panel /\ panel'.count = 0 /\ panel'.shift = 0 /\ Same(z, panel')
    BY <2>1, DeselectIs
  <2>3. QED  BY <2>1, <2>2 DEF Same
<1>7. LcdTypeOK'
  <2>1. job' = 1 /\ 1 \in 1 .. Len(Jobs) /\ 1 \in 0 .. Len(Jobs)
    BY <1>1, JobsAre
  <2>2. Len(Jobs[1]) >= 1
    BY <2>1, JobsAre
  <2>3. QED  BY <1>1, <1>2, <1>3, <1>6, <2>1, <2>2 DEF LcdTypeOK
<1>8. Shifted'
  BY <1>1, <1>3, <1>6 DEF Shifted
<1>9. Undisturbed'
  <2>1. Calm
    BY <1>1, <1>2, JobsAre DEF Undisturbed
  <2>2. Calm' /\ step' = 0
    BY <1>1, <1>3, <2>1 DEF Calm
  <2>3. QED  BY <2>2 DEF Undisturbed
<1>10. Initialised'
  <2>1. Received' = 0
    BY <1>1, <1>3 DEF Received
  <2>2. panel'.cmd # COLMOD
    BY <1>4, <1>6 DEF Same, COLMOD
  <2>3. Len(Commands) >= 5 /\ Len(Commands) \in Nat
    BY CommandsAre, LenProperties
  <2>4. QED  BY <1>1, <2>1, <2>2, <2>3 DEF Initialised
<1>11. ~Lit
  BY <1>4 DEF Lit, Normal
<1>12. QED  BY <1>6, <1>7, <1>8, <1>9, <1>10, <1>11 DEF LcdInv, Ready, Empty

LEMMA SetDCKeeps ==
  ASSUME LcdInv, SetDC
  PROVE  LcdInv' /\ panel' = panel
<1>1. /\ job > 0 /\ step = 0 /\ dc' = ByteNow[1] /\ step' = 1
      /\ cs' = cs /\ panel' = panel /\ job' = job /\ at' = at /\ since' = since /\ alarm' = alarm
  BY DEF SetDC
<1>2. LcdTypeOK /\ Shifted /\ Undisturbed /\ Initialised
  BY DEF LcdInv
<1>3. ByteNow[1] \in {0, 1} /\ job # 0
  BY <1>1, <1>2, ByteKnown
<1>4. ByteNow' = ByteNow /\ Received' = Received /\ (Calm' <=> Calm)
  BY <1>1 DEF ByteNow, Received, Calm
<1>5. LcdTypeOK'
  BY <1>1, <1>2, <1>3 DEF LcdTypeOK
<1>6. Shifted'
  BY <1>1, <1>2, <1>3, <1>4 DEF Shifted
<1>7. Undisturbed'
  BY <1>1, <1>2, <1>4 DEF Undisturbed
<1>8. Initialised'
  BY <1>1, <1>2, <1>4 DEF Initialised, Lit
<1>9. QED  BY <1>1, <1>5, <1>6, <1>7, <1>8 DEF LcdInv

LEMMA SelectKeeps ==
  ASSUME LcdInv, Select
  PROVE  LcdInv' /\ panel' = panel
<1>1. /\ step = 1 /\ cs' = 0 /\ step' = 2 /\ dc' = dc
      /\ panel' = panel /\ job' = job /\ at' = at /\ since' = since /\ alarm' = alarm
  BY DEF Select
<1>2. LcdTypeOK /\ Shifted /\ Undisturbed /\ Initialised
  BY DEF LcdInv
<1>3. job > 0 /\ panel.count = 0 /\ panel.shift = 0
  BY <1>1, <1>2, JobsAre DEF Shifted, LcdTypeOK
<1>4. ByteNow' = ByteNow /\ Received' = Received /\ (Calm' <=> Calm)
  BY <1>1 DEF ByteNow, Received, Calm
<1>5. ByteNow[2] \div 2^8 = 0
  <2>1. ByteNow[2] \in 0 .. 255
    BY <1>2, <1>3, ByteKnown DEF OneByte
  <2>2. QED  BY <2>1, NoBitYet
<1>6. LcdTypeOK'
  BY <1>1, <1>2 DEF LcdTypeOK
<1>7. Shifted'
  <2>1. step' \in 2 .. 9 /\ ~(step' \in {0, 1, 10}) /\ 10 - step' = 8 /\ step' - 2 = 0
    BY <1>1
  <2>2. panel'.shift = ByteNow'[2] \div 2^(10 - step')
    BY <1>1, <1>3, <1>4, <1>5, <2>1
  <2>3. step' > 0 /\ dc' = 0 => job' > 0 /\ ByteNow'[1] = 0
    BY <1>1, <1>2, <1>3, <1>4 DEF Shifted
  <2>4. job' # 0
    BY <1>1, <1>3
  <2>5. QED  BY <1>1, <1>3, <2>1, <2>2, <2>3, <2>4 DEF Shifted
<1>8. Undisturbed'
  BY <1>1, <1>2, <1>4 DEF Undisturbed
<1>9. Initialised'
  BY <1>1, <1>2, <1>4 DEF Initialised, Lit
<1>10. QED  BY <1>1, <1>6, <1>7, <1>8, <1>9 DEF LcdInv

(* One bit: the eighth completes the byte that the thread is sending.      *)
LEMMA BitSent ==
  ASSUME LcdInv, SendBit
  PROVE  /\ cs = 1 => panel' = panel /\ Empty(panel)
         /\ cs = 0 /\ step < 9 => /\ panel' \in Panel /\ Same(panel, panel')
                                  /\ panel'.count = step - 1
                                  /\ panel'.shift = ByteNow[2] \div 2^(9 - step)
         /\ cs = 0 /\ step = 9 => panel' = Deselect(Receive(panel, dc, ByteNow[2]))
<1>1. step \in 2 .. 9 /\ panel' = IF cs = 0 THEN Clock(panel, dc, BitNow) ELSE panel
  BY DEF SendBit
<1>2. LcdTypeOK /\ Shifted
  BY DEF LcdInv
<1>3. dc \in {0, 1} /\ cs \in {0, 1} /\ panel \in Panel /\ job > 0
  BY <1>1, <1>2, JobsAre DEF LcdTypeOK, Shifted
<1>4. ASSUME cs = 1  PROVE panel' = panel /\ Empty(panel)
  BY <1>1, <1>2, <1>4 DEF Shifted, Empty
<1>5. CASE cs = 1
  <2>1. cs # 0
    BY <1>5
  <2>2. QED  BY <1>4, <1>5, <2>1
<1>6. CASE cs = 0
  <2>0. cs # 1
    BY <1>6
  <2> DEFINE b == 2 * panel.shift + BitNow
             h == ByteNow[2]
  <2>1. panel.count = step - 2 /\ panel.shift = h \div 2^(10 - step)
    BY <1>1, <1>2, <1>6 DEF Shifted
  <2>2. h \in Nat /\ panel.shift \in Nat
    <3>1. h \in OneByte
      BY <1>2, <1>3, ByteKnown
    <3>2. panel.shift \in Nat
      BY <1>3 DEF Panel, PanelOf
    <3>3. QED  BY <3>1, <3>2 DEF OneByte
  <2>3. BitNow \in Nat
    <3>1. 9 - step \in 0 .. 8
      BY <1>1
    <3>2. PICK lo \in Nat \ {0} : lo = 2^(9 - step)
      BY <3>1, PowersAre
    <3>3. PICK a \in Nat : a = h \div lo
      BY <2>2, <3>2, QuotientIs
    <3>4. a % 2 \in Nat
      OBVIOUS
    <3>5. QED  BY <3>2, <3>3, <3>4 DEF BitNow
  <2>4. b = h \div 2^(9 - step) /\ (step = 9 => b = h)
    <3>1. h \div 2^(9 - step) = 2 * (h \div 2^(10 - step)) + ((h \div 2^(9 - step)) % 2)
      BY <1>1, <2>2, ShiftedIn
    <3>2. b = h \div 2^(9 - step)
      BY <2>1, <3>1 DEF BitNow
    <3>3. step = 9 => h \div 2^(9 - step) = h
      <4>1. SUFFICES ASSUME step = 9  PROVE h \div 2^(9 - step) = h
        OBVIOUS
      <4>2. 9 - step = 0
        BY <4>1
      <4>3. 2^(9 - step) = 1
        BY <4>2, BytePowers
      <4>4. h \div 1 = h
        BY <2>2
      <4>5. QED  BY <4>3, <4>4
    <3>4. QED  BY <3>2, <3>3
  <2>5. panel' = Clock(panel, dc, BitNow)
    BY <1>1, <1>6
  <2>6. CASE step < 9
    <3>1. panel.count < 7
      BY <1>1, <2>1, <2>6
    <3>2. /\ panel' \in Panel /\ panel'.count = panel.count + 1 /\ panel'.shift = b
          /\ Same(panel, panel')
      BY <1>3, <2>3, <2>5, <3>1, ClockIs
    <3> HIDE DEF b, h
    <3>3. panel'.count = step - 1 /\ step # 9
      BY <1>1, <2>1, <2>6, <3>2
    <3>4. panel'.shift = h \div 2^(9 - step)
      BY <2>4, <3>2
    <3>5. QED  BY <2>0, <3>2, <3>3, <3>4 DEF h
  <2>7. CASE step = 9
    <3>1. panel.count = 7
      BY <2>1, <2>7
    <3>2. panel' = Deselect(Receive(panel, dc, b))
      BY <2>5, <3>1 DEF Clock
    <3>3. b = h /\ ~(step < 9)
      BY <2>4, <2>7
    <3> HIDE DEF b, h
    <3>4. panel' = Deselect(Receive(panel, dc, h))
      BY <3>2, <3>3
    <3>5. QED  BY <2>0, <3>3, <3>4 DEF h
  <2>8. QED  BY <1>1, <2>6, <2>7
<1>7. QED  BY <1>3, <1>5, <1>6

(* A whole byte that the panel took.                                       *)
LEMMA ByteSent ==
  ASSUME LcdInv, SendBit, cs = 0, step = 9
  PROVE  /\ Ready(panel') /\ Kept(panel, panel')
         /\ job # 1 => panel'.cmd # COLMOD
         /\ job = 1 => /\ at = 1 => "awake" \in panel'.modes
                       /\ at = 3 => "rgb565" \in panel'.modes
                       /\ at = Len(Commands) - 1 => "inverted" \in panel'.modes
                       /\ at = Len(Commands) => "on" \in panel'.modes
                       /\ (panel'.cmd = COLMOD) <=> (at = 2)
<1> DEFINE h == ByteNow[2]
           r == Receive(panel, dc, h)
<1>1. panel' = Deselect(r)
  BY BitSent
<1>2. LcdTypeOK /\ Shifted /\ Undisturbed /\ Initialised
  BY DEF LcdInv
<1>3. dc \in {0, 1} /\ panel \in Panel /\ job > 0 /\ job # 0
  BY <1>2, JobsAre DEF LcdTypeOK, Shifted
<1>4. /\ ByteNow \in InitByte /\ (job # 1 => ByteNow \in Mild) /\ h \in OneByte
      /\ ByteNow[1] = 0 => h \notin Darkening
      /\ job # 1 /\ ByteNow[1] = 0 => h # COLMOD
      /\ at \in 1 .. Len(Jobs[job])
  BY <1>2, <1>3, ByteKnown
<1>5. h \in Nat
  <2>1. \A v \in OneByte : v \in Nat
    BY DEF OneByte
  <2>2. QED  BY <1>4, <2>1, Zenon
<1>6. dc = 0 => ByteNow[1] = 0
  BY <1>2 DEF Shifted
<1>7. job = 1 => /\ dc = ByteNow[1] /\ ByteNow = Commands[at] /\ at \in 1 .. Len(Commands)
                 /\ (panel.cmd = COLMOD) <=> (at = 3)
  <2>1. SUFFICES ASSUME job = 1
                 PROVE  /\ dc = ByteNow[1] /\ ByteNow = Commands[at] /\ at \in 1 .. Len(Commands)
                        /\ (panel.cmd = COLMOD) <=> (at = 3)
    OBVIOUS
  <2>2. Calm
    BY <1>2, <2>1, JobsAre DEF Undisturbed
  <2>3. dc = ByteNow[1]
    BY <1>2, <1>3, <2>2 DEF Undisturbed
  <2>4. ByteNow = Commands[at] /\ at \in 1 .. Len(Commands)
    BY <1>4, <2>1, JobsAre DEF ByteNow
  <2>5. Received = at - 1
    BY DEF Received
  <2>6. (panel.cmd = COLMOD) <=> (at - 1 = 2)
    BY <1>2, <2>1, <2>5 DEF Initialised
  <2>7. QED  BY <2>3, <2>4, <2>6
<1>8. panel.cmd = COLMOD => job = 1
  BY <1>2 DEF Initialised
<1> HIDE DEF h
<1>9. /\ r \in Panel
      /\ dc = 0 => r.cmd = h
      /\ dc = 1 => r.cmd # COLMOD
      /\ dc = 0 /\ h \notin Darkening => Kept(panel, r)
      /\ dc = 1 /\ (panel.cmd # COLMOD \/ h = 5) => Kept(panel, r)
      /\ dc = 0 /\ h = SLPOUT => "awake" \in r.modes
      /\ dc = 0 /\ h = INVON => "inverted" \in r.modes
      /\ dc = 0 /\ h = DISPON => "on" \in r.modes
      /\ dc = 1 /\ panel.cmd = COLMOD /\ h = 5 => "rgb565" \in r.modes
  BY <1>3, <1>5, ReceiveIs
<1> HIDE DEF r
<1>10. Ready(panel') /\ Same(r, panel')
  BY <1>1, <1>9, DeselectIs DEF Ready, Empty
<1>11. panel'.cmd = r.cmd /\ panel'.modes = r.modes
  BY <1>10 DEF Same
<1>12. ASSUME job = 1
       PROVE  /\ at = 1 => dc = 0 /\ h = SLPOUT
              /\ at = 2 => dc = 0 /\ h = COLMOD
              /\ at = 3 => dc = 1 /\ h = 5
              /\ at = Len(Commands) - 1 => dc = 0 /\ h = INVON
              /\ at = Len(Commands) => dc = 0 /\ h = DISPON
              /\ at # 2 /\ dc = 0 => h # COLMOD
  <2>1. dc = ByteNow[1] /\ h = ByteNow[2] /\ ByteNow = Commands[at] /\ at \in 1 .. Len(Commands)
    BY <1>7, <1>12 DEF h
  <2>2. /\ at = 1 => ByteNow = Cmd(SLPOUT)
        /\ at = 2 => ByteNow = Cmd(COLMOD)
        /\ at = 3 => ByteNow = Dat(5)
        /\ at = Len(Commands) - 1 => ByteNow = Cmd(INVON)
        /\ at = Len(Commands) => ByteNow = Cmd(DISPON)
        /\ at # 2 => ByteNow \in Mild
    BY <2>1, CommandsAre
  <2>3. ByteNow \in Mild /\ ByteNow[1] = 0 => ByteNow[2] # COLMOD
    BY <1>4, MildIs
  <2>4. \A v : Cmd(v)[1] = 0 /\ Cmd(v)[2] = v /\ Dat(v)[1] = 1 /\ Dat(v)[2] = v
    BY DEF Cmd, Dat
  <2>5. /\ at = 1 => dc = 0 /\ h = SLPOUT
        /\ at = 2 => dc = 0 /\ h = COLMOD
        /\ at = 3 => dc = 1 /\ h = 5
    BY <2>1, <2>2, <2>4, Zenon
  <2>6. /\ at = Len(Commands) - 1 => dc = 0 /\ h = INVON
        /\ at = Len(Commands) => dc = 0 /\ h = DISPON
    BY <2>1, <2>2, <2>4, Zenon
  <2>7. at # 2 /\ dc = 0 => h # COLMOD
    BY <2>1, <2>2, <2>3
  <2>8. QED  BY <2>5, <2>6, <2>7
<1>13. Kept(panel, panel')
  <2>1. CASE dc = 0
    <3>1. h \notin Darkening
      BY <1>4, <1>6, <2>1 DEF h
    <3>2. QED  BY <1>9, <1>11, <2>1, <3>1 DEF Kept
  <2>2. CASE dc = 1
    <3>1. panel.cmd # COLMOD \/ h = 5
      BY <1>7, <1>8, <1>12
    <3>2. QED  BY <1>9, <1>11, <2>2, <3>1 DEF Kept
  <2>3. QED  BY <1>3, <2>1, <2>2
<1>14. job # 1 => panel'.cmd # COLMOD
  BY <1>3, <1>4, <1>6, <1>9, <1>11 DEF h
<1>15. ASSUME job = 1
       PROVE  /\ at = 1 => "awake" \in panel'.modes
              /\ at = 3 => "rgb565" \in panel'.modes
              /\ at = Len(Commands) - 1 => "inverted" \in panel'.modes
              /\ at = Len(Commands) => "on" \in panel'.modes
              /\ (panel'.cmd = COLMOD) <=> (at = 2)
  <2>1. at = 3 => panel.cmd = COLMOD
    BY <1>7, <1>15
  <2>2. /\ at = 1 => "awake" \in panel'.modes
        /\ at = 3 => "rgb565" \in panel'.modes
    BY <1>9, <1>11, <1>12, <1>15, <2>1, Zenon
  <2>3. /\ at = Len(Commands) - 1 => "inverted" \in panel'.modes
        /\ at = Len(Commands) => "on" \in panel'.modes
    BY <1>9, <1>11, <1>12, <1>15, Zenon
  <2>4. (panel'.cmd = COLMOD) <=> (at = 2)
    BY <1>3, <1>9, <1>11, <1>12, <1>15, Zenon
  <2>5. QED  BY <2>2, <2>3, <2>4
<1>16. QED  BY <1>10, <1>13, <1>14, <1>15

LEMMA SendBitKeeps ==
  ASSUME LcdInv, SendBit
  PROVE  LcdInv' /\ Kept(panel, panel')
<1>1. /\ step \in 2 .. 9 /\ step' = step + 1
      /\ dc' = dc /\ cs' = cs /\ job' = job /\ at' = at /\ since' = since /\ alarm' = alarm
  BY DEF SendBit
<1>2. LcdTypeOK /\ Shifted /\ Undisturbed /\ Initialised
  BY DEF LcdInv
<1>3. /\ ByteNow' = ByteNow /\ (Calm' <=> Calm)
      /\ Received = at - 1 /\ Received' = IF step = 9 THEN at ELSE at - 1
  BY <1>1 DEF ByteNow, Received, Calm
<1>4. panel \in Panel /\ cs \in {0, 1} /\ job > 0 /\ job \in 1 .. Len(Jobs) /\ at \in 1 .. Len(Jobs[job])
  <2>1. job # 0
    BY <1>1, <1>2 DEF Shifted
  <2>2. job > 0
    BY <1>2, <2>1, JobsAre DEF LcdTypeOK
  <2>3. QED  BY <1>2, <2>2, ByteKnown DEF LcdTypeOK
<1>5. cs = 1 => panel' = panel /\ Empty(panel)
  BY BitSent
<1>6. cs = 0 /\ step < 9 => /\ panel' \in Panel /\ Same(panel, panel')
                            /\ panel'.count = step - 1
                            /\ panel'.shift = ByteNow[2] \div 2^(9 - step)
  BY BitSent
<1>7. cs = 0 /\ step = 9 => Ready(panel') /\ Kept(panel, panel')
  BY ByteSent
<1>8. panel' \in Panel /\ Kept(panel, panel') /\ (cs = 1 \/ step = 9 => Empty(panel'))
  <2>1. CASE cs = 1
    BY <1>4, <1>5, <2>1 DEF Kept
  <2>2. CASE cs = 0 /\ step < 9
    <3>1. Kept(panel, panel')
      BY <1>6, <2>2 DEF Same, Kept
    <3>2. QED  BY <1>6, <2>2, <3>1
  <2>3. CASE cs = 0 /\ step = 9
    BY <1>7, <2>3 DEF Ready
  <2>4. QED  BY <1>1, <1>4, <2>1, <2>2, <2>3
<1>9. LcdTypeOK'
  BY <1>1, <1>2, <1>8 DEF LcdTypeOK
<1>10. Shifted'
  <2>1. step' \in {0, 1, 10} \/ cs' = 1 => panel'.count = 0 /\ panel'.shift = 0
    BY <1>1, <1>8 DEF Empty
  <2>2. step' \in 2 .. 9 /\ cs' = 0 =>
          /\ panel'.count = step' - 2
          /\ panel'.shift = ByteNow'[2] \div 2^(10 - step')
    <3>1. SUFFICES ASSUME step' \in 2 .. 9, cs' = 0
                   PROVE  /\ panel'.count = step' - 2
                          /\ panel'.shift = ByteNow'[2] \div 2^(10 - step')
      OBVIOUS
    <3>2. step < 9 /\ cs = 0 /\ step' - 2 = step - 1 /\ 10 - step' = 9 - step
      BY <1>1, <3>1
    <3>3. QED  BY <1>1, <1>3, <1>6, <3>2
  <2>3. step' > 0 /\ dc' = 0 => job' > 0 /\ ByteNow'[1] = 0
    BY <1>1, <1>2, <1>3 DEF Shifted
  <2>4. job' # 0
    BY <1>1, <1>2 DEF Shifted
  <2>5. panel'.count = 0 => panel'.shift = 0
    BY <1>1, <1>4, <1>6, <1>8 DEF Empty
  <2>6. QED  BY <2>1, <2>2, <2>3, <2>4, <2>5 DEF Shifted
<1>11. Undisturbed'
  BY <1>1, <1>2, <1>3 DEF Undisturbed
<1>12. Initialised'
  <2>1. CASE job = 1
    <3> DEFINE L == Len(Commands)
    <3>1. cs = 0 /\ at \in 1 .. L /\ L \in Nat /\ L >= 5
      <4>1. Calm
        BY <1>2, <2>1, JobsAre DEF Undisturbed
      <4>2. cs = 0
        BY <1>1, <1>2, <1>4, <4>1 DEF Undisturbed
      <4>3. QED  BY <1>4, <2>1, <4>2, JobsAre, CommandsAre
    <3> HIDE DEF L
    <3>2. /\ at - 1 >= 1 => "awake" \in panel.modes
          /\ at - 1 >= 3 => "rgb565" \in panel.modes
          /\ at - 1 >= L - 1 => "inverted" \in panel.modes
          /\ at - 1 >= L => "on" \in panel.modes
          /\ (panel.cmd = COLMOD) <=> (at - 1 = 2)
      BY <1>2, <1>3, <2>1 DEF Initialised, L
    <3>3. CASE step < 9
      <4>1. Received' = at - 1 /\ panel'.modes = panel.modes /\ panel'.cmd = panel.cmd
        BY <1>3, <1>6, <3>1, <3>3 DEF Same
      <4>2. job' = 1 /\ job' # 2
        BY <1>1, <2>1
      <4>3. QED  BY <3>2, <4>1, <4>2 DEF Initialised, L
    <3>4. CASE step = 9
      <4>1. Received' = at /\ job' = 1 /\ job' # 2
        BY <1>1, <1>3, <2>1, <3>4
      <4>2. /\ at = 1 => "awake" \in panel'.modes
            /\ at = 3 => "rgb565" \in panel'.modes
            /\ at = L - 1 => "inverted" \in panel'.modes
            /\ at = L => "on" \in panel'.modes
            /\ (panel'.cmd = COLMOD) <=> (at = 2)
        BY <2>1, <3>1, <3>4, ByteSent DEF L
      <4>3. \A m \in Normal : m \in panel.modes => m \in panel'.modes
        BY <1>8 DEF Kept
      <4>4. /\ at >= 1 => "awake" \in panel'.modes
            /\ at >= 3 => "rgb565" \in panel'.modes
            /\ at >= L - 1 => "inverted" \in panel'.modes
            /\ at >= L => "on" \in panel'.modes
        BY <3>1, <3>2, <4>2, <4>3 DEF Normal
      <4>5. QED  BY <4>1, <4>2, <4>4 DEF Initialised, L
    <3>5. QED  BY <1>1, <3>3, <3>4
  <2>2. CASE job # 1
    <3>1. job' # 1 /\ panel.cmd # COLMOD
      BY <1>1, <1>2, <2>2 DEF Initialised
    <3>2. panel'.cmd # COLMOD
      <4>1. CASE cs = 1
        BY <1>5, <3>1, <4>1
      <4>2. CASE cs = 0 /\ step < 9
        BY <1>6, <3>1, <4>2 DEF Same
      <4>3. CASE cs = 0 /\ step = 9
        BY <2>2, <4>3, ByteSent
      <4>4. QED  BY <1>1, <1>4, <4>1, <4>2, <4>3
    <3>3. job' = 2 => Lit'
      <4>1. job = 2 => Lit
        BY <1>2 DEF Initialised
      <4>2. Lit => Lit'
        BY <1>8 DEF Lit, Kept
      <4>3. QED  BY <1>1, <4>1, <4>2
    <3>4. QED  BY <3>1, <3>2, <3>3 DEF Initialised
  <2>3. QED  BY <2>1, <2>2
<1>13. QED  BY <1>8, <1>9, <1>10, <1>11, <1>12 DEF LcdInv

LEMMA NextByteKeeps ==
  ASSUME LcdInv, NextByte
  PROVE  LcdInv' /\ Kept(panel, panel')
<1>1. /\ step = 10 /\ cs' = 1 /\ panel' = Deselect(panel) /\ step' = 0 /\ dc' = dc /\ alarm' = alarm
      /\ at' = IF at < Len(Jobs[job]) THEN at + 1 ELSE 1
      /\ since' = IF job >= FirstOfText /\ at = Len(Jobs[job]) /\ since < Gap
                  THEN since + 1 ELSE since
  BY DEF NextByte
<1>2. LcdTypeOK /\ Shifted /\ Undisturbed /\ Initialised
  BY DEF LcdInv
<1>3. job > 0
  BY <1>1, <1>2, JobsAre DEF Shifted, LcdTypeOK
<1>4. /\ job \in 1 .. Len(Jobs) /\ Len(Jobs[job]) \in Nat \ {0} /\ at \in 1 .. Len(Jobs[job])
  BY <1>2, <1>3, ByteKnown
<1>5. \/ at < Len(Jobs[job]) /\ job' = job /\ at' = at + 1
      \/ at = Len(Jobs[job]) /\ job < Len(Jobs) /\ job' = job + 1 /\ at' = 1
      \/ at = Len(Jobs[job]) /\ job = Len(Jobs) /\ job' = FirstOfText /\ at' = 1
  <2>1. job' = CASE at < Len(Jobs[job]) -> job
                 [] at = Len(Jobs[job]) /\ job < Len(Jobs) -> job + 1
                 [] OTHER -> FirstOfText
    BY DEF NextByte
  <2>2. QED  BY <1>1, <1>4, <2>1, JobsAre
<1>6. panel' \in Panel /\ panel'.count = 0 /\ panel'.shift = 0 /\ Same(panel, panel')
  BY <1>1, <1>2, DeselectIs DEF LcdTypeOK
<1>7. job' \in 1 .. Len(Jobs) /\ Len(Jobs[job']) \in Nat \ {0} /\ at' \in 1 .. Len(Jobs[job'])
  <2>1. job' \in 1 .. Len(Jobs)
    BY <1>4, <1>5, JobsAre
  <2>2. Len(Jobs[job']) \in Nat \ {0}
    BY <2>1, JobsAre
  <2>3. QED  BY <1>4, <1>5, <2>1, <2>2
<1>8. LcdTypeOK'
  <2>1. since' \in 0 .. Gap
    BY <1>1, <1>2, LcdAssumption DEF LcdTypeOK
  <2>2. QED  BY <1>1, <1>2, <1>6, <1>7, <2>1, JobsAre DEF LcdTypeOK
<1>9. Shifted'
  BY <1>1, <1>6, <1>7 DEF Shifted
<1>10. Undisturbed'
  <2>1. ~Calm' => job' >= FirstOfText
    <3>1. SUFFICES ASSUME ~Calm'  PROVE job' >= FirstOfText
      OBVIOUS
    <3>2. job >= FirstOfText
      BY <1>1, <1>2, <3>1 DEF Calm, Undisturbed
    <3>3. QED  BY <1>4, <1>5, <3>2, JobsAre
  <2>2. step' = 0
    BY <1>1
  <2>3. QED  BY <2>1, <2>2 DEF Undisturbed
<1>11. panel'.cmd = panel.cmd /\ panel'.modes = panel.modes
  BY <1>6 DEF Same
<1>12. Len(Commands) \in Nat /\ Len(Commands) >= 5 /\ Jobs[1] = Commands
  BY CommandsAre, JobsAre, LenProperties
<1>13. Initialised'
  <2> DEFINE L == Len(Commands)
  <2>1. Received = at /\ Received' = at' - 1
    BY <1>1 DEF Received
  <2>2. CASE job = 1
    <3>1. /\ at >= 1 => "awake" \in panel'.modes
          /\ at >= 3 => "rgb565" \in panel'.modes
          /\ at >= L - 1 => "inverted" \in panel'.modes
          /\ at >= L => "on" \in panel'.modes
          /\ (panel'.cmd = COLMOD) <=> (at = 2)
      BY <1>2, <1>11, <2>1, <2>2 DEF Initialised
    <3>2. CASE job' = 1
      <4>1. at' = at + 1
        BY <1>4, <1>5, <2>2, <3>2, JobsAre
      <4>2. Received' = at /\ job' # 2
        BY <1>4, <2>1, <3>2, <4>1
      <4>3. QED  BY <3>1, <3>2, <4>2 DEF Initialised
    <3>3. CASE job' # 1
      <4>1. at = L /\ job' # 1
        BY <1>4, <1>5, <1>12, <2>2, <3>3
      <4>2. panel'.cmd # COLMOD
        BY <1>12, <3>1, <4>1
      <4>3. Normal \subseteq panel'.modes
        BY <1>12, <3>1, <4>1 DEF Normal
      <4>4. Lit'
        BY <4>3 DEF Lit
      <4>5. QED  BY <4>1, <4>2, <4>4 DEF Initialised
    <3>4. QED  BY <3>2, <3>3
  <2>3. CASE job # 1
    <3>1. job' # 1 /\ (job' = 2 => job = 2)
      BY <1>4, <1>5, <2>3, JobsAre
    <3>2. panel'.cmd # COLMOD
      BY <1>2, <1>11, <2>3 DEF Initialised
    <3>3. job' = 2 => Lit'
      BY <1>2, <1>11, <3>1 DEF Initialised, Lit
    <3>4. QED  BY <3>1, <3>2, <3>3 DEF Initialised
  <2>4. QED  BY <2>2, <2>3
<1>14. QED  BY <1>8, <1>9, <1>10, <1>11, <1>13 DEF LcdInv, Kept

LEMMA CountIs ==
  ASSUME LcdInv
  PROVE  panel \in Panel /\ panel.count \in 0 .. 7
<1>1. LcdTypeOK /\ Shifted
  BY DEF LcdInv
<1>2. panel \in Panel /\ step \in 0 .. 10 /\ cs \in {0, 1}
  BY <1>1 DEF LcdTypeOK
<1>3. CASE step \in 2 .. 9 /\ cs = 0
  BY <1>1, <1>2, <1>3 DEF Shifted
<1>4. CASE step \in {0, 1, 10} \/ cs = 1
  BY <1>1, <1>2, <1>4 DEF Shifted
<1>5. QED  BY <1>2, <1>3, <1>4

LEMMA CutKeeps ==
  ASSUME LcdInv, Cut
  PROVE  LcdInv' /\ (panel.count = 0 => Kept(panel, panel')) /\ job >= FirstOfText
<1>1. /\ panel' = Sent(panel, AlarmBytes) /\ dc' = 1 /\ cs' = 1 /\ since = Gap /\ since' = 0
      /\ job' = job /\ at' = at /\ step' = step /\ alarm' \in {"torn", "whole"}
  BY DEF Cut
<1>2. LcdTypeOK /\ Shifted /\ Undisturbed /\ Initialised
  BY DEF LcdInv
<1>3. panel \in Panel /\ panel.count \in 0 .. 7
  BY CountIs
<1>4. job >= FirstOfText /\ job # 1 /\ job # 2
  <2>1. ~Calm
    BY <1>1, LcdAssumption DEF Calm
  <2>2. job >= FirstOfText /\ FirstOfText >= 4
    BY <1>2, <2>1, JobsAre DEF Undisturbed
  <2>3. QED  BY <1>2, <2>2, JobsAre DEF LcdTypeOK
<1>5. Ready(panel') /\ panel'.cmd # COLMOD /\ (Empty(panel) => Kept(panel, panel'))
  <2>1. panel.cmd # COLMOD
    BY <1>2, <1>4 DEF Initialised
  <2>2. QED  BY <1>1, <1>3, <2>1, AlarmIs, SentKeeps
<1>6. LcdTypeOK'
  BY <1>1, <1>2, <1>5, LcdAssumption DEF LcdTypeOK, Ready
<1>7. Shifted'
  BY <1>1, <1>4, <1>5, JobsAre DEF Shifted, Ready, Empty
<1>8. Undisturbed'
  BY <1>1, <1>4 DEF Undisturbed, Calm
<1>9. Initialised'
  BY <1>1, <1>4, <1>5 DEF Initialised
<1>10. panel.count = 0 => Empty(panel)
  BY <1>2 DEF Shifted, Empty
<1>11. QED  BY <1>4, <1>5, <1>6, <1>7, <1>8, <1>9, <1>10 DEF LcdInv

LEMMA LcdStep == LcdInv /\ [LcdNext]_lcdvars => LcdInv'
<1> SUFFICES ASSUME LcdInv, [LcdNext]_lcdvars  PROVE LcdInv'
  OBVIOUS
<1>1. CASE LcdNext
  BY <1>1, LcdStartKeeps, SetDCKeeps, SelectKeeps, SendBitKeeps, NextByteKeeps, CutKeeps, Zenon
     DEF LcdNext, DisplayThread
<1>2. CASE UNCHANGED lcdvars
  <2>1. /\ dc' = dc /\ cs' = cs /\ panel' = panel /\ job' = job /\ at' = at
        /\ step' = step /\ since' = since /\ alarm' = alarm
    BY <1>2 DEF lcdvars
  <2>2. ByteNow' = ByteNow /\ (Lit' <=> Lit) /\ Received' = Received /\ (Calm' <=> Calm)
    BY <2>1 DEF ByteNow, Lit, Received, Calm
  <2>3. LcdTypeOK /\ Shifted /\ Undisturbed /\ Initialised
    BY DEF LcdInv
  <2>4. LcdTypeOK'
    BY <2>1, <2>3 DEF LcdTypeOK
  <2>5. Shifted'
    BY <2>1, <2>2, <2>3 DEF Shifted
  <2>6. Undisturbed'
    BY <2>1, <2>2, <2>3 DEF Undisturbed
  <2>7. Initialised'
    BY <2>1, <2>2, <2>3 DEF Initialised
  <2>8. QED  BY <2>4, <2>5, <2>6, <2>7 DEF LcdInv
<1>3. QED  BY <1>1, <1>2

LEMMA DarkStep == LcdInv /\ LcdNext => (Lit /\ ~Lit' => Cut /\ panel.count > 0)
<1> SUFFICES ASSUME LcdInv, LcdNext, Lit, ~Lit'  PROVE Cut /\ panel.count > 0
  BY Zenon
<1>1. ~Kept(panel, panel')
  BY DEF Kept, Lit
<1>2. panel' # panel
  BY <1>1, Zenon DEF Kept
<1>3. Cut
  BY <1>1, <1>2, LcdStartKeeps, SetDCKeeps, SelectKeeps, SendBitKeeps, NextByteKeeps, Zenon
     DEF LcdNext, DisplayThread
<1>4. panel.count # 0
  BY <1>1, <1>3, CutKeeps
<1>5. panel.count \in Nat
  BY CountIs
<1>6. QED  BY <1>3, <1>4, <1>5

----------------------------------------------------------------------------
(* The bus and the panel are always in a state of their types: no level,   *)
(* no byte and no position runs out of its range, cuts and texts over the  *)
(* right edge included.                                                    *)
THEOREM LcdTypeCorrect == LcdSpec => []LcdTypeOK
<1>1. LcdInv => LcdTypeOK
  BY DEF LcdInv
<1>2. QED  BY <1>1, LcdInitial, LcdStep, PTL DEF LcdSpec

(* TFT_init reaches the panel for every screen, text and alarm: its stray  *)
(* clock edge is wiped by the reset, its first command wakes the panel,    *)
(* COLMOD takes the byte after it, and its last two invert the panel and   *)
(* switch it on.                                                           *)
THEOREM LcdInitTakesEffect == LcdSpec => []InitTakesEffect
<1>1. LcdInv => InitTakesEffect
  BY DEF LcdInv, Initialised, InitTakesEffect
<1>2. QED  BY <1>1, LcdInitial, LcdStep, PTL DEF LcdSpec

(* No byte that the threads send whole takes the panel out of the state    *)
(* that TFT_init brought it to: only a cut inside a byte can.              *)
THEOREM LcdDarkOnlyInsideAByte == LcdSpec => DarkOnlyInsideAByte
<1> DEFINE A == Lit /\ ~Lit' => Cut /\ panel.count > 0
<1>1. LcdInv /\ [LcdNext]_lcdvars => [A]_lcdvars
  BY DarkStep
<1>2. QED  BY <1>1, LcdInitial, LcdStep, PTL DEF LcdSpec, DarkOnlyInsideAByte
=============================================================================
