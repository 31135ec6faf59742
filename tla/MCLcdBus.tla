------------------------------ MODULE MCLcdBus ------------------------------
(* Characters of two by two pixels on a panel of five by six: the label    *)
(* above the text above the alarm text. The text and the alarm text run    *)
(* over the right edge, the second characters of label and text are beyond *)
(* it; if a cut eats its column, that of the text lands on the first.      *)
EXTENDS LcdBus

Line1 == << [x |-> 0, y |-> 0, glyph |-> <<1, 0, 1, 1>>],
            [x |-> 6, y |-> 0, glyph |-> <<0, 1, 1, 0>>] >>
Line2 == << [x |-> 4, y |-> 2, glyph |-> <<1, 0, 0, 1>>],
            [x |-> 6, y |-> 2, glyph |-> <<0, 1, 1, 1>>] >>
Line3 == << [x |-> 0, y |-> 4, glyph |-> <<1, 1, 0, 1>>],
            [x |-> 2, y |-> 4, glyph |-> <<0, 1, 1, 1>>],
            [x |-> 4, y |-> 4, glyph |-> <<0, 0, 1, 1>>] >>
=============================================================================
