------------------------------ MODULE MCDrive ------------------------------
(* Bytes of two bits, hence four buttons, and two positions of the hands:  *)
(* Rest has the left stick at its centre and no button down, Push asks for *)
(* speed and turn with two buttons of different bytes down.                *)
EXTENDS Drive

Hand(down, right, lx, ly) ==
    [down |-> down,
     stick |-> [b \in StickByte |-> CASE b = 7 -> lx [] b = 8 -> ly [] OTHER -> right]]

Rest == Hand({}, {0}, {0}, {1})
Push == Hand({2, 3}, {0, 1}, {1}, {0})
RestAndPush == {Rest, Push}
=============================================================================
