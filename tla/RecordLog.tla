----------------------------- MODULE RecordLog -----------------------------
(* What the review log promises: records are kept complete and in the      *)
(* order they were taken until the operator forgets them all at once. One  *)
(* record more than fits loses the log; forgetting gives a sound one back. *)
EXTENDS Integers, Sequences

CONSTANTS Entry,       \* the records that can be taken
          Capacity     \* how many fit

VARIABLES log, lost

Init == log = << >> /\ lost = FALSE

Take == /\ ~lost /\ Len(log) < Capacity
        /\ \E e \in Entry : log' = Append(log, e)
        /\ UNCHANGED lost
TakeOneTooMany == /\ Len(log) = Capacity
                  /\ log' = << >> /\ lost' = TRUE
Forget == log' = << >> /\ lost' = FALSE

Spec == Init /\ [][Take \/ TakeOneTooMany \/ Forget]_<<log, lost>>
=============================================================================
