------------------------------ MODULE PadWindow ------------------------------
(***************************************************************************)
(* What a PIN pad promises the transaction that opened it, with keys,      *)
(* shuffling and stars left out: it is visible until the user answers or   *)
(* leaves, never again after that, and its one answer is the beginning of  *)
(* what was typed.  Transaction relies on it: PressOk is Answer, PressBack *)
(* is Leave, and each closed pad has one result.                           *)
(***************************************************************************)
EXTENDS Naturals, Sequences

CONSTANTS Digit,     \* the texts of the keys
          PinSize,   \* an answer has no more digits than this
          NoResult   \* the answer before there is one

VARIABLES visible,   \* the user can see the pad
          typed,     \* the digits typed since it was last empty
          answer     \* what goes back to MainActivity

vars == <<visible, typed, answer>>

(* The first PinSize digits.                                               *)
Taken(s) == SubSeq(s, 1, IF Len(s) < PinSize THEN Len(s) ELSE PinSize)

Init == visible = TRUE /\ typed = <<>> /\ answer = NoResult

Type(d) ==
    /\ visible
    /\ typed' = Append(typed, d)
    /\ UNCHANGED <<visible, answer>>

Clear ==
    /\ visible
    /\ typed' = <<>>
    /\ UNCHANGED <<visible, answer>>

Answer ==
    /\ visible
    /\ visible' = FALSE
    /\ answer' = Taken(typed)
    /\ UNCHANGED typed

Leave ==
    /\ visible
    /\ visible' = FALSE
    /\ UNCHANGED <<typed, answer>>

Next == Clear \/ Answer \/ Leave \/ \E d \in Digit : Type(d)

Spec == Init /\ [][Next]_vars
=============================================================================
