----------------------------- MODULE ToastQueue -----------------------------
(***************************************************************************)
(* What the threads of fclient rely on when they hand work to the UI       *)
(* thread, with clicks, connections and titles left out.  Messages wait in *)
(* one line.  Clicks are handled, and toasts are shown, in the order of    *)
(* posting; nobody has two toasts; and a toast is lost only when ToastLimit*)
(* others are waiting ahead of it.                                         *)
(***************************************************************************)
EXTENDS Naturals, Sequences, SequencesExt

CONSTANTS Clicks,     \* the messages that have to be handled
          Toasts,     \* the messages that have to be shown, each from someone
          ToastLimit  \* how many toasts can wait to be shown

VARIABLES waiting,    \* messages not dealt with, oldest first
          shown,      \* toasts that were shown, in order
          lost        \* toasts that will never be

vars == <<waiting, shown, lost>>

Init == waiting = <<>> /\ shown = <<>> /\ lost = {}

HasToast(s) ==
    \E m \in Toasts \cap (ToSet(waiting) \cup ToSet(shown) \cup lost) : m.from = s

Post(m) ==
    /\ m \in Toasts => ~HasToast(m.from)
    /\ waiting' = Append(waiting, m)
    /\ UNCHANGED <<shown, lost>>

Show ==
    /\ waiting # <<>> /\ Head(waiting) \in Toasts
    /\ waiting' = Tail(waiting)
    /\ shown' = Append(shown, Head(waiting))
    /\ UNCHANGED lost

(* Only toasts may be passed over.                                         *)
TakeOut(k) ==
    /\ \A j \in 1 .. k - 1 : waiting[j] \in Toasts
    /\ waiting' = RemoveAt(waiting, k)
    /\ UNCHANGED shown

Handle(k) == TakeOut(k) /\ waiting[k] \in Clicks /\ UNCHANGED lost

Lose(k) ==
    /\ TakeOut(k) /\ waiting[k] \in Toasts /\ k > ToastLimit
    /\ lost' = lost \cup {waiting[k]}

Next ==
    \/ \E m \in Clicks \cup Toasts : Post(m)
    \/ Show
    \/ \E k \in DOMAIN waiting : Handle(k) \/ Lose(k)

Spec == Init /\ [][Next]_vars
=============================================================================
