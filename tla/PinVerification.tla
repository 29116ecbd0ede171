--------------------------- MODULE PinVerification ---------------------------
(***************************************************************************)
(* What a payment transaction promises its caller, with threads, windows   *)
(* and monitors left out: it is given strings to compare until one is      *)
(* right or Tries wrong ones were given, and then announces one verdict    *)
(* that follows from them.                                                 *)
(***************************************************************************)
EXTENDS Naturals, Sequences, SequencesExt

CONSTANTS Txn,        \* the transactions
          Pins,       \* the strings it can be given
          SecretPin,  \* the PIN that is accepted
          Tries       \* how many wrong answers make a refusal

VARIABLES answers,    \* the strings each transaction was given, in order
          verdict     \* what it announced

vars == <<answers, verdict>>

Approved(s) == s # <<>> /\ Last(s) = SecretPin
Settled(s)  == Approved(s) \/ Len(s) = Tries

Init ==
    /\ answers = [t \in Txn |-> <<>>]
    /\ verdict = [t \in Txn |-> "none"]

Answer(t, v) ==
    /\ ~Settled(answers[t])
    /\ answers' = [answers EXCEPT ![t] = Append(@, v)]
    /\ UNCHANGED verdict

Announce(t) ==
    /\ verdict[t] = "none"
    /\ Settled(answers[t])
    /\ verdict' = [verdict EXCEPT ![t] =
                      IF Approved(answers[t]) THEN "approved" ELSE "declined"]
    /\ UNCHANGED answers

Next == \E t \in Txn : Announce(t) \/ \E v \in Pins : Answer(t, v)

Spec == Init /\ [][Next]_vars
=============================================================================
