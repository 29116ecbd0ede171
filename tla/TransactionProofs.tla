-------------------------- MODULE TransactionProofs --------------------------
(***************************************************************************)
(* Theorems about Transaction, for any set of transactions, any number of  *)
(* attempts and any of the environment's freedoms.                         *)
(***************************************************************************)
EXTENDS Transaction, SequenceFacts

USE TransactionAssumption

(* The loop over ptc ends before ptc reaches zero: an attempt is only made *)
(* while one is left.                                                      *)
Settling == {"report", "posted", "done"}
AttemptLeft == \A t \in Txn : pc[t] \notin Settling => ptc[t] \in 1..Tries

TypeInv == TypeOK /\ AttemptLeft

(* What the proofs below need of the types; it holds in LifeCycle as well, *)
(* where a thread may also be gone, with its process.                      *)
CoreTypes ==
    /\ pc \in [Txn -> Pcs \cup {"gone"}]
    /\ ptc \in [Txn -> 0..Tries]
    /\ thiz \in [Txn -> Inst]
    /\ chars \in [Txn -> Chars]
    /\ entered \in [Txn -> Seq(Entry)] /\ compared \in [Txn -> Seq(Chars)]
    /\ verdict \in [Txn -> Verdicts]
    /\ pin \in [Inst -> Entry] /\ cur \in Inst
    /\ stack \in Seq(Pad) /\ results \in Seq(Result) /\ batch \in Seq(Result)
    /\ \A t \in Txn : pc[t] \notin Settling \cup {"gone"} => ptc[t] \in 1..Tries

LEMMA TypeIsCore == TypeInv => CoreTypes
  BY DEF TypeInv, TypeOK, AttemptLeft, CoreTypes

LEMMA InitType == Init => TypeInv
  BY EmptySeq DEF Init, TypeInv, TypeOK, AttemptLeft, Inst, Entry, NoEntry,
                  Chars, Pcs, Verdicts, Pad

LEMMA ThreadStepType ==
    ASSUME TypeInv, NEW t \in Txn, ThreadStep(t)
    PROVE  TypeInv'
<1>. USE DEF TypeInv, TypeOK, AttemptLeft, Settling, Pcs, Verdicts, Inst, At,
         Goto, thread, activity, windows
<1>1. CASE ParseTrd(t)
  BY <1>1 DEF ParseTrd
<1>2. CASE RejectTrd(t)
  BY <1>2 DEF RejectTrd
<1>3. CASE EnterPin(t)
  BY <1>3 DEF EnterPin, Entry, NoEntry
<1>4. CASE Launch(t)
  <2>1. <<t, ptc[t]>> \in Pad
    BY <1>4 DEF Launch, Pad
  <2>2. stack' \in Seq(Pad)
    BY <1>4, <2>1, AppendProperties DEF Launch
  <2>. QED
    BY <1>4, <2>2 DEF Launch
<1>5. CASE Wait(t)
  BY <1>5 DEF Wait
<1>6. CASE Reacquire(t)
  BY <1>6 DEF Reacquire
<1>7. CASE ReturnPin(t)
  <2>1. pin[thiz[t]] \in Entry /\ pin[thiz[t]].val \in Pins
    BY DEF Entry
  <2>2. Append(entered[t], pin[thiz[t]]) \in Seq(Entry)
    BY <2>1, AppendProperties
  <2>3. entered' \in [Txn -> Seq(Entry)]
    BY <1>7, <2>2 DEF ReturnPin
  <2>4. chars' \in [Txn -> Chars]
    BY <1>7, <2>1 DEF ReturnPin, Chars
  <2>. QED
    BY <1>7, <2>3, <2>4 DEF ReturnPin
<1>8. CASE Compare(t)
  <2>1. PICK seen \in {chars[t]} \cup {c \in {Garbage} : HeapReuse} :
            LET left == IF Accepted(seen) THEN ptc[t] ELSE ptc[t] - 1
            IN  /\ ptc' = [ptc EXCEPT ![t] = left]
                /\ compared' = [compared EXCEPT ![t] = Append(@, seen)]
                /\ Goto(t, IF Again(Accepted(seen), left) THEN "enter"
                                                          ELSE "report")
    BY <1>8 DEF Compare
  <2>2. seen \in Chars
    BY <2>1 DEF Chars
  <2>3. ptc[t] \in 1..Tries
    BY <1>8 DEF Compare
  <2>4. compared' \in [Txn -> Seq(Chars)]
    <3>1. Append(compared[t], seen) \in Seq(Chars)
      BY <2>2, AppendProperties
    <3>. QED
      BY <2>1, <3>1
  <2>. QED
    BY <1>8, <2>1, <2>3, <2>4 DEF Compare, Accepted, Again
<1>9. CASE Report(t)
  BY <1>9 DEF Report, VerdictOf
<1>10. CASE LaunchThrows(t)
  BY <1>10 DEF LaunchThrows
<1>. QED
  BY <1>1, <1>2, <1>3, <1>4, <1>5, <1>6, <1>7, <1>8, <1>9, <1>10
  DEF ThreadStep

LEMMA UiStepType ==
    ASSUME TypeInv, UiStep
    PROVE  TypeInv'
<1>. USE DEF TypeInv, TypeOK, AttemptLeft, Settling, Pcs, Inst, Goto,
         thread, activity, windows
<1>1. CASE PadThrows
  BY <1>1 DEF PadThrows
<1>2. CASE ResumeMain
  BY <1>2, EmptySeq DEF ResumeMain
<1>3. CASE OnResultOk
  <2>1. Head(batch) \in Result /\ Tail(batch) \in Seq(Result)
    BY <1>3, HeadTailProperties DEF OnResultOk
  <2>2. Head(batch).entry \in Entry
    BY <2>1 DEF Result
  <2>. QED
    BY <1>3, <2>1, <2>2 DEF OnResultOk
<1>4. CASE OnResultCancelled
  BY <1>4, HeadTailProperties DEF OnResultCancelled
<1>5. CASE NotifyAll
  BY <1>5 DEF NotifyAll
<1>6. ASSUME NEW t \in Txn, ShowToast(t)
      PROVE  TypeInv'
  BY <1>6 DEF ShowToast
<1>. QED
  BY <1>1, <1>2, <1>3, <1>4, <1>5, <1>6 DEF UiStep

LEMMA CloseType ==
    ASSUME TypeInv, NEW ok \in BOOLEAN, NEW v \in Pins, CloseTopPad(ok, v),
           cancelled' \subseteq Pad
    PROVE  TypeInv'
<1>1. Last(stack) \in Pad /\ Front(stack) \in Seq(Pad)
  BY FrontLast DEF CloseTopPad, TypeInv, TypeOK
<1>2. [ok |-> ok, entry |-> [val |-> v, pad |-> Last(stack)]] \in Result
  BY <1>1 DEF Result, Entry
<1>3. results' \in Seq(Result)
  BY <1>2, AppendProperties DEF CloseTopPad, TypeInv, TypeOK
<1>. QED
  BY <1>1, <1>3 DEF CloseTopPad, TypeInv, TypeOK, AttemptLeft, thread, activity

LEMMA EnvironmentType ==
    ASSUME TypeInv, Environment
    PROVE  TypeInv'
<1>. USE DEF TypeInv, TypeOK, AttemptLeft, Settling, Pcs, Inst, At, Goto,
         thread, activity, windows
<1>1. ASSUME NEW t \in Txn, StartTransaction(t)
      PROVE  TypeInv'
  BY <1>1 DEF StartTransaction
<1>2. ASSUME NEW t \in Txn, AttachFails(t)
      PROVE  TypeInv'
  BY <1>2 DEF AttachFails
<1>3. ASSUME NEW t \in Txn, SpuriousWakeup(t)
      PROVE  TypeInv'
  BY <1>3 DEF SpuriousWakeup
<1>4. ASSUME NEW v \in Pins, PressOk(v)
      PROVE  TypeInv'
  BY <1>4, CloseType DEF PressOk
<1>5. CASE PressBack
  <2>1. stack # <<>>
    BY <1>5 DEF PressBack, CloseTopPad
  <2>2. cancelled' \subseteq Pad
    BY <1>5, <2>1, FrontLast DEF PressBack
  <2>. QED
    BY <1>5, <2>2, CloseType DEF PressBack
<1>6. CASE RecreateMain
  BY <1>6 DEF RecreateMain
<1>. QED
  BY <1>1, <1>2, <1>3, <1>4, <1>5, <1>6 DEF Environment

LEMMA NextType == TypeInv /\ [Next]_vars => TypeInv'
<1>1. ASSUME TypeInv, UNCHANGED vars
      PROVE  TypeInv'
  BY <1>1 DEF TypeInv, TypeOK, AttemptLeft, vars, thread, activity, windows
<1>. QED
  BY <1>1, ThreadStepType, UiStepType, EnvironmentType DEF Next

(* Every variable keeps its type: ptc, above all, is never negative, which *)
(* takes AttemptLeft to show.                                              *)
THEOREM TypeCorrect == Spec => []TypeOK
<1>1. TypeInv => TypeOK
  BY DEF TypeInv
<1>. QED
  BY <1>1, InitType, NextType, PTL DEF Spec

-----------------------------------------------------------------------------
(* Where a thread stands in the loop determines what its strcmp has read:  *)
(* while it asks, one wrong string for each attempt spent; after the loop, *)
(* a right last one if attempts are left and only wrong ones if not.  Each *)
(* was one answer of enterPIN, read truly unless its memory was reused.    *)
(* Of a thread that is gone only the announced verdict matters.            *)
Wrong(s) == \A k \in 1..Len(s) : s[k] # SecretPin

ReadInv(t) ==
    \A k \in 1..Len(compared[t]) :
        HeapReuse \/ compared[t][k] = entered[t][k].val

AskingInv(t) ==
    pc[t] \notin Settling \cup {"compare", "gone"} =>
        /\ Len(compared[t]) = Tries - ptc[t] /\ Wrong(compared[t])
        /\ Len(entered[t]) = Len(compared[t])

CompareInv(t) ==
    pc[t] = "compare" =>
        /\ Len(compared[t]) = Tries - ptc[t] /\ Wrong(compared[t])
        /\ Len(entered[t]) = Len(compared[t]) + 1
        /\ HeapReuse \/ chars[t] = entered[t][Len(entered[t])].val

Decided(t) ==
    /\ Len(entered[t]) = Len(compared[t])
    /\ \/ /\ ptc[t] > 0 /\ Len(compared[t]) > 0
          /\ compared[t][Len(compared[t])] = SecretPin
       \/ ptc[t] = 0 /\ Len(compared[t]) = Tries /\ Wrong(compared[t])

SettledInv(t) == pc[t] \in Settling => Decided(t)

AnnouncedInv(t) ==
    verdict[t] # "none" =>
        /\ pc[t] \in {"posted", "done", "gone"} /\ Decided(t)
        /\ verdict[t] = IF ptc[t] > 0 THEN "approved" ELSE "declined"

LoopInvOf(t) ==
    /\ ReadInv(t) /\ AskingInv(t) /\ CompareInv(t) /\ SettledInv(t)
    /\ AnnouncedInv(t)

LoopInv == \A t \in Txn : LoopInvOf(t)

LEMMA InitLoop == Init => LoopInv
  BY EmptySeq DEF Init, LoopInv, LoopInvOf, ReadInv, AskingInv, CompareInv,
                  SettledInv, AnnouncedInv, Settling, Wrong

(* A step that leaves what a thread knows alone, and moves it at most      *)
(* inside one phase of the loop, keeps its part of the invariant.          *)
Phase(where) ==
    CASE where = "compare"              -> "compare"
      [] where = "report"               -> "report"
      [] where \in {"posted", "done"}   -> "announced"
      [] where = "gone"                 -> "gone"
      [] OTHER                          -> "asking"

SameProgress(t) ==
    /\ Phase(pc'[t]) = Phase(pc[t])
    /\ ptc'[t] = ptc[t] /\ (HeapReuse \/ chars'[t] = chars[t])
    /\ entered'[t] = entered[t] /\ compared'[t] = compared[t]
    /\ verdict'[t] = verdict[t]

LEMMA SameProgressKeeps ==
    ASSUME NEW t \in Txn, LoopInvOf(t), SameProgress(t)
    PROVE  LoopInvOf(t)'
  BY DEF LoopInvOf, ReadInv, AskingInv, CompareInv, SettledInv, AnnouncedInv,
         Settling, Decided, Wrong, SameProgress, Phase

(* Every step but ReturnPin, Compare and Report is of that kind for every  *)
(* thread.                                                                 *)
Deciding(t) == ReturnPin(t) \/ Compare(t) \/ Report(t)

LEMMA QuietSteps ==
    ASSUME TypeInv, [Next]_vars, ~ \E t \in Txn : Deciding(t), NEW u \in Txn
    PROVE  SameProgress(u) /\ chars'[u] = chars[u]
<1>. USE DEF TypeInv, TypeOK, SameProgress, Phase, At, Goto, thread, activity,
         windows
<1>1. ASSUME NEW t \in Txn, ThreadStep(t)
      PROVE  SameProgress(u) /\ chars'[u] = chars[u]
  BY <1>1 DEF Deciding, ThreadStep, ParseTrd, RejectTrd, EnterPin, Launch,
              LaunchThrows, Wait, Reacquire
<1>2. CASE UiStep
  <2>1. CASE NotifyAll
    BY <2>1 DEF NotifyAll
  <2>2. ASSUME NEW t \in Txn, ShowToast(t)
        PROVE  SameProgress(u) /\ chars'[u] = chars[u]
    BY <2>2 DEF ShowToast
  <2>. QED
    BY <1>2, <2>1, <2>2
    DEF UiStep, PadThrows, ResumeMain, OnResultOk, OnResultCancelled
<1>3. CASE Environment
  BY <1>3 DEF Environment, StartTransaction, AttachFails, SpuriousWakeup,
              PressOk, PressBack, CloseTopPad, RecreateMain
<1>4. CASE UNCHANGED vars
  BY <1>4 DEF vars
<1>. QED
  BY <1>1, <1>2, <1>3, <1>4 DEF Next

(* enterPIN's answer becomes the one under comparison; if another thread's *)
(* copy of characters changes as well, memory was used again.              *)
LEMMA ReturnPinLoop ==
    ASSUME CoreTypes, LoopInv, NEW t \in Txn, ReturnPin(t)
    PROVE  LoopInv'
<1>. USE DEF CoreTypes
<1>1. pin[thiz[t]] \in Entry /\ pin[thiz[t]].val \in Pins
  BY DEF Entry
<1>2. /\ chars'[t] = pin[thiz[t]].val
      /\ \A u \in Txn \ {t} : HeapReuse \/ chars'[u] = chars[u]
  BY DEF ReturnPin
<1>3. entered' = [entered EXCEPT ![t] = Append(entered[t], pin[thiz[t]])]
  BY DEF ReturnPin
<1>4. /\ pc[t] = "return" /\ pc' = [pc EXCEPT ![t] = "compare"]
      /\ ptc' = ptc /\ verdict' = verdict /\ compared' = compared
  BY DEF ReturnPin, At, Goto
<1>5. LoopInvOf(t)'
  <2>1. /\ Len(compared[t]) = Tries - ptc[t] /\ Wrong(compared[t])
        /\ Len(entered[t]) = Len(compared[t])
    BY <1>4 DEF LoopInv, LoopInvOf, AskingInv, Settling
  <2>2. verdict[t] = "none" /\ ReadInv(t)
    BY <1>4 DEF LoopInv, LoopInvOf, AnnouncedInv
  <2>3. entered[t] \in Seq(Entry)
    OBVIOUS
  <2>4. /\ Len(entered'[t]) = Len(entered[t]) + 1
        /\ entered'[t][Len(entered'[t])] = pin[thiz[t]]
        /\ \A k \in 1..Len(entered[t]) : entered'[t][k] = entered[t][k]
    BY <1>1, <1>3, <2>3, AppendProperties
  <2>5. Len(entered[t]) \in Nat
    BY <2>3
  <2>6. CompareInv(t)'
    BY <1>2, <1>4, <2>1, <2>4, <2>5 DEF CompareInv, Wrong
  <2>7. ReadInv(t)'
    BY <1>4, <2>1, <2>2, <2>4 DEF ReadInv
  <2>. QED
    BY <1>4, <2>2, <2>6, <2>7 DEF LoopInvOf, AskingInv, SettledInv,
                                  AnnouncedInv, Settling
<1>6. ASSUME NEW u \in Txn \ {t}
      PROVE  LoopInvOf(u)'
  <2>1. SameProgress(u)
    BY <1>2, <1>3, <1>4 DEF SameProgress
  <2>. QED
    BY <2>1, SameProgressKeeps DEF LoopInv
<1>. QED
  BY <1>5, <1>6 DEF LoopInv

(* strcmp reads one more string, and the loop goes on, or ends, rightly.   *)
LEMMA CompareLoop ==
    ASSUME CoreTypes, LoopInv, NEW t \in Txn, Compare(t)
    PROVE  LoopInv'
<1>1. PICK seen \in Chars :
          /\ HeapReuse \/ seen = chars[t]
          /\ LET left == IF seen = SecretPin THEN ptc[t] ELSE ptc[t] - 1
             IN  /\ ptc' = [ptc EXCEPT ![t] = left]
                 /\ compared' = [compared EXCEPT ![t] = Append(@, seen)]
                 /\ pc' = [pc EXCEPT ![t] = IF seen # SecretPin /\ left > 0
                                            THEN "enter" ELSE "report"]
  BY DEF Compare, Accepted, Again, Goto, CoreTypes, Chars
<1>2. /\ pc[t] = "compare"
      /\ entered' = entered /\ chars' = chars /\ verdict' = verdict
  BY DEF Compare, At
<1>3. ptc[t] \in 1..Tries
  BY <1>2 DEF CoreTypes, Settling
<1>4. /\ Len(compared[t]) = Tries - ptc[t] /\ Wrong(compared[t])
      /\ Len(entered[t]) = Len(compared[t]) + 1
      /\ HeapReuse \/ chars[t] = entered[t][Len(entered[t])].val
  BY <1>2 DEF LoopInv, LoopInvOf, CompareInv
<1>5. verdict[t] = "none" /\ ReadInv(t)
  BY <1>2 DEF LoopInv, LoopInvOf, AnnouncedInv
<1>6. LoopInvOf(t)'
  <2>1. compared[t] \in Seq(Chars) /\ compared'[t] = Append(compared[t], seen)
    BY <1>1 DEF CoreTypes
  <2>2. /\ Len(compared'[t]) = Len(compared[t]) + 1 /\ Len(compared[t]) \in Nat
        /\ compared'[t][Len(compared'[t])] = seen
        /\ \A k \in 1..Len(compared[t]) : compared'[t][k] = compared[t][k]
    BY <2>1, AppendProperties, LenProperties
  <2>3. ReadInv(t)'
    <3>1. ASSUME NEW k \in 1..Len(compared'[t])
          PROVE  HeapReuse \/ compared'[t][k] = entered'[t][k].val
      <4>1. CASE k = Len(compared'[t])
        BY <1>1, <1>2, <1>4, <2>2, <4>1
      <4>2. CASE k \in 1..Len(compared[t])
        BY <1>2, <1>5, <2>2, <4>2 DEF ReadInv
      <4>. QED
        BY <2>2, <4>1, <4>2
    <3>. QED
      BY <3>1 DEF ReadInv
  <2>4. CASE seen = SecretPin
    <3>1. ptc'[t] = ptc[t] /\ pc'[t] = "report"
      BY <1>1, <2>4 DEF CoreTypes
    <3>. QED
      BY <1>2, <1>3, <1>4, <1>5, <2>2, <2>3, <2>4, <3>1
      DEF LoopInvOf, AskingInv, CompareInv, SettledInv, AnnouncedInv,
          Decided, Settling
  <2>5. CASE seen # SecretPin
    <3>1. /\ ptc'[t] = ptc[t] - 1
          /\ pc'[t] = IF ptc[t] - 1 > 0 THEN "enter" ELSE "report"
      BY <1>1, <2>5 DEF CoreTypes
    <3>2. Wrong(compared'[t])
      <4>1. ASSUME NEW k \in 1..Len(compared'[t])
            PROVE  compared'[t][k] # SecretPin
        <5>1. CASE k = Len(compared'[t])
          BY <2>2, <2>5, <5>1
        <5>2. CASE k \in 1..Len(compared[t])
          BY <1>4, <2>2, <5>2 DEF Wrong
        <5>. QED
          BY <2>2, <5>1, <5>2
      <4>. QED
        BY <4>1 DEF Wrong
    <3>. QED
      BY <1>2, <1>3, <1>4, <1>5, <2>2, <2>3, <3>1, <3>2
      DEF LoopInvOf, AskingInv, CompareInv, SettledInv, AnnouncedInv,
          Decided, Settling, Wrong
  <2>. QED
    BY <2>4, <2>5
<1>7. ASSUME NEW u \in Txn \ {t}
      PROVE  LoopInvOf(u)'
  <2>1. SameProgress(u)
    BY <1>1, <1>2 DEF SameProgress, CoreTypes
  <2>. QED
    BY <2>1, SameProgressKeeps DEF LoopInv
<1>. QED
  BY <1>6, <1>7 DEF LoopInv

(* The verdict is the one that the attempts left call for.                 *)
LEMMA ReportLoop ==
    ASSUME CoreTypes, LoopInv, NEW t \in Txn, Report(t)
    PROVE  LoopInv'
<1>1. /\ pc[t] = "report" /\ pc' = [pc EXCEPT ![t] = "posted"]
      /\ verdict' = [verdict EXCEPT ![t] = IF ptc[t] > 0 THEN "approved"
                                                         ELSE "declined"]
      /\ ptc' = ptc /\ entered' = entered /\ chars' = chars
      /\ compared' = compared
  BY DEF Report, VerdictOf, At, Goto
<1>2. LoopInvOf(t)'
  BY <1>1 DEF LoopInv, LoopInvOf, ReadInv, AskingInv, CompareInv, SettledInv,
              AnnouncedInv, Decided, Settling, Wrong, CoreTypes
<1>3. ASSUME NEW u \in Txn \ {t}
      PROVE  LoopInvOf(u)'
  <2>1. SameProgress(u)
    BY <1>1 DEF SameProgress, CoreTypes
  <2>. QED
    BY <2>1, SameProgressKeeps DEF LoopInv
<1>. QED
  BY <1>2, <1>3 DEF LoopInv

LEMMA NextLoop ==
    ASSUME TypeInv, LoopInv, [Next]_vars
    PROVE  LoopInv'
<1>1. CASE \E t \in Txn : Deciding(t)
  BY <1>1, TypeIsCore, ReturnPinLoop, CompareLoop, ReportLoop DEF Deciding
<1>2. CASE ~ \E t \in Txn : Deciding(t)
  BY <1>2, QuietSteps, SameProgressKeeps DEF LoopInv
<1>. QED
  BY <1>1, <1>2

(* The invariant says of an announced verdict what the property asks.      *)
LEMMA LoopDecides ==
    ASSUME CoreTypes, LoopInv
    PROVE  VerdictFollowsAnswers
<1>. SUFFICES ASSUME NEW t \in Txn, verdict[t] # "none"
              PROVE  LET n        == Len(entered[t])
                         Right(k) == entered[t][k].val = SecretPin
                     IN  /\ verdict[t] = "approved" =>
                               n > 0 /\ (Right(n) \/ Misread(t, n))
                         /\ verdict[t] = "declined" =>
                               /\ n = Tries
                               /\ \A k \in 1..n : ~Right(k) \/ Misread(t, k)
  BY DEF VerdictFollowsAnswers
<1>1. /\ Decided(t) /\ ReadInv(t)
      /\ verdict[t] = IF ptc[t] > 0 THEN "approved" ELSE "declined"
  BY DEF LoopInv, LoopInvOf, AnnouncedInv
<1>2. Len(entered[t]) \in Nat
  BY LenProperties DEF CoreTypes
<1>3. ASSUME NEW k \in 1..Len(compared[t])
      PROVE  compared[t][k] = entered[t][k].val \/ Misread(t, k)
  BY <1>1 DEF ReadInv, Misread
<1>4. CASE verdict[t] = "approved"
  <2>1. /\ Len(compared[t]) > 0 /\ Len(compared[t]) = Len(entered[t])
        /\ compared[t][Len(compared[t])] = SecretPin
    BY <1>1, <1>4 DEF Decided
  <2>2. Len(entered[t]) \in 1..Len(compared[t])
    BY <1>2, <2>1
  <2>. QED
    BY <1>3, <1>4, <2>1, <2>2
<1>5. CASE verdict[t] = "declined"
  BY <1>1, <1>3, <1>5 DEF Decided, Wrong
<1>. QED
  BY <1>1, <1>4, <1>5

(* A transaction approves exactly on a right last answer and refuses       *)
(* exactly after Tries wrong ones, however many transactions share the     *)
(* activity and whatever wakes their threads; and when the characters of   *)
(* an answer were overwritten before strcmp, that answer alone may count   *)
(* for another one.                                                        *)
THEOREM VerdictSound == Spec => []VerdictFollowsAnswers
<1>1. Init => TypeInv /\ LoopInv
  BY InitType, InitLoop
<1>2. TypeInv /\ LoopInv /\ [Next]_vars => TypeInv' /\ LoopInv'
  BY NextType, NextLoop
<1>3. TypeInv /\ LoopInv => VerdictFollowsAnswers
  BY TypeIsCore, LoopDecides
<1>. QED
  BY <1>1, <1>2, <1>3, PTL DEF Spec

-----------------------------------------------------------------------------
(* The refinement of PinVerification.                                      *)
LEMMA InitRefines == Init => PV!Init
  BY DEF Init, PV!Init

(* strcmp reading a string is an answer: the loop has not ended before it. *)
LEMMA CompareRefines ==
    ASSUME CoreTypes, LoopInv, NEW t \in Txn, Compare(t)
    PROVE  \E seen \in Chars : PV!Answer(t, seen)
<1>1. PICK seen \in Chars :
          compared' = [compared EXCEPT ![t] = Append(@, seen)]
  BY DEF Compare, CoreTypes, Chars
<1>2. pc[t] = "compare" /\ verdict' = verdict
  BY DEF Compare, At
<1>3. Len(compared[t]) = Tries - ptc[t] /\ Wrong(compared[t])
  BY <1>2 DEF LoopInv, LoopInvOf, CompareInv
<1>4. ptc[t] \in 1..Tries /\ Len(compared[t]) \in Nat
  BY <1>2, LenProperties DEF CoreTypes, Settling
<1>5. compared[t] # <<>> => Len(compared[t]) \in 1..Len(compared[t])
  BY <1>4, EmptySeq DEF CoreTypes
<1>6. ~PV!Settled(compared[t])
  BY <1>3, <1>4, <1>5 DEF PV!Settled, PV!Approved, PV!Last, Wrong
<1>. QED
  BY <1>1, <1>2, <1>6 DEF PV!Answer

(* transactionResult announces the verdict of what was read.               *)
LEMMA ReportRefines ==
    ASSUME CoreTypes, LoopInv, NEW t \in Txn, Report(t)
    PROVE  PV!Announce(t)
<1>1. /\ pc[t] = "report" /\ compared' = compared
      /\ verdict' = [verdict EXCEPT ![t] = IF ptc[t] > 0 THEN "approved"
                                                         ELSE "declined"]
  BY DEF Report, VerdictOf, At
<1>2. verdict[t] = "none" /\ Decided(t)
  BY <1>1 DEF LoopInv, LoopInvOf, AnnouncedInv, SettledInv, Settling
<1>3. Len(compared[t]) \in Nat /\ (compared[t] = <<>> <=> Len(compared[t]) = 0)
  BY LenProperties, EmptySeq DEF CoreTypes
<1>4. CASE ptc[t] > 0
  <2>1. PV!Approved(compared[t])
    BY <1>2, <1>3, <1>4 DEF Decided, PV!Approved, PV!Last
  <2>. QED
    BY <1>1, <1>2, <1>4, <2>1 DEF PV!Announce, PV!Settled
<1>5. CASE ~(ptc[t] > 0)
  <2>1. Len(compared[t]) = Tries /\ Wrong(compared[t])
    BY <1>2, <1>5 DEF Decided
  <2>2. Len(compared[t]) \in 1..Len(compared[t])
    BY <2>1
  <2>3. ~PV!Approved(compared[t])
    BY <2>1, <2>2 DEF Wrong, PV!Approved, PV!Last
  <2>. QED
    BY <1>1, <1>2, <1>5, <2>1, <2>3 DEF PV!Announce, PV!Settled
<1>. QED
  BY <1>4, <1>5

(* No other step changes what was read or announced.                       *)
LEMMA QuietStepsStutter ==
    ASSUME [Next]_vars, ~ \E t \in Txn : Compare(t) \/ Report(t)
    PROVE  UNCHANGED PV!vars
<1>1. UNCHANGED <<compared, verdict>>
  BY DEF Next, vars, ThreadStep, UiStep, Environment, ParseTrd, RejectTrd,
         EnterPin, Launch, LaunchThrows, Wait, Reacquire, ReturnPin,
         PadThrows, ResumeMain, OnResultOk, OnResultCancelled, NotifyAll,
         ShowToast, StartTransaction, AttachFails, SpuriousWakeup, PressOk,
         PressBack, CloseTopPad, RecreateMain, thread
<1>. QED
  BY <1>1 DEF PV!vars

(* The transactions of one activity, overlapping in any way and whatever   *)
(* becomes of the memory they have released, implement PinVerification:    *)
(* strcmp is Answer, transactionResult is Announce, and everything else is *)
(* invisible.                                                              *)
THEOREM Refinement == Spec => ImplementsPinVerification
<1>1. Init => PV!Init /\ TypeInv /\ LoopInv
  BY InitRefines, InitType, InitLoop
<1>2. TypeInv /\ LoopInv /\ [Next]_vars => TypeInv' /\ LoopInv'
  BY NextType, NextLoop
<1>3. ASSUME TypeInv, LoopInv, [Next]_vars
      PROVE  [PV!Next]_PV!vars
  <2>1. ASSUME NEW t \in Txn, Compare(t) \/ Report(t)
        PROVE  PV!Next
    BY <1>3, <2>1, TypeIsCore, CompareRefines, ReportRefines DEF PV!Next
  <2>. QED
    BY <1>3, <2>1, QuietStepsStutter
<1>. QED
  BY <1>1, <1>2, <1>3, PTL DEF Spec, ImplementsPinVerification, PV!Spec

-----------------------------------------------------------------------------
(* The two characters that the native loop writes for byte i of the TRD.   *)
LEMMA CharactersOfByte ==
    ASSUME NEW r, NEW i \in 4..9
    PROVE  /\ 2 * i - 7 \in 1..12 /\ 2 * i - 6 \in 1..12
           /\ AmountText(r)[2 * i - 7] = Zero + (r[i] \div 16)
           /\ AmountText(r)[2 * i - 6] = Zero + (r[i] % 16)
<1>1. /\ 2 * i - 7 \in 1..12 /\ (2 * i - 7) % 2 = 1
      /\ 4 + ((2 * i - 7) - 1) \div 2 = i
  OBVIOUS
<1>2. /\ 2 * i - 6 \in 1..12 /\ (2 * i - 6) % 2 # 1
      /\ 4 + ((2 * i - 6) - 1) \div 2 = i
  OBVIOUS
<1>. QED
  BY <1>1, <1>2 DEF AmountText

LEMMA HalfBytes ==
    ASSUME NEW b \in 0..255
    PROVE  b \div 16 \in Nat /\ b % 16 \in Nat
  OBVIOUS

LEMMA DigitCharacter ==
    ASSUME NEW n \in Nat, Zero + n \in Zero .. Zero + 9
    PROVE  n \in 0..9
  BY DEF Zero

(* The text of a TRD that the native code accepts is a Long exactly when   *)
(* all of its half bytes are decimal digits.                               *)
LEMMA DecimalText ==
    ASSUME NEW r \in Seq(Byte), WellFormed(r)
    PROVE  IsLong(AmountText(r)) <=> Decimal(r)
<1>1. Len(r) = 9 /\ DOMAIN r = 1..9
  BY DEF WellFormed, Size
<1>2. r[1] = 159 /\ r[2] = 2 /\ r[3] = 6
  <2>1. \A i \in 1 .. 3 : r[i] \in Byte
    <3>1. \A i \in 1 .. 3 : i \in 1..Len(r)
      BY <1>1
    <3>. QED
      BY <3>1, ElementOfSeq
  <2>2. \A i \in 1 .. 3 - 1 + 1 : SubSeq(r, 1, 3)[i] = r[1 + i - 1]
    BY <2>1, SubSeqProperties
  <2>3. /\ SubSeq(r, 1, 3)[1] = r[1] /\ SubSeq(r, 1, 3)[2] = r[2]
        /\ SubSeq(r, 1, 3)[3] = r[3]
    BY <2>2
  <2>4. Header[1] = 159 /\ Header[2] = 2 /\ Header[3] = 6
    BY DEF Header
  <2>5. SubSeq(r, 1, 3) = Header
    BY DEF WellFormed
  <2>. QED
    BY <2>3, <2>4, <2>5
<1>3. ASSUME NEW i \in 4..9
      PROVE  r[i] \div 16 \in Nat /\ r[i] % 16 \in Nat
  <2>1. i \in 1..Len(r)
    BY <1>1
  <2>2. r[i] \in 0..255
    BY <2>1, ElementOfSeq DEF Byte
  <2>. QED
    BY <2>2, HalfBytes
<1>4. DOMAIN AmountText(r) = 1..12
  BY DEF AmountText
<1>5. ASSUME IsLong(AmountText(r)), NEW i \in 4..9
      PROVE  r[i] \div 16 \in 0..9 /\ r[i] % 16 \in 0..9
  <2>1. /\ Zero + (r[i] \div 16) \in Zero .. Zero + 9
        /\ Zero + (r[i] % 16) \in Zero .. Zero + 9
    BY <1>4, <1>5, CharactersOfByte DEF IsLong
  <2>. QED
    BY <1>3, <2>1, DigitCharacter
<1>6. ASSUME Decimal(r), NEW c \in 1..12
      PROVE  AmountText(r)[c] \in Zero .. Zero + 9
  <2>1. PICK i \in 4..9 : c = 2 * i - 7 \/ c = 2 * i - 6
    <3>1. CASE c % 2 = 1
      <4>1. 4 + (c - 1) \div 2 \in 4..9 /\ c = 2 * (4 + (c - 1) \div 2) - 7
        BY <3>1
      <4>. QED
        BY <4>1
    <3>2. CASE c % 2 # 1
      <4>1. 3 + c \div 2 \in 4..9 /\ c = 2 * (3 + c \div 2) - 6
        BY <3>2
      <4>. QED
        BY <4>1
    <3>. QED
      BY <3>1, <3>2
  <2>2. r[i] \div 16 \in 0..9 /\ r[i] % 16 \in 0..9
    BY <1>6 DEF Decimal
  <2>3. /\ AmountText(r)[2 * i - 7] = Zero + (r[i] \div 16)
        /\ AmountText(r)[2 * i - 6] = Zero + (r[i] % 16)
    BY CharactersOfByte
  <2>4. CASE c = 2 * i - 7
    BY <2>2, <2>3, <2>4 DEF Zero
  <2>5. CASE c = 2 * i - 6
    BY <2>2, <2>3, <2>5 DEF Zero
  <2>. QED
    BY <2>1, <2>4, <2>5
<1>. QED
  BY <1>1, <1>2, <1>4, <1>5, <1>6 DEF IsLong, Decimal

(* A thread beyond the check of its TRD carries a well-formed one, and so  *)
(* does the transaction of every open pad, which may outlive the thread.   *)
Unchecked == {"idle", "spawned", "gone"}

AmountInv ==
    /\ \A t \in Txn : pc[t] \notin Unchecked => WellFormed(trd[t])
    /\ \A pad \in ToSet(stack) : WellFormed(trd[pad[1]])

LEMMA InitAmount == Init => AmountInv
  BY ToSetEmpty DEF Init, AmountInv, Unchecked

LEMMA ThreadStepAmount ==
    ASSUME CoreTypes, AmountInv, NEW t \in Txn, ThreadStep(t)
    PROVE  AmountInv'
<1>1. trd' = trd
  BY DEF ThreadStep, ParseTrd, RejectTrd, EnterPin, Launch, LaunchThrows, Wait,
         Reacquire, ReturnPin, Compare, Report, thread
<1>2. \A u \in Txn : pc'[u] \notin Unchecked => WellFormed(trd[u])
  <2>. USE DEF CoreTypes, AmountInv, Unchecked, At, Goto
  <2>1. CASE ParseTrd(t)
    BY <2>1 DEF ParseTrd
  <2>2. CASE Compare(t)
    BY <2>2 DEF Compare
  <2>. QED
    BY <2>1, <2>2 DEF ThreadStep, RejectTrd, EnterPin, Launch, LaunchThrows,
                      Wait, Reacquire, ReturnPin, Report
<1>3. CASE Launch(t)
  <2>1. <<t, ptc[t]>> \in Pad
    BY <1>3 DEF Launch, Pad, CoreTypes, Settling, At
  <2>2. ToSet(stack') = ToSet(stack) \cup {<<t, ptc[t]>>}
    BY <1>3, <2>1, ToSetAppend DEF Launch, CoreTypes
  <2>3. WellFormed(trd[t])
    BY <1>3 DEF Launch, At, AmountInv, Unchecked
  <2>. QED
    BY <1>1, <1>2, <2>2, <2>3 DEF AmountInv
<1>4. CASE ~Launch(t)
  <2>1. stack' = stack
    BY <1>4 DEF ThreadStep, ParseTrd, RejectTrd, EnterPin, LaunchThrows, Wait,
                Reacquire, ReturnPin, Compare, Report, windows
  <2>. QED
    BY <1>1, <1>2, <2>1 DEF AmountInv
<1>. QED
  BY <1>3, <1>4

(* No other step opens a pad or takes a thread past the check.             *)
NoneChecked ==
    /\ trd' = trd
    /\ \A t \in Txn : pc'[t] \notin Unchecked => pc[t] \notin Unchecked
    /\ ToSet(stack') \subseteq ToSet(stack)

LEMMA NoneCheckedAmount == AmountInv /\ NoneChecked => AmountInv'
  BY DEF AmountInv, NoneChecked

LEMMA CloseAmount ==
    ASSUME CoreTypes, NEW ok, NEW v, CloseTopPad(ok, v)
    PROVE  NoneChecked
  BY ToSetFront DEF CloseTopPad, CoreTypes, NoneChecked, thread

LEMMA MonitorAmount ==
    ASSUME CoreTypes,
           \/ ResumeMain \/ OnResultOk \/ OnResultCancelled \/ NotifyAll
           \/ \E t \in Txn : \/ ShowToast(t) \/ StartTransaction(t)
                            \/ AttachFails(t) \/ SpuriousWakeup(t)
    PROVE  NoneChecked
  BY DEF CoreTypes, NoneChecked, Unchecked, At, Goto, thread, windows,
         ResumeMain, OnResultOk, OnResultCancelled, NotifyAll, ShowToast,
         StartTransaction, AttachFails, SpuriousWakeup

LEMMA NextAmount ==
    ASSUME CoreTypes, AmountInv, [Next]_vars
    PROVE  AmountInv'
<1>1. CASE PadThrows \/ RecreateMain \/ UNCHANGED vars
  <2>1. NoneChecked
    BY <1>1 DEF PadThrows, RecreateMain, vars, thread, windows, NoneChecked
  <2>. QED
    BY <2>1, NoneCheckedAmount
<1>. QED
  BY <1>1, ThreadStepAmount, CloseAmount, MonitorAmount, NoneCheckedAmount
  DEF Next, UiStep, Environment, PressOk, PressBack

LEMMA AmountInvReads ==
    ASSUME trd \in [Txn -> Trds], stack \in Seq(Pad), AmountInv
    PROVE  AmountIsRead
<1>. SUFFICES ASSUME NEW pad \in ToSet(stack)
              PROVE  IsLong(Amount(pad)) <=> Decimal(trd[pad[1]])
  BY DEF AmountIsRead
<1>1. pad[1] \in Txn
  BY ToSetType DEF Pad
<1>2. trd[pad[1]] \in Seq(Byte)
  BY <1>1, TrdAssumption
<1>. QED
  BY <1>2, DecimalText DEF AmountInv, Amount

(* The PIN pad throws for the TRDs that carry no decimal amount, and for   *)
(* no others: the check of the native thread stands before every pad.      *)
THEOREM AmountRead == Spec => []AmountIsRead
<1>1. TypeInv /\ AmountInv => AmountIsRead
  BY AmountInvReads DEF TypeInv, TypeOK
<1>2. TypeInv /\ AmountInv /\ [Next]_vars => AmountInv'
  BY TypeIsCore, NextAmount
<1>. QED
  BY <1>1, <1>2, InitType, InitAmount, NextType, PTL DEF Spec
=============================================================================
