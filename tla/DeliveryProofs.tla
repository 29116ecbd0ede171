--------------------------- MODULE DeliveryProofs ---------------------------
(***************************************************************************)
(* Theorems about Transaction: where the answers of the user go.           *)
(***************************************************************************)
EXTENDS TransactionProofs

USE TransactionAssumption

-----------------------------------------------------------------------------
(* Approvals.  A released copy of the characters never holds a PIN that    *)
(* enterPIN did not return to some transaction, and a thread that leaves   *)
(* the loop with attempts left has compared such a copy with the secret.   *)
Returned == {e.val : e \in UNION {ToSet(entered[u]) : u \in Txn}}

TraceInv ==
    \A t \in Txn :
        /\ chars[t] # Garbage => chars[t] \in Returned
        /\ pc[t] \in Settling /\ ptc[t] > 0 => SecretPin \in Returned
        /\ verdict[t] = "approved" => SecretPin \in Returned

LEMMA InitTrace == Init => TraceInv
  BY DEF Init, TraceInv, Settling

LEMMA ReturnPinTrace ==
    ASSUME CoreTypes, TraceInv, NEW t \in Txn, ReturnPin(t)
    PROVE  TraceInv'
<1>. USE DEF CoreTypes
<1>. DEFINE entry == pin[thiz[t]]
<1>1. /\ entry \in Entry /\ entered[t] \in Seq(Entry)
      /\ entered' = [entered EXCEPT ![t] = Append(@, entry)]
      /\ \A u \in Txn : chars'[u] = chars[u] \/ chars'[u] = entry.val
      /\ pc' = [pc EXCEPT ![t] = "compare"]
      /\ ptc' = ptc /\ verdict' = verdict
  BY DEF ReturnPin, Goto
<1>. HIDE DEF entry
<1>2. entered'[t] = Append(entered[t], entry)
  BY <1>1
<1>3. ToSet(entered'[t]) = ToSet(entered[t]) \cup {entry}
  BY <1>1, <1>2, ToSetAppend
<1>4. entry.val \in Returned'
  BY <1>3 DEF Returned
<1>5. Returned \subseteq Returned'
  <2>1. \A u \in Txn : ToSet(entered[u]) \subseteq ToSet(entered'[u])
    BY <1>1, <1>3
  <2>. QED
    BY <2>1 DEF Returned
<1>6. ASSUME NEW u \in Txn
      PROVE  /\ chars'[u] # Garbage => chars'[u] \in Returned'
             /\ pc'[u] \in Settling => pc[u] \in Settling
  BY <1>1, <1>4, <1>5 DEF TraceInv, Settling
<1>. QED
  BY <1>1, <1>5, <1>6 DEF TraceInv

LEMMA CompareTrace ==
    ASSUME CoreTypes, TraceInv, NEW t \in Txn, Compare(t)
    PROVE  TraceInv'
<1>. USE DEF CoreTypes
<1>1. PICK seen \in {chars[t]} \cup {Garbage} :
         LET left == IF Accepted(seen) THEN ptc[t] ELSE ptc[t] - 1
         IN  /\ ptc' = [ptc EXCEPT ![t] = left]
             /\ Goto(t, IF Again(Accepted(seen), left) THEN "enter"
                                                       ELSE "report")
  BY DEF Compare
<1>2. chars' = chars /\ verdict' = verdict /\ entered' = entered
  BY DEF Compare
<1>3. pc[t] = "compare" /\ ptc[t] \in 1..Tries
  BY DEF Compare, At, Settling
<1>4. seen = SecretPin => SecretPin \in Returned
  BY <1>1 DEF TraceInv
<1>5. pc'[t] \in Settling /\ ptc'[t] > 0 => seen = SecretPin
  BY <1>1, <1>3 DEF Accepted, Again, Goto, Settling
<1>6. \A u \in Txn \ {t} : pc'[u] = pc[u] /\ ptc'[u] = ptc[u]
  BY <1>1 DEF Goto
<1>7. Returned' = Returned
  BY <1>2 DEF Returned
<1>8. ASSUME NEW u \in Txn, pc'[u] \in Settling, ptc'[u] > 0
      PROVE  SecretPin \in Returned
  <2>1. CASE u = t
    BY <1>4, <1>5, <1>8, <2>1
  <2>2. CASE u # t
    BY <1>6, <1>8, <2>2 DEF TraceInv
  <2>. QED
    BY <2>1, <2>2
<1>. QED
  BY <1>2, <1>7, <1>8 DEF TraceInv

LEMMA ReportTrace ==
    ASSUME CoreTypes, TraceInv, NEW t \in Txn, Report(t)
    PROVE  TraceInv'
<1>1. /\ pc[t] = "report" /\ pc' = [pc EXCEPT ![t] = "posted"]
      /\ verdict' = [verdict EXCEPT ![t] = IF ptc[t] > 0 THEN "approved"
                                                         ELSE "declined"]
      /\ ptc' = ptc /\ entered' = entered /\ chars' = chars
  BY DEF Report, VerdictOf, At, Goto
<1>2. Returned' = Returned
  BY <1>1 DEF Returned
<1>. QED
  BY <1>1, <1>2 DEF TraceInv, Settling, CoreTypes

(* Every other step: no history changes, and no thread leaves the loop.    *)
LEMMA QuietTrace ==
    ASSUME TraceInv,
           \A u \in Txn : /\ ptc'[u] = ptc[u] /\ chars'[u] = chars[u]
                          /\ entered'[u] = entered[u] /\ verdict'[u] = verdict[u]
                          /\ pc'[u] \in Settling => pc[u] \in Settling
    PROVE  TraceInv'
<1>1. Returned' = Returned
  BY DEF Returned
<1>. QED
  BY <1>1 DEF TraceInv

LEMMA NextTrace ==
    ASSUME TypeInv, TraceInv, [Next]_vars
    PROVE  TraceInv'
<1>1. CASE \E t \in Txn : Deciding(t)
  BY <1>1, TypeIsCore, ReturnPinTrace, CompareTrace, ReportTrace DEF Deciding
<1>2. CASE ~ \E t \in Txn : Deciding(t)
  <2>1. \A u \in Txn : SameProgress(u) /\ chars'[u] = chars[u]
    BY <1>2, QuietSteps
  <2>. QED
    BY <2>1, QuietTrace DEF SameProgress, Phase, Settling
<1>. QED
  BY <1>1, <1>2

(* However freed characters are reused, a transaction approves only if the *)
(* secret PIN was returned to it or to another one.                        *)
THEOREM ApprovalTraceable == Spec => []ApprovalIsTraceable
<1>1. Init => TypeInv /\ TraceInv
  BY InitType, InitTrace
<1>2. TypeInv /\ TraceInv /\ [Next]_vars => TypeInv' /\ TraceInv'
  BY NextType, NextTrace
<1>3. TraceInv => ApprovalIsTraceable
  BY DEF TraceInv, Returned, ApprovalIsTraceable
<1>. QED
  BY <1>1, <1>2, <1>3, PTL DEF Spec

-----------------------------------------------------------------------------
(* A pad counts as opened from its launch on, for ever, and as spent when  *)
(* its thread no longer waits for it.                                      *)
Unopened == {"idle", "spawned", "enter", "lock"}
Parked   == {"launched", "waiting"}

Opened(p) ==
    \/ p[2] > ptc[p[1]]
    \/ p[2] = ptc[p[1]] /\ pc[p[1]] \notin Unopened

Spent(p) ==
    \/ p[2] > ptc[p[1]]
    \/ p[2] = ptc[p[1]] /\ pc[p[1]] \notin Unopened \cup Parked

(* A pad only ever goes from one to the next.                              *)
PadsAge == \A p \in Pad : (Opened(p) => Opened(p)') /\ (Spent(p) => Spent(p)')

Advances(u) ==
    \/ ptc'[u] < ptc[u]
    \/ /\ ptc'[u] = ptc[u]
       /\ pc[u] \notin Unopened => pc'[u] \notin Unopened
       /\ pc[u] \notin Unopened \cup Parked => pc'[u] \notin Unopened \cup Parked

LEMMA AdvancingAges ==
    ASSUME CoreTypes, CoreTypes', \A u \in Txn : Advances(u)
    PROVE  PadsAge
<1>. SUFFICES ASSUME NEW p \in Pad
              PROVE  (Opened(p) => Opened(p)') /\ (Spent(p) => Spent(p)')
  BY DEF PadsAge
<1>. DEFINE u == p[1]
<1>1. /\ u \in Txn /\ p[2] \in 1..Tries
      /\ ptc[u] \in 0..Tries /\ ptc'[u] \in 0..Tries
  BY DEF Pad, CoreTypes
<1>. QED
  BY <1>1 DEF Opened, Spent, Advances

LEMMA CompareAdvances ==
    ASSUME CoreTypes, NEW t \in Txn, Compare(t), NEW u \in Txn
    PROVE  Advances(u)
<1>1. PICK seen : LET left == IF Accepted(seen) THEN ptc[t] ELSE ptc[t] - 1
                  IN  /\ ptc' = [ptc EXCEPT ![t] = left]
                      /\ Goto(t, IF Again(Accepted(seen), left)
                                 THEN "enter" ELSE "report")
  BY DEF Compare
<1>2. ptc[t] \in 0..Tries /\ pc[t] = "compare"
  BY DEF Compare, At, CoreTypes
<1>. QED
  BY <1>1, <1>2 DEF Again, Goto, Advances, Unopened, Parked,
     CoreTypes

LEMMA NextAges ==
    ASSUME TypeInv, [Next]_vars
    PROVE  PadsAge
<1>1. ASSUME NEW u \in Txn
      PROVE  Advances(u)
  <2>. USE DEF TypeInv, TypeOK, Unopened, Parked, Advances, At, Goto, thread,
               activity, windows
  <2>1. ASSUME NEW t \in Txn, ThreadStep(t), ~Compare(t)
        PROVE  Advances(u)
    BY <2>1 DEF ThreadStep, ParseTrd, RejectTrd, EnterPin, Launch,
         LaunchThrows, Wait, Reacquire, ReturnPin, Report
  <2>2. CASE UiStep
    BY <2>2 DEF UiStep, PadThrows, ResumeMain, OnResultOk,
         OnResultCancelled, NotifyAll, ShowToast
  <2>3. CASE Environment
    BY <2>3 DEF Environment, StartTransaction, AttachFails,
         SpuriousWakeup, PressOk, PressBack, CloseTopPad, RecreateMain
  <2>4. CASE UNCHANGED vars
    BY <2>4 DEF vars
  <2>. QED
    BY <2>1, <2>2, <2>3, <2>4, TypeIsCore, CompareAdvances DEF Next
<1>2. CoreTypes /\ CoreTypes'
  BY NextType DEF TypeInv, TypeOK, AttemptLeft, CoreTypes
<1>. QED
  BY <1>1, <1>2, AdvancingAges

-----------------------------------------------------------------------------
(* Wake-ups.  From the launch of its pad on, and not only from the wait, a *)
(* thread of the current activity has its answer ahead of it; a thread     *)
(* inside launch keeps notifyAll from passing it by.  A result that tells  *)
(* of no PIN is one of Back, or of no interest to its thread any more.     *)

Expected(t) ==
    \/ OnItsWay(<<t, ptc[t]>>)
    \/ <<t, ptc[t]>> \in cancelled
    \/ ui = "notifying"

WaitInv ==
    /\ \A t \in Txn : thiz[t] <= cur
    /\ \A r \in ToSet(results) \cup ToSet(batch) :
          /\ r.entry.pad \in Pad
          /\ ~r.ok => r.entry.pad \in cancelled \/ Spent(r.entry.pad)
    /\ Alive => \A t \in Txn :
          pc[t] \in Parked /\ thiz[t] = cur => Expected(t)

LEMMA InitWait == Init => WaitInv
  BY ToSetEmpty DEF Init, WaitInv, Parked, Inst

(* Most steps leave the windows alone and park no thread.                  *)
NothingParked ==
    /\ UNCHANGED <<cur, windows>>
    /\ ui' = ui \/ ui' = "dead"
    /\ \A u \in Txn :
          \/ /\ pc'[u] \in Parked => pc[u] \in Parked
             /\ thiz'[u] = thiz[u]
             /\ ptc'[u] = ptc[u]
          \/ /\ pc'[u] \notin Parked
             /\ thiz'[u] \in {thiz[u], cur}

LEMMA NothingParkedKeeps ==
    ASSUME CoreTypes, WaitInv, PadsAge, NothingParked
    PROVE  WaitInv'
<1>1. ASSUME NEW u \in Txn
      PROVE  thiz'[u] <= cur'
  <2>1. cur' = cur /\ cur \in Nat /\ thiz[u] <= cur
    BY DEF NothingParked, WaitInv, CoreTypes, Inst
  <2>2. thiz'[u] = thiz[u] \/ thiz'[u] = cur
    BY DEF NothingParked
  <2>. QED
    BY <2>1, <2>2
<1>2. ASSUME NEW u \in Txn, Alive', pc'[u] \in Parked, thiz'[u] = cur'
      PROVE  Expected(u)'
  <2>1. Alive /\ pc[u] \in Parked /\ thiz[u] = cur /\ ptc'[u] = ptc[u]
    BY <1>2 DEF NothingParked, Alive
  <2>2. Expected(u) /\ ui' = ui
    BY <1>2, <2>1 DEF WaitInv, NothingParked, Alive
  <2>. QED
    BY <2>1, <2>2 DEF Expected, OnItsWay, NothingParked, windows
<1>. QED
  BY <1>1, <1>2 DEF WaitInv, PadsAge, NothingParked, windows

LEMMA QuietWait ==
    ASSUME TypeInv, WaitInv, [Next]_vars,
           ~ \E t \in Txn : Launch(t),
           ~ \E v \in Pins : PressOk(v),
           ~(PressBack \/ ResumeMain \/ OnResultOk \/ OnResultCancelled
                \/ NotifyAll \/ RecreateMain)
    PROVE  NothingParked
<1>. USE DEF TypeInv, TypeOK, NothingParked, Parked, At, Goto, thread,
             activity, windows
<1>1. ASSUME NEW t \in Txn, ThreadStep(t)
      PROVE  NothingParked
  <2>1. CASE Compare(t)
    <3>1. /\ pc[t] = "compare" /\ pc'[t] \in {"enter", "report"}
          /\ \A u \in Txn \ {t} : pc'[u] = pc[u] /\ ptc'[u] = ptc[u]
          /\ thiz' = thiz /\ cur' = cur /\ ui' = ui
          /\ UNCHANGED windows
      BY <2>1 DEF Compare
    <3>. QED
      BY <3>1
  <2>. QED
    BY <1>1, <2>1 DEF ThreadStep, ParseTrd, RejectTrd, EnterPin, LaunchThrows,
                      Wait, Reacquire, ReturnPin, Report
<1>2. CASE UiStep
  BY <1>2 DEF UiStep, PadThrows, ShowToast
<1>3. CASE Environment
  BY <1>3 DEF Environment, StartTransaction, AttachFails, SpuriousWakeup
<1>4. CASE UNCHANGED vars
  BY <1>4 DEF vars
<1>. QED
  BY <1>1, <1>2, <1>3, <1>4 DEF Next

LEMMA LaunchWait ==
    ASSUME CoreTypes, WaitInv, PadsAge, NEW t \in Txn, Launch(t)
    PROVE  WaitInv'
<1>. USE DEF CoreTypes
<1>1. <<t, ptc[t]>> \in Pad
  BY DEF Launch, At, Settling, Pad
<1>2. /\ ToSet(stack') = ToSet(stack) \cup {<<t, ptc[t]>>}
      /\ pc' = [pc EXCEPT ![t] = "launched"]
      /\ UNCHANGED <<ptc, thiz, cur, results, batch, cancelled, ui>>
  BY <1>1, ToSetAppend DEF Launch, Goto, thread, activity
<1>3. ASSUME NEW u \in Txn, Alive', pc'[u] \in Parked, thiz'[u] = cur'
      PROVE  Expected(u)'
  <2>1. CASE u = t
    BY <1>2, <2>1 DEF Expected, OnItsWay
  <2>2. CASE u # t
    BY <1>2, <1>3, <2>2 DEF Expected, OnItsWay, WaitInv, Alive
  <2>. QED
    BY <2>1, <2>2
<1>. QED
  BY <1>2, <1>3 DEF WaitInv, PadsAge

(* A closed pad goes on as a result, which Back marks as cancelled.        *)
LEMMA CloseWait ==
    ASSUME CoreTypes, WaitInv, PadsAge, NEW ok \in BOOLEAN, NEW v \in Pins,
           CloseTopPad(ok, v), cancelled \subseteq cancelled',
           ok \/ Last(stack) \in cancelled'
    PROVE  WaitInv'
<1>. DEFINE r == [ok |-> ok, entry |-> [val |-> v, pad |-> Last(stack)]]
<1>1. /\ Last(stack) \in Pad
      /\ ToSet(stack) = ToSet(stack') \cup {Last(stack)}
  BY FrontLast, ToSetFront DEF CloseTopPad, CoreTypes
<1>2. r \in Result
  BY <1>1 DEF Result, Entry
<1>3. ToSet(results') = ToSet(results) \cup {r}
  BY <1>2, ToSetAppend DEF CloseTopPad, CoreTypes
<1>4. UNCHANGED <<pc, ptc, thiz, cur, batch, ui>>
  BY DEF CloseTopPad, thread, activity
<1>5. r.ok = ok /\ r.entry.pad = Last(stack)
  OBVIOUS
<1>. HIDE DEF r
<1>6. ASSUME NEW u \in Txn, Alive', pc'[u] \in Parked, thiz'[u] = cur'
      PROVE  Expected(u)'
  <2>1. Expected(u)
    BY <1>4, <1>6 DEF WaitInv, Alive
  <2>. QED
    BY <1>1, <1>3, <1>4, <1>5, <2>1 DEF Expected, OnItsWay
<1>. QED
  BY <1>1, <1>3, <1>4, <1>5, <1>6 DEF WaitInv, PadsAge

LEMMA CallbackWait ==
    ASSUME CoreTypes, WaitInv, PadsAge,
           ResumeMain \/ OnResultOk \/ OnResultCancelled \/ NotifyAll
    PROVE  WaitInv'
<1>. USE DEF CoreTypes
<1>1. CASE ResumeMain
  <2>1. /\ ToSet(results') = {} /\ ToSet(batch') = ToSet(results)
        /\ ToSet(batch) = {}
        /\ UNCHANGED <<pc, ptc, thiz, cur, stack, cancelled, ui>>
    BY <1>1, ToSetEmpty DEF ResumeMain, UiIdle, thread, activity
  <2>. QED
    BY <2>1 DEF WaitInv, PadsAge, Expected, OnItsWay, Alive
<1>2. CASE OnResultOk
  <2>1. /\ ToSet(batch') \subseteq ToSet(batch) /\ ui' = "notifying"
        /\ UNCHANGED <<pc, ptc, thiz, cur, results, cancelled>>
    BY <1>2, ToSetTail DEF OnResultOk, thread
  <2>2. ui = "looper"
    BY <1>2 DEF OnResultOk
  <2>. QED
    BY <2>1, <2>2 DEF WaitInv, PadsAge, Expected, Alive
<1>3. CASE OnResultCancelled
  <2>. DEFINE p == Head(batch).entry.pad
  <2>1. /\ ToSet(batch) = ToSet(batch') \cup {Head(batch)} /\ ~Head(batch).ok
        /\ UNCHANGED <<pc, ptc, thiz, cur, stack, results, cancelled, ui>>
    BY <1>3, ToSetTail DEF OnResultCancelled, thread, activity
  <2>2. p \in cancelled \/ Spent(p)
    BY <2>1 DEF WaitInv
  <2>3. ASSUME NEW u \in Txn, pc[u] \in Parked, p = <<u, ptc[u]>>
        PROVE  p \in cancelled
    <3>1. ~Spent(<<u, ptc[u]>>)
      BY <2>3 DEF Spent
    <3>. QED
      BY <2>2, <2>3, <3>1
  <2>. HIDE DEF p
  <2>4. ASSUME NEW u \in Txn, pc[u] \in Parked, Expected(u)
        PROVE  Expected(u)'
    BY <2>1, <2>3, <2>4 DEF Expected, OnItsWay, p
  <2>. QED
    BY <2>1, <2>4 DEF WaitInv, PadsAge, Alive
<1>4. CASE NotifyAll
  <2>1. \A u \in Txn : pc'[u] \in Parked => thiz[u] # cur
    BY <1>4 DEF NotifyAll, MonitorFree, Parked
  <2>2. UNCHANGED <<ptc, thiz, cur, stack, results, batch, cancelled>>
    BY <1>4 DEF NotifyAll, thread, activity, windows
  <2>. QED
    BY <2>1, <2>2 DEF WaitInv, PadsAge
<1>. QED
  BY <1>1, <1>2, <1>3, <1>4

(* A new MainActivity: nobody waits on its monitor yet.                    *)
LEMMA NewMainWait ==
    ASSUME CoreTypes, WaitInv, PadsAge, cur' = cur + 1,
           UNCHANGED <<thiz, results, batch, cancelled>>
    PROVE  WaitInv'
<1>1. cur \in Nat /\ \A u \in Txn : thiz[u] \in Nat
  BY DEF CoreTypes, Inst
<1>2. \A u \in Txn : thiz'[u] <= cur' /\ thiz'[u] # cur'
  BY <1>1 DEF WaitInv
<1>. QED
  BY <1>2 DEF WaitInv, PadsAge

LEMMA NextWait ==
    ASSUME TypeInv, WaitInv, [Next]_vars
    PROVE  WaitInv'
<1>. CoreTypes /\ PadsAge
  BY TypeIsCore, NextAges
<1>1. ASSUME NEW v \in Pins, PressOk(v)
      PROVE  WaitInv'
  BY <1>1, CloseWait DEF PressOk
<1>2. CASE PressBack
  BY <1>2, TransactionAssumption, CloseWait DEF PressBack
<1>3. CASE RecreateMain
  BY <1>3, NewMainWait DEF RecreateMain, thread, windows
<1>. QED
  BY <1>1, <1>2, <1>3, CallbackWait, LaunchWait, QuietWait, NothingParkedKeeps

(* No wake-up is lost, with any number of transactions on one activity,    *)
(* spurious wake-ups and recreations: a thread in wait() has its answer    *)
(* still ahead of it, unless the user refused to give it.                  *)
THEOREM NoLostWakeup == Spec => []WaitIsJustified
<1>1. Init => TypeInv /\ WaitInv
  BY InitType, InitWait
<1>2. TypeInv /\ WaitInv /\ [Next]_vars => TypeInv' /\ WaitInv'
  BY NextType, NextWait
<1>3. WaitInv => WaitIsJustified
  BY DEF WaitInv, WaitIsJustified, Parked, Expected
<1>. QED
  BY <1>1, <1>2, <1>3, PTL DEF Spec
=============================================================================
