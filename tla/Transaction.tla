----------------------------- MODULE Transaction -----------------------------
(***************************************************************************)
(* A payment transaction of fclient.  MainActivity.transaction starts a    *)
(* detached native thread (native-lib.cpp); the thread parses the TRD and  *)
(* calls MainActivity.enterPIN up to Tries times; enterPIN opens a PIN pad *)
(* window and waits on the activity's monitor; the result of the window    *)
(* comes back on the UI thread in onActivityResult, which stores the PIN   *)
(* in a field and notifies the monitor; the native thread compares the PIN *)
(* and finally calls transactionResult, which posts a toast.               *)
(*                                                                         *)
(* Several transactions may be in flight: transaction returns at once and  *)
(* nothing in the code waits for the previous one.  They share the field   *)
(* pin, the monitor and the task's stack of windows.                       *)
(***************************************************************************)
EXTENDS Naturals, FiniteSets, Sequences, SequencesExt, Trd

CONSTANTS Txn,               \* the calls of MainActivity.transaction
          Trds,              \* the TRDs the callers may pass
          Pins,              \* the strings a user may type in a PIN pad
          EmptyPin,          \* the empty string, which is one of them
          SecretPin,         \* the PIN the native code accepts
          Garbage,           \* bytes of a foreign allocation, never a PIN
          NoPad,             \* "not typed in any PIN pad"
          Tries,             \* PIN attempts of one transaction
          MaxRecreations,    \* bound: how often MainActivity is recreated
          SpuriousWakeups,   \* may Object.wait return without a notify?
          HeapReuse          \* may freed PIN characters be overwritten?

(* A PIN pad is named by the transaction that opened it and the ptc extra  *)
(* of its Intent; a transaction never opens two pads with the same ptc.    *)
Pad  == Txn \X (1..Tries)
Inst == 0..MaxRecreations

ASSUME TransactionAssumption ==
    /\ EmptyPin \in Pins /\ SecretPin \in Pins /\ EmptyPin # SecretPin
    /\ Garbage \notin Pins /\ NoPad \notin Pad
    /\ Tries \in Nat \ {0} /\ MaxRecreations \in Nat
    /\ SpuriousWakeups \in BOOLEAN /\ HeapReuse \in BOOLEAN

ASSUME TrdAssumption == Trds \subseteq Seq(Byte)

VARIABLES
    pc,        \* where the native thread of each transaction is
    ptc,       \* its local ptc: attempts left, this one included
    trd,       \* the TRD its caller passes
    thiz,      \* the MainActivity instance it was called on
    chars,     \* what its freed copy of the PIN characters now holds
    entered,   \* history: what enterPIN returned to it, call by call
    compared,  \* history: what its strcmp read, call by call
    verdict,   \* what it passed to transactionResult
    pin,       \* the field pin of each MainActivity instance
    cur,       \* the MainActivity instance the framework talks to
    stack,     \* open PIN pads above MainActivity, the visible one last
    results,   \* results of finished pads, waiting for MainActivity
    batch,     \* results MainActivity is being given, one callback each
    cancelled, \* history: pads left with the Back button
    ui         \* the UI thread: at its looper, inside onActivityResult
               \* before notifyAll, or dead with the whole process

thread   == <<ptc, trd, thiz, chars, entered, compared, verdict>>
activity == <<pin, cur>>
windows  == <<stack, results, batch, cancelled>>
vars     == <<pc, thread, activity, windows, ui>>

(* A PIN string, tagged with the pad it was typed in (history).            *)
Entry   == [val : Pins, pad : Pad \cup {NoPad}]
NoEntry == [val |-> EmptyPin, pad |-> NoPad]
Result  == [ok : BOOLEAN, entry : Entry]
Chars   == Pins \cup {Garbage}

Verdicts == {"none", "approved", "declined"}
Pcs == {"idle", "spawned", "enter", "lock", "launched", "waiting", "woken",
        "return", "compare", "report", "posted", "done"}

TypeOK ==
    /\ pc \in [Txn -> Pcs]
    /\ ptc \in [Txn -> 0..Tries]
    /\ trd \in [Txn -> Trds]
    /\ thiz \in [Txn -> Inst]
    /\ chars \in [Txn -> Chars]
    /\ entered \in [Txn -> Seq(Entry)]
    /\ compared \in [Txn -> Seq(Chars)]
    /\ verdict \in [Txn -> Verdicts]
    /\ pin \in [Inst -> Entry]
    /\ cur \in Inst
    /\ stack \in Seq(Pad)
    /\ results \in Seq(Result)
    /\ batch \in Seq(Result)
    /\ cancelled \subseteq Pad
    /\ ui \in {"looper", "notifying", "dead"}

Init ==
    /\ pc = [t \in Txn |-> "idle"]
    /\ ptc = [t \in Txn |-> Tries]
    /\ trd \in [Txn -> Trds]
    /\ thiz = [t \in Txn |-> 0]
    /\ chars = [t \in Txn |-> Garbage]
    /\ entered = [t \in Txn |-> <<>>]
    /\ compared = [t \in Txn |-> <<>>]
    /\ verdict = [t \in Txn |-> "none"]
    /\ pin = [i \in Inst |-> NoEntry]
    /\ cur = 0
    /\ stack = <<>> /\ results = <<>> /\ batch = <<>> /\ cancelled = {}
    /\ ui = "looper"

Alive == ui # "dead"
UiIdle == ui = "looper" /\ batch = <<>>

At(t, here) == Alive /\ pc[t] = here
Goto(t, there) == pc' = [pc EXCEPT ![t] = there]

(* What the properties are there to exclude: the code with one plausible   *)
(* mistake in it each.  None of these is part of the model.                *)
AcceptedPrefix(seen) == seen \in {SecretPin, EmptyPin}  \* strncmp for strcmp
AgainUnbounded(right, left) == ~right                   \* no ptc > 0
AgainNoBreak(right, left) == left > 0                   \* no break
VerdictOffByOne(left) == IF left >= 0 THEN "approved" ELSE "declined"
MonitorNeverHeld(i) == TRUE            \* startActivity before synchronized
MonitorHeldInWait(i) ==                \* sleep in place of wait
    \A t \in Txn : pc[t] \in {"launched", "waiting"} => thiz[t] # i

HintOfUsed(pad) == IF pad[2] \in {1, 2} THEN Tries - pad[2] ELSE 0

EnterPinNoReset(t) ==                  \* pin = new String() forgotten
    /\ At(t, "enter")
    /\ Goto(t, "lock")
    /\ UNCHANGED <<thread, activity, windows, ui>>

OnResultOkSilent ==                    \* notifyAll forgotten
    /\ ui = "looper" /\ batch # <<>> /\ Head(batch).ok
    /\ pin' = [pin EXCEPT ![cur] = Head(batch).entry]
    /\ batch' = Tail(batch)
    /\ UNCHANGED <<pc, thread, cur, stack, results, cancelled, ui>>

OnResultCancelledNotifies ==           \* the synchronized block outside the if
    /\ ui = "looper" /\ batch # <<>> /\ ~Head(batch).ok
    /\ batch' = Tail(batch)
    /\ ui' = "notifying"
    /\ UNCHANGED <<pc, thread, activity, stack, results, cancelled>>

(***************************************************************************)
(* The native thread.                                                      *)
(***************************************************************************)
(* MainActivity.transaction: pin the arguments, start the thread, return.  *)
StartTransaction(t) ==
    /\ At(t, "idle")
    /\ thiz' = [thiz EXCEPT ![t] = cur]
    /\ Goto(t, "spawned")
    /\ UNCHANGED <<ptc, trd, chars, entered, compared, verdict, activity,
                   windows, ui>>

(* getEnv attaches the thread to the VM, then the TRD is checked.          *)
ParseTrd(t) ==
    /\ At(t, "spawned")
    /\ WellFormed(trd[t])
    /\ Goto(t, "enter")
    /\ UNCHANGED <<thread, activity, windows, ui>>

(* A malformed TRD makes the thread function return while the thread is    *)
(* still attached: the VM aborts the process when such a thread exits.     *)
RejectTrd(t) ==
    /\ At(t, "spawned")
    /\ ~WellFormed(trd[t])
    /\ ui' = "dead"
    /\ UNCHANGED <<pc, thread, activity, windows>>

(* When the VM refuses to attach the thread, getEnv returns a null JNIEnv, *)
(* which the next line dereferences.                                       *)
AttachFails(t) ==
    /\ At(t, "spawned")
    /\ ui' = "dead"
    /\ UNCHANGED <<pc, thread, activity, windows>>

(* enterPIN starts by resetting the field, outside the synchronized block. *)
EnterPin(t) ==
    /\ At(t, "enter")
    /\ pin' = [pin EXCEPT ![thiz[t]] = NoEntry]
    /\ Goto(t, "lock")
    /\ UNCHANGED <<thread, cur, windows, ui>>

(* A thread holds the monitor of its activity between steps only while it  *)
(* is inside launch; wait and notifyAll release it in the step itself.     *)
MonitorFree(i) == \A t \in Txn : pc[t] = "launched" => thiz[t] # i

Launch(t) ==
    /\ At(t, "lock")
    /\ MonitorFree(thiz[t])
    /\ stack' = Append(stack, <<t, ptc[t]>>)
    /\ Goto(t, "launched")
    /\ UNCHANGED <<thread, activity, results, batch, cancelled, ui>>

(* An activity that was replaced has unregistered its launcher.  Depending *)
(* on the library and on whether a pad was open then, launch throws; the   *)
(* native code goes on with a null PIN and the exception pending, and the  *)
(* VM aborts the process.                                                  *)
LaunchThrows(t) ==
    /\ At(t, "lock")
    /\ MonitorFree(thiz[t])
    /\ thiz[t] # cur
    /\ ui' = "dead"
    /\ UNCHANGED <<pc, thread, activity, windows>>

Wait(t) ==
    /\ At(t, "launched")
    /\ Goto(t, "waiting")
    /\ UNCHANGED <<thread, activity, windows, ui>>

(* Object.wait is not in a loop: whatever wakes it ends the wait.          *)
SpuriousWakeup(t) ==
    /\ SpuriousWakeups
    /\ At(t, "waiting")
    /\ Goto(t, "woken")
    /\ UNCHANGED <<thread, activity, windows, ui>>

Reacquire(t) ==
    /\ At(t, "woken")
    /\ MonitorFree(thiz[t])
    /\ Goto(t, "return")
    /\ UNCHANGED <<thread, activity, windows, ui>>

(* enterPIN returns the field, read outside the synchronized block.  The   *)
(* native code copies its characters and frees the copy at once.  The copy *)
(* may be given memory that other threads freed and have still to compare. *)
ReturnPin(t) ==
    LET entry == pin[thiz[t]]
        freed == {u \in Txn \ {t} : HeapReuse /\ pc[u] = "compare"}
    IN  /\ At(t, "return")
        /\ entered' = [entered EXCEPT ![t] = Append(@, entry)]
        /\ \E reused \in SUBSET freed :
              chars' = [u \in Txn |-> IF u \in reused \cup {t} THEN entry.val
                                                              ELSE chars[u]]
        /\ Goto(t, "compare")
        /\ UNCHANGED <<ptc, trd, thiz, compared, verdict, activity, windows,
                       ui>>

(* strcmp reads the freed copy: the PIN, or what the heap made of it.  The *)
(* right PIN breaks out of the loop before ptc is counted down.  A copy    *)
(* that could not be made (utf = nullptr) counts as a wrong PIN: Garbage.  *)
Accepted(seen)     == seen = SecretPin
Again(right, left) == ~right /\ left > 0
VerdictOf(left)    == IF left > 0 THEN "approved" ELSE "declined"

Compare(t) ==
    /\ At(t, "compare")
    /\ \E seen \in {chars[t]} \cup {c \in {Garbage} : HeapReuse} :
          LET left == IF Accepted(seen) THEN ptc[t] ELSE ptc[t] - 1
          IN  /\ ptc' = [ptc EXCEPT ![t] = left]
              /\ compared' = [compared EXCEPT ![t] = Append(@, seen)]
              /\ Goto(t, IF Again(Accepted(seen), left) THEN "enter"
                                                        ELSE "report")
    /\ UNCHANGED <<trd, thiz, chars, entered, verdict, activity, windows, ui>>

(* transactionResult posts a Runnable to the UI thread; the native thread  *)
(* then drops its references, detaches from the VM and ends.               *)
Report(t) ==
    /\ At(t, "report")
    /\ verdict' = [verdict EXCEPT ![t] = VerdictOf(ptc[t])]
    /\ Goto(t, "posted")
    /\ UNCHANGED <<ptc, trd, thiz, chars, entered, compared, activity, windows,
                   ui>>

(***************************************************************************)
(* The UI thread and the user.                                             *)
(***************************************************************************)
ShowToast(t) ==
    /\ pc[t] = "posted" /\ UiIdle
    /\ Goto(t, "done")
    /\ UNCHANGED <<thread, activity, windows, ui>>

Amount(pad) == AmountText(trd[pad[1]])

(* The attempts left, as the window tells the user; 0 if it does not.      *)
Hint(pad) == IF pad[2] \in {1, 2} THEN pad[2] ELSE 0

(* PinpadActivity.onCreate parses the amount of the window it shows.       *)
PadThrows ==
    /\ UiIdle /\ stack # <<>>
    /\ ~IsLong(Amount(Last(stack)))
    /\ ui' = "dead"
    /\ UNCHANGED <<pc, thread, activity, windows>>

CloseTopPad(ok, v) ==
    /\ UiIdle /\ stack # <<>>
    /\ IsLong(Amount(Last(stack)))
    /\ stack' = Front(stack)
    /\ results' = Append(results,
                    [ok |-> ok, entry |-> [val |-> v, pad |-> Last(stack)]])
    /\ UNCHANGED <<pc, thread, activity, batch, ui>>

PressOk(v) == CloseTopPad(TRUE, v) /\ UNCHANGED cancelled

PressBack ==
    /\ CloseTopPad(FALSE, EmptyPin)
    /\ cancelled' = cancelled \cup {Last(stack)}

(* The framework keeps the results of closed windows until MainActivity is *)
(* on top again, and hands them over in one message, one callback each.    *)
ResumeMain ==
    /\ UiIdle /\ stack = <<>> /\ results # <<>>
    /\ batch' = results
    /\ results' = <<>>
    /\ UNCHANGED <<pc, thread, activity, stack, cancelled, ui>>

(* onActivityResult with RESULT_OK stores the PIN before it takes the lock *)
OnResultOk ==
    /\ ui = "looper" /\ batch # <<>> /\ Head(batch).ok
    /\ pin' = [pin EXCEPT ![cur] = Head(batch).entry]
    /\ batch' = Tail(batch)
    /\ ui' = "notifying"
    /\ UNCHANGED <<pc, thread, cur, stack, results, cancelled>>

(* ... and with any other code does nothing at all.                        *)
OnResultCancelled ==
    /\ ui = "looper" /\ batch # <<>> /\ ~Head(batch).ok
    /\ batch' = Tail(batch)
    /\ UNCHANGED <<pc, thread, activity, stack, results, cancelled, ui>>

NotifyAll ==
    /\ ui = "notifying"
    /\ MonitorFree(cur)
    /\ pc' = [t \in Txn |-> IF pc[t] = "waiting" /\ thiz[t] = cur
                            THEN "woken" ELSE pc[t]]
    /\ ui' = "looper"
    /\ UNCHANGED <<thread, activity, windows>>

(* A configuration change replaces MainActivity: a new object with a field *)
(* and a monitor of its own, which the pending results will go to.         *)
RecreateMain ==
    /\ UiIdle /\ cur < MaxRecreations
    /\ cur' = cur + 1
    /\ UNCHANGED <<pc, thread, pin, windows, ui>>

-----------------------------------------------------------------------------
(* What the scheduler runs of thread t ...                                 *)
ThreadStep(t) ==
    \/ ParseTrd(t) \/ RejectTrd(t) \/ EnterPin(t) \/ Launch(t)
    \/ LaunchThrows(t) \/ Wait(t) \/ Reacquire(t) \/ ReturnPin(t)
    \/ Compare(t) \/ Report(t)

(* ... and what the looper of the UI thread runs.                          *)
UiStep ==
    \/ PadThrows \/ ResumeMain \/ OnResultOk \/ OnResultCancelled \/ NotifyAll
    \/ \E t \in Txn : ShowToast(t)

Environment ==
    \/ \E t \in Txn : StartTransaction(t) \/ AttachFails(t) \/ SpuriousWakeup(t)
    \/ \E v \in Pins : PressOk(v)
    \/ PressBack
    \/ RecreateMain

Next == (\E t \in Txn : ThreadStep(t)) \/ UiStep \/ Environment

Spec == Init /\ [][Next]_vars

(* Threads and the looper keep running, and the user does not walk away    *)
(* from a visible PIN pad: one left open is closed in the end, by OK or by *)
(* Back.                                                                   *)
Fairness ==
    /\ \A t \in Txn : WF_vars(ThreadStep(t))
    /\ WF_vars(UiStep)
    /\ WF_vars(PressBack \/ \E v \in Pins : PressOk(v))

FairSpec == Spec /\ Fairness

-----------------------------------------------------------------------------
(* The verdict follows from the answers: a transaction approves exactly    *)
(* when the last PIN that enterPIN returned to it is the right one, and    *)
(* refuses exactly after Tries PINs that are all wrong.  This is the loop  *)
(* over ptc in native-lib.cpp, run while other threads share the field.    *)
(* An answer counts for another one only if the memory of its characters   *)
(* was used again between their release and strcmp.                        *)
Misread(t, k) == HeapReuse /\ compared[t][k] # entered[t][k].val

VerdictFollowsAnswers ==
    \A t \in Txn :
        LET n        == Len(entered[t])
            Right(k) == entered[t][k].val = SecretPin
        IN  /\ verdict[t] = "approved" => n > 0 /\ (Right(n) \/ Misread(t, n))
            /\ verdict[t] = "declined" =>
                  n = Tries /\ \A k \in 1..n : ~Right(k) \/ Misread(t, k)

(* The k-th answer of a transaction was typed in the k-th pad it opened.   *)
(* True of a transaction that has the activity to itself; two that overlap *)
(* share the field pin and one notifyAll, and it fails.                    *)
AnswersAreOwn ==
    \A t \in Txn : \A k \in DOMAIN entered[t] :
        entered[t][k].pad = <<t, Tries + 1 - k>>

(* What it takes for the answers to be own is that the calls of enterPIN   *)
(* take turns, whichever transactions make them: nothing else that two of  *)
(* them do at a time, on either side of a call, mixes their answers up.    *)
InEnterPin(t) == pc[t] \in {"lock", "launched", "waiting", "woken", "return"}

CallsTakeTurns == \A t, u \in Txn : InEnterPin(t) /\ InEnterPin(u) => t = u

TurnsKeepAnswers == []CallsTakeTurns => []AnswersAreOwn

(* The PIN pad says how many attempts are left, and says it exactly when   *)
(* one has failed.  True of a transaction on its own; when another one     *)
(* wakes its thread early, an open pad goes on showing the old number.     *)
HintIsTrue ==
    stack # <<>> =>
        LET t == Last(stack)[1]
        IN  Hint(Last(stack)) = IF entered[t] = <<>> THEN 0
                                ELSE Tries - Len(entered[t])

(* One answer of the user is never charged against two attempts of the     *)
(* same transaction, whoever wakes it and whenever: the reset at the start *)
(* of enterPIN is there for this.                                          *)
AnswerChargedOnce ==
    \A t \in Txn : \A j, k \in DOMAIN entered[t] :
        entered[t][j].pad = entered[t][k].pad /\ j # k
            => entered[t][j].pad = NoPad

(* No wake-up is lost.  A thread in wait() on the current activity always  *)
(* has its answer still ahead of it: its pad is open, or its result is on  *)
(* the way, or a notifyAll is due, or the user left that pad with Back     *)
(* (which onActivityResult ignores).  Launching inside synchronized and    *)
(* notifying under the same monitor is what guarantees it.                 *)
OnItsWay(pad) ==
    \/ pad \in ToSet(stack)
    \/ \E r \in ToSet(results) \cup ToSet(batch) : r.entry.pad = pad

WaitIsJustified ==
    Alive => \A t \in Txn :
        pc[t] = "waiting" /\ thiz[t] = cur =>
            \/ OnItsWay(<<t, ptc[t]>>)
            \/ <<t, ptc[t]>> \in cancelled
            \/ ui = "notifying"

(* Long.valueOf throws, on the UI thread, for the pads whose TRD carries   *)
(* no decimal amount, and for no others: the native code opens no pad for  *)
(* a TRD of another form, and makes a digit of each decimal half byte.     *)
AmountIsRead ==
    \A pad \in ToSet(stack) : IsLong(Amount(pad)) <=> Decimal(trd[pad[1]])

(* Freed PIN characters can make one transaction approve on another one's  *)
(* PIN, but never on a PIN that nobody entered.                            *)
ApprovalIsTraceable ==
    \A t \in Txn : verdict[t] = "approved" =>
        \E u \in Txn : \E e \in ToSet(entered[u]) : e.val = SecretPin

(* The verdict is the one PinVerification computes from what strcmp read,  *)
(* whether or not that was what enterPIN returned.                         *)
PV == INSTANCE PinVerification WITH Pins <- Chars, answers <- compared

ImplementsPinVerification == PV!Spec

(* Every transaction shows its result, unless the user leaves one of its   *)
(* pads with Back, MainActivity is recreated under it, or the process dies *)
(* of what makes it die: a thread that is not attached, or rejects its     *)
(* TRD; a launch from a replaced activity; a pad without a decimal amount. *)
Abandoned(t) == thiz[t] # cur \/ \E k \in 1..Tries : <<t, k>> \in cancelled

Fatal ==
    \/ \E t \in Txn : pc[t] = "spawned" \/ (pc[t] = "lock" /\ thiz[t] # cur)
    \/ stack # <<>> /\ ~Decimal(trd[Last(stack)[1]])

EveryTransactionReports ==
    \A t \in Txn :
        pc[t] = "spawned" ~>
            pc[t] = "done" \/ Abandoned(t) \/ (~Alive /\ Fatal)

(* The UI thread is never stuck in onActivityResult behind the monitor.    *)
UiThreadReturns == ui = "notifying" ~> ui # "notifying"

(* TransactionEvents.java says that enterPIN is given the number of the    *)
(* attempt; it is given the number of attempts left.                       *)
PtcIsAttemptNumber ==
    \A t \in Txn : pc[t] = "lock" => ptc[t] = Len(entered[t]) + 1

(* native-lib.cpp calls TRD 9F0206000000000100 an amount of one rouble, so *)
(* the number in a TRD counts kopecks; the PIN pad shows it as roubles.    *)
PadShowsAmount ==
    \A pad \in ToSet(stack) : IsLong(Amount(pad)) =>
        ShownKopecks(Amount(pad)) = LongValue(Amount(pad))
=============================================================================
