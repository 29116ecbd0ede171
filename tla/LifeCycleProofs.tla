-------------------------- MODULE LifeCycleProofs --------------------------
(***************************************************************************)
(* Theorems about LifeCycle, for any number of processes and transactions. *)
(***************************************************************************)
EXTENDS LifeCycle, AnswerProofs

USE TransactionAssumption, LifeCycleAssumption

LEMMA ThreadTypes ==
    ASSUME CoreTypes, NEW t \in Txn,
           ThreadStep(t) \/ AttachFails(t) \/ SpuriousWakeup(t)
    PROVE  CoreTypes'
<1>. USE DEF CoreTypes, Settling, Pcs, At, Goto, thread, activity, windows
<1>1. CASE EnterPin(t)
  BY <1>1 DEF EnterPin, Entry, NoEntry
<1>2. CASE Launch(t)
  <2>1. <<t, ptc[t]>> \in Pad
    BY <1>2 DEF Launch, Pad
  <2>2. stack' \in Seq(Pad)
    BY <1>2, <2>1, AppendProperties DEF Launch
  <2>. QED
    BY <1>2, <2>2 DEF Launch
<1>3. CASE ReturnPin(t)
  <2>1. Append(entered[t], pin[thiz[t]]) \in Seq(Entry)
    BY AppendProperties
  <2>2. entered' \in [Txn -> Seq(Entry)]
    BY <1>3, <2>1 DEF ReturnPin
  <2>3. pin[thiz[t]].val \in Pins
    BY DEF Entry
  <2>4. chars' \in [Txn -> Chars]
    BY <1>3, <2>3 DEF ReturnPin, Chars
  <2>. QED
    BY <1>3, <2>2, <2>4 DEF ReturnPin
<1>4. CASE Compare(t)
  <2>1. PICK seen \in {chars[t]} \cup {c \in {Garbage} : HeapReuse} :
            LET left == IF Accepted(seen) THEN ptc[t] ELSE ptc[t] - 1
            IN  /\ ptc' = [ptc EXCEPT ![t] = left]
                /\ compared' = [compared EXCEPT ![t] = Append(@, seen)]
                /\ Goto(t, IF Again(Accepted(seen), left) THEN "enter"
                                                          ELSE "report")
    BY <1>4 DEF Compare
  <2>2. ptc[t] \in 1..Tries
    BY <1>4 DEF Compare
  <2>3. seen \in Chars
    BY <2>1 DEF Chars
  <2>4. Append(compared[t], seen) \in Seq(Chars)
    BY <2>3, AppendProperties
  <2>5. compared' \in [Txn -> Seq(Chars)]
    BY <2>1, <2>4
  <2>. QED
    BY <1>4, <2>1, <2>2, <2>5 DEF Compare, Again
<1>5. CASE \/ ParseTrd(t) \/ RejectTrd(t) \/ LaunchThrows(t) \/ Wait(t)
           \/ Reacquire(t) \/ Report(t) \/ AttachFails(t) \/ SpuriousWakeup(t)
  BY <1>5 DEF ParseTrd, RejectTrd, LaunchThrows, Wait, Reacquire, Report,
              AttachFails, SpuriousWakeup, VerdictOf, Verdicts
<1>. QED
  BY <1>1, <1>2, <1>3, <1>4, <1>5 DEF ThreadStep

LEMMA CallbackTypes ==
    ASSUME CoreTypes,
           \/ ResumeMain \/ OnResultOk \/ OnResultCancelled \/ NotifyAll
           \/ \E t \in Txn : ShowToast(t)
    PROVE  CoreTypes'
<1>. USE DEF CoreTypes, Settling, Pcs, Goto, thread, activity, windows
<1>1. CASE ResumeMain
  BY <1>1, EmptySeq DEF ResumeMain
<1>2. CASE OnResultOk
  <2>1. Head(batch) \in Result /\ Tail(batch) \in Seq(Result)
    BY <1>2, HeadTailProperties DEF OnResultOk
  <2>. QED
    BY <1>2, <2>1 DEF OnResultOk, Result
<1>3. CASE OnResultCancelled
  BY <1>3, HeadTailProperties DEF OnResultCancelled
<1>4. CASE NotifyAll
  BY <1>4 DEF NotifyAll
<1>5. ASSUME NEW t \in Txn, ShowToast(t)
      PROVE  CoreTypes'
  BY <1>5 DEF ShowToast
<1>. QED
  BY <1>1, <1>2, <1>3, <1>4, <1>5

LEMMA ClosePadTypes ==
    ASSUME CoreTypes, ClosePad
    PROVE  CoreTypes'
<1>1. PICK ok \in BOOLEAN, v \in Pins : CloseTopPad(ok, v)
  BY DEF ClosePad, PressOk, PressBack
<1>2. Last(stack) \in Pad /\ Front(stack) \in Seq(Pad)
  BY <1>1, FrontLast DEF CloseTopPad, CoreTypes
<1>3. [ok |-> ok, entry |-> [val |-> v, pad |-> Last(stack)]] \in Result
  BY <1>2 DEF Result, Entry
<1>4. results' \in Seq(Result)
  BY <1>1, <1>3, AppendProperties DEF CloseTopPad, CoreTypes
<1>. QED
  BY <1>1, <1>2, <1>4 DEF CloseTopPad, CoreTypes, thread, activity

LEMMA ProcessTypes ==
    ASSUME CoreTypes, Kill \/ Restart
    PROVE  CoreTypes'
<1>. USE DEF CoreTypes, Pcs, Settling
<1>1. Gone \in [Txn -> {"idle", "done", "gone"}]
  BY DEF Gone
<1>2. \A t \in Txn : Gone[t] \in {pc[t], "gone"}
  BY DEF Gone
<1>3. /\ pc' = Gone
      /\ UNCHANGED <<ptc, thiz, chars, entered, compared, verdict, pin, cur>>
  BY DEF Kill, Restart, thread, activity
<1>4. stack' \in Seq(Pad) /\ results' \in Seq(Result) /\ batch' \in Seq(Result)
  <2>1. CASE Kill
    BY <2>1 DEF Kill, windows
  <2>2. CASE Restart
    <3>1. batch' \in Seq(Result)
      BY <2>2, EmptySeq DEF Restart
    <3>2. ASSUME stack # <<>>
          PROVE  /\ Front(stack) \in Seq(Pad)
                 /\ Append(results, Dismissed(Last(stack))) \in Seq(Result)
      <4>1. Front(stack) \in Seq(Pad) /\ Last(stack) \in Pad
        BY <3>2, FrontLast
      <4>2. Dismissed(Last(stack)) \in Result
        BY <4>1 DEF Dismissed, Result, Entry
      <4>. QED
        BY <4>1, <4>2, AppendProperties
    <3>. QED
      BY <2>2, <3>1, <3>2, EmptySeq DEF Restart
  <2>. QED
    BY <2>1, <2>2
<1>. QED
  BY <1>1, <1>2, <1>3, <1>4

LEMMA NextTypes ==
    ASSUME CoreTypes, [LifeNext]_lifeVars
    PROVE  CoreTypes'
<1>. USE DEF CoreTypes
<1>1. CASE LooperStep
  <2>1. CASE CreateMain
    BY <2>1 DEF CreateMain, thread, windows, Inst
  <2>2. CASE FirstResume \/ ShowPad
    BY <2>2 DEF FirstResume, ShowPad, vars, thread, activity, windows
  <2>3. CASE PadCrashes \/ PadRejectsAmount
    BY <2>3 DEF PadCrashes, PadRejectsAmount, PadThrows, thread, activity, windows
  <2>. QED
    BY <1>1, <2>1, <2>2, <2>3, CallbackTypes DEF LooperStep
<1>2. CASE ClosePad
  BY <1>2, ClosePadTypes
<1>3. CASE Recreate
  BY <1>3 DEF Recreate, RecreateMain, thread, windows, Inst
<1>4. CASE Kill \/ Restart
  BY <1>4, ProcessTypes
<1>5. ASSUME NEW t \in Txn, Start(t)
      PROVE  CoreTypes'
  BY <1>5 DEF Start, StartTransaction, At, Goto, Pcs, Settling, activity, windows
<1>6. ASSUME NEW t \in Txn, ThreadStep(t) \/ AttachFails(t) \/ SpuriousWakeup(t)
      PROVE  CoreTypes'
  BY <1>6, ThreadTypes
<1>7. CASE Redraw \/ UNCHANGED lifeVars
  BY <1>7 DEF Redraw, lifeVars, vars, thread, activity, windows
<1>. QED
  BY <1>1, <1>2, <1>3, <1>4, <1>5, <1>6, <1>7 DEF LifeNext

LEMMA InitTypes == LifeInit => CoreTypes
  BY InitType DEF LifeInit, CoreTypes, TypeInv, TypeOK, AttemptLeft

-----------------------------------------------------------------------------
(* The generator.                                                          *)
LEMMA SeededIsNoKey ==
    ASSUME NEW s, NEW n \in Nat \ {0}
    PROVE  [seed |-> s, served |-> n] # NoKey
  BY DEF NoKey

LEMMA InitRngTypes ==
    ASSUME LifeTypeOK, InitRng
    PROVE  /\ rng' \in [seed : 0..seeds', served : 0..ReseedInterval]
           /\ rng' # NoKey /\ seeds' \in Nat /\ failures' \in Nat
  BY SeededIsNoKey DEF LifeTypeOK, InitRng

LEMMA RandomBytesTypes ==
    ASSUME LifeTypeOK, NEW pad \in Pad, rng # NoKey, RandomBytes(pad)
    PROVE  /\ rng' \in [seed : 0..seeds', served : 0..ReseedInterval]
           /\ rng' # NoKey /\ seeds' \in Nat /\ failures' \in Nat
           /\ keys' \in [Pad -> Request] /\ unfilled' \subseteq Pad
<1>. USE DEF LifeTypeOK
<1>1. rng \in Request /\ Leftover \in Request
  BY DEF Request
<1>2. CASE ServeRequest(pad)
  <2>1. rng' = [seed |-> rng.seed, served |-> rng.served + 1]
    BY <1>2 DEF ServeRequest
  <2>. QED
    BY <1>1, <1>2, <2>1, SeededIsNoKey DEF ServeRequest
<1>3. CASE Reseed(pad)
  BY <1>3, SeededIsNoKey DEF Reseed, Request
<1>4. CASE ReseedFails(pad)
  BY <1>1, <1>4 DEF ReseedFails
<1>. QED
  BY <1>2, <1>3, <1>4 DEF RandomBytes

LEMMA NextLifeType ==
    ASSUME CoreTypes, LifeTypeOK, [LifeNext]_lifeVars
    PROVE  LifeTypeOK'
<1>1. CASE CreateMain \/ Recreate
  BY <1>1, InitRngTypes DEF CreateMain, Recreate, process, LifeTypeOK
<1>2. CASE ShowPad \/ PadRejectsAmount
  <2>1. Last(stack) \in Pad /\ rng # NoKey /\ RandomBytes(Last(stack))
    BY <1>2, FrontLast DEF ShowPad, PadRejectsAmount, Unseen, CoreTypes
  <2>2. UNCHANGED <<main, boot, bootOf>> /\ shown' \subseteq shown \cup {Last(stack)}
    BY <1>2 DEF ShowPad, PadRejectsAmount, process
  <2>. QED
    BY <2>1, <2>2, RandomBytesTypes DEF LifeTypeOK
<1>3. CASE FirstResume \/ ClosePad \/ Redraw
  BY <1>3 DEF FirstResume, ClosePad, Redraw, generator, LifeTypeOK
<1>4. CASE Kill
  BY <1>4 DEF Kill, generator, LifeTypeOK
<1>5. CASE Restart
  BY <1>5 DEF Restart, Loaded, NoKey, LifeTypeOK
<1>6. ASSUME NEW t \in Txn, Start(t)
      PROVE  LifeTypeOK'
  BY <1>6 DEF Start, generator, LifeTypeOK
<1>7. CASE UNCHANGED life
  BY <1>7 DEF life, generator, process, LifeTypeOK
<1>8. CASE UNCHANGED lifeVars
  BY <1>8 DEF lifeVars, life, generator, process, LifeTypeOK
<1>. QED
  BY <1>1, <1>2, <1>3, <1>4, <1>5, <1>6, <1>7, <1>8
  DEF LifeNext, LooperStep, PadCrashes

LEMMA InitLifeType == LifeInit => LifeTypeOK
  BY DEF LifeInit, LifeTypeOK, NoKey, Request

(* The generator never runs on more requests than its reseed interval      *)
(* allows, and MainActivity never exists in a process that has not seeded  *)
(* it (initRng in onCreate).                                               *)
THEOREM LifeTypeCorrect == LifeSpec => []LifeTypeOK
<1>1. LifeInit => CoreTypes /\ LifeTypeOK
  BY InitTypes, InitLifeType
<1>2. CoreTypes /\ LifeTypeOK /\ [LifeNext]_lifeVars => CoreTypes' /\ LifeTypeOK'
  BY NextTypes, NextLifeType
<1>. QED
  BY <1>1, <1>2, PTL DEF LifeSpec

-----------------------------------------------------------------------------
(* The layouts of the pads.  A seed is used in one stretch, and the        *)
(* requests of a stretch are numbered; the zero key of a failed seeding is *)
(* used in as many stretches as seedings have failed.                      *)
Filled == Pad \ unfilled

NewRequest ==
    /\ \A p \in Filled : keys[p] # Leftover /\ keys[p].seed <= seeds
    /\ \A p \in Filled : keys[p].seed >= 1 /\ keys[p].seed = rng.seed
                            => keys[p].served < rng.served
    /\ \A p, q \in Filled : p # q /\ keys[p] = keys[q] => keys[p].seed < 1

NewZero ==
    /\ failures = 0 => \A p \in Filled : keys[p].seed >= 1 \/ keys[p] = NoKey
    /\ failures = 0 => rng.seed >= 1 \/ rng = NoKey
    /\ failures = 1 /\ rng # NoKey /\ rng.seed = 0 =>
          \A p \in Filled : keys[p].seed = 0 => keys[p].served < rng.served

KeysInv == NewRequest /\ NewZero /\ LayoutsDiffer

LEMMA InitKeys == LifeInit => KeysInv
  BY DEF LifeInit, KeysInv, NewRequest, NewZero, LayoutsDiffer, NoKey,
         Leftover, Filled

LEMMA FilledKeys ==
    ASSUME LifeTypeOK, NewRequest, NEW p \in Filled
    PROVE  keys[p].seed \in Nat /\ keys[p].served \in Nat
  BY DEF LifeTypeOK, NewRequest, Request, Filled

(* A request that is none of the earlier ones, or the first of its seed.   *)
LEMMA InitRngKeys ==
    ASSUME LifeTypeOK, KeysInv, InitRng, UNCHANGED <<keys, unfilled>>
    PROVE  KeysInv'
<1>. USE DEF LifeTypeOK, KeysInv
<1>. Filled' = Filled /\ NoKey' = NoKey /\ Leftover' = Leftover
  BY DEF Filled, NoKey, Leftover
<1>. \A p \in Filled : keys[p].seed \in Nat /\ keys[p].served \in Nat
  BY FilledKeys
<1>1. CASE /\ rng' = [seed |-> seeds + 1, served |-> 1]
           /\ seeds' = seeds + 1 /\ UNCHANGED failures
  <2>1. NewRequest'
    BY <1>1 DEF NewRequest
  <2>2. NewZero' /\ LayoutsDiffer'
    BY <1>1 DEF NewZero, LayoutsDiffer
  <2>. QED
    BY <2>1, <2>2
<1>2. CASE /\ rng' = [seed |-> 0, served |-> 1]
           /\ failures' = failures + 1 /\ UNCHANGED seeds
  <2>1. NewRequest'
    BY <1>2 DEF NewRequest
  <2>2. NewZero'
    <3>1. failures' # 0
      BY <1>2
    <3>2. ASSUME failures' = 1, NEW p \in Filled, keys[p].seed = 0
          PROVE  keys[p].served < 1
      <4>1. failures = 0 /\ (keys[p].seed >= 1 \/ keys[p] = NoKey)
        BY <1>2, <3>2 DEF NewZero
      <4>. QED
        BY <3>2, <4>1 DEF NoKey
    <3>. QED
      BY <1>2, <3>1, <3>2 DEF NewZero
  <2>3. LayoutsDiffer'
    BY <1>2 DEF LayoutsDiffer
  <2>. QED
    BY <2>1, <2>2, <2>3
<1>. QED
  BY <1>1, <1>2 DEF InitRng

LEMMA ServeRequestKeys ==
    ASSUME LifeTypeOK, KeysInv, NEW pad \in Pad, rng # NoKey, ServeRequest(pad)
    PROVE  KeysInv'
<1>. USE DEF LifeTypeOK, KeysInv
<1>. NoKey' = NoKey /\ Leftover' = Leftover
  BY DEF NoKey, Leftover
<1>1. /\ rng' = [seed |-> rng.seed, served |-> rng.served + 1]
      /\ rng.seed \in Nat /\ rng.served \in Nat /\ rng.seed <= seeds
      /\ keys'[pad] = rng /\ rng # Leftover
      /\ \A p \in Pad \ {pad} : keys'[p] = keys[p]
      /\ unfilled' = unfilled \ {pad}
      /\ UNCHANGED <<seeds, failures>>
  BY DEF ServeRequest, Leftover
<1>2. Filled' = Filled \cup {pad} /\ Filled \subseteq Pad
  BY <1>1 DEF Filled
<1>3. \A p \in Filled : keys[p].seed \in Nat /\ keys[p].served \in Nat
  BY FilledKeys
<1>4. ASSUME NEW p \in Filled, rng.seed >= 1 \/ failures <= 1
      PROVE  keys[p] # rng
  <2>1. CASE rng.seed >= 1
    BY <1>1, <1>3, <2>1 DEF NewRequest
  <2>2. CASE rng.seed = 0 /\ failures = 0
    BY <2>2 DEF NewZero
  <2>3. CASE rng.seed = 0 /\ failures = 1
    BY <1>1, <1>3, <2>3 DEF NewZero
  <2>. QED
    BY <1>1, <1>4, <2>1, <2>2, <2>3
<1>5. NewRequest'
  <2>1. \A p \in Filled' : keys'[p] # Leftover /\ keys'[p].seed <= seeds'
    BY <1>1, <1>2 DEF NewRequest
  <2>2. ASSUME NEW p \in Filled', keys'[p].seed >= 1, keys'[p].seed = rng'.seed
        PROVE  keys'[p].served < rng'.served
    <3>1. CASE p = pad
      BY <1>1, <3>1
    <3>2. CASE p # pad
      BY <1>1, <1>2, <1>3, <2>2, <3>2 DEF NewRequest
    <3>. QED
      BY <3>1, <3>2
  <2>3. ASSUME NEW p \in Filled', NEW q \in Filled', p # q,
               keys'[p] = keys'[q]
        PROVE  keys'[p].seed < 1
    BY <1>1, <1>2, <1>4, <2>3 DEF NewRequest
  <2>. QED
    BY <2>1, <2>2, <2>3 DEF NewRequest
<1>6. NewZero'
  <2>1. failures = 0 => rng.seed >= 1
    BY DEF NewZero
  <2>2. failures' = 0 =>
           \A p \in Filled' : keys'[p].seed >= 1 \/ keys'[p] = NoKey
    BY <1>1, <1>2, <2>1 DEF NewZero
  <2>3. failures' = 0 => rng'.seed >= 1
    BY <1>1, <2>1
  <2>4. ASSUME failures' = 1, rng'.seed = 0, NEW p \in Filled',
               keys'[p].seed = 0
        PROVE  keys'[p].served < rng'.served
    <3>1. CASE p = pad
      BY <1>1, <3>1
    <3>2. CASE p # pad
      BY <1>1, <1>2, <1>3, <2>4, <3>2 DEF NewZero
    <3>. QED
      BY <3>1, <3>2
  <2>. QED
    BY <2>2, <2>3, <2>4 DEF NewZero
<1>7. LayoutsDiffer'
  <2>1. ASSUME NEW p \in Filled', NEW q \in Filled', p # q,
               keys'[p] = keys'[q], keys'[p] # NoKey, failures <= 1
        PROVE  FALSE
    BY <1>1, <1>2, <1>4, <2>1 DEF LayoutsDiffer, Filled
  <2>. QED
    BY <1>1, <2>1 DEF LayoutsDiffer, Filled
<1>. QED
  BY <1>5, <1>6, <1>7

LEMMA ReseedKeys ==
    ASSUME LifeTypeOK, KeysInv, NEW pad \in Pad, Reseed(pad)
    PROVE  KeysInv'
<1>. USE DEF LifeTypeOK, KeysInv
<1>. NoKey' = NoKey /\ Leftover' = Leftover
  BY DEF NoKey, Leftover
<1>1. /\ rng' = [seed |-> seeds + 1, served |-> 1]
      /\ keys'[pad] = [seed |-> seeds + 1, served |-> 0]
      /\ \A p \in Pad \ {pad} : keys'[p] = keys[p]
      /\ unfilled' = unfilled \ {pad}
      /\ seeds' = seeds + 1 /\ seeds \in Nat /\ UNCHANGED failures
      /\ keys'[pad] # Leftover
  BY DEF Reseed, Leftover
<1>2. Filled' = Filled \cup {pad} /\ Filled \subseteq Pad
  BY <1>1 DEF Filled
<1>3. \A p \in Filled : keys[p].seed \in Nat /\ keys[p].seed <= seeds
  BY FilledKeys DEF NewRequest
<1>4. \A p \in Filled \ {pad} :
         keys'[p] # keys'[pad] /\ keys'[p].seed # seeds + 1
  BY <1>1, <1>2, <1>3
<1>5. NewRequest'
  <2>1. \A p \in Filled' : keys'[p] # Leftover /\ keys'[p].seed <= seeds'
    BY <1>1, <1>2, <1>3 DEF NewRequest
  <2>2. ASSUME NEW p \in Filled', keys'[p].seed >= 1, keys'[p].seed = rng'.seed
        PROVE  keys'[p].served < rng'.served
    BY <1>1, <1>2, <1>4, <2>2
  <2>3. ASSUME NEW p \in Filled', NEW q \in Filled', p # q,
               keys'[p] = keys'[q]
        PROVE  keys'[p].seed < 1
    BY <1>1, <1>2, <1>4, <2>3 DEF NewRequest
  <2>. QED
    BY <2>1, <2>2, <2>3 DEF NewRequest
<1>6. NewZero'
  BY <1>1, <1>2 DEF NewZero
<1>7. LayoutsDiffer'
  <2>1. ASSUME NEW p \in Filled', NEW q \in Filled', p # q,
               keys'[p] = keys'[q], keys'[p] # NoKey
        PROVE  failures > 1
    BY <1>1, <1>2, <1>4, <2>1 DEF LayoutsDiffer, Filled
  <2>. QED
    BY <1>1, <2>1 DEF LayoutsDiffer, Filled
<1>. QED
  BY <1>5, <1>6, <1>7

(* Bytes that the generator did not write concern no filled pad.           *)
LEMMA ReseedFailsKeys ==
    ASSUME LifeTypeOK, KeysInv, NEW pad \in Pad, ReseedFails(pad)
    PROVE  KeysInv'
<1>. USE DEF LifeTypeOK, KeysInv
<1>. NoKey' = NoKey /\ Leftover' = Leftover
  BY DEF NoKey, Leftover
<1>1. /\ \A p \in Pad \ {pad} : keys'[p] = keys[p]
      /\ unfilled' = unfilled \cup {pad}
      /\ UNCHANGED <<rng, seeds, failures>>
  BY DEF ReseedFails
<1>2. Filled' = Filled \ {pad} /\ Filled \subseteq Pad
  BY <1>1 DEF Filled
<1>3. NewRequest' /\ NewZero'
  BY <1>1, <1>2 DEF NewRequest, NewZero
<1>4. LayoutsDiffer'
  BY <1>1 DEF LayoutsDiffer
<1>. QED
  BY <1>3, <1>4

LEMMA NextKeys ==
    ASSUME CoreTypes, LifeTypeOK, KeysInv, [LifeNext]_lifeVars
    PROVE  KeysInv'
<1>1. CASE CreateMain \/ Recreate
  BY <1>1, InitRngKeys DEF CreateMain, Recreate
<1>2. CASE ShowPad \/ PadRejectsAmount
  <2>1. Last(stack) \in Pad /\ rng # NoKey /\ RandomBytes(Last(stack))
    BY <1>2, FrontLast DEF ShowPad, PadRejectsAmount, Unseen, CoreTypes
  <2>. QED
    BY <2>1, ServeRequestKeys, ReseedKeys, ReseedFailsKeys DEF RandomBytes
<1>3. CASE Restart
  <2>1. rng' = NoKey /\ UNCHANGED <<keys, unfilled, seeds, failures>>
    BY <1>3 DEF Restart, Loaded
  <2>. QED
    BY <2>1 DEF KeysInv, NewRequest, NewZero, LayoutsDiffer, NoKey, Leftover,
                Filled
<1>4. CASE UNCHANGED generator
  BY <1>4 DEF generator, KeysInv, NewRequest, NewZero, LayoutsDiffer, NoKey,
     Leftover, Filled
<1>. QED
  BY <1>1, <1>2, <1>3, <1>4 DEF LifeNext, LooperStep, FirstResume, PadCrashes,
     ClosePad, Redraw, Kill, Start, life, lifeVars

(* Two pads whose bytes the generator wrote are laid out from the same     *)
(* ones only after two seedings have failed, across any number of          *)
(* processes, recreations, redrawn pads and reseedings: one failure that   *)
(* initRng in native-lib.cpp passes over in silence is not enough.         *)
THEOREM LayoutsFresh == LifeSpec => []LayoutsDiffer
<1>1. LifeInit => CoreTypes /\ LifeTypeOK /\ KeysInv
  BY InitTypes, InitLifeType, InitKeys
<1>2. CoreTypes /\ LifeTypeOK /\ KeysInv /\ [LifeNext]_lifeVars
        => CoreTypes' /\ LifeTypeOK' /\ KeysInv'
  BY NextTypes, NextLifeType, NextKeys
<1>3. KeysInv => LayoutsDiffer
  BY DEF KeysInv
<1>. QED
  BY <1>1, <1>2, <1>3, PTL DEF LifeSpec

-----------------------------------------------------------------------------
(* The PINs that Android keeps over the end of a process.                  *)
Resting == {"idle", "done", "gone"}
Dated(p) == p \in Pad => bootOf[p[1]] = boot

Boots ==
    /\ \A t \in Txn : pc[t] \notin Resting => bootOf[t] = boot /\ main = "resumed"
    /\ main = "created" => stack = <<>>
    /\ main = "resumed" => \A p \in Held : Dated(p)
    /\ \A p \in Pad \cap (Held \cup Given) : pc[p[1]] # "idle"
    /\ \A t \in Txn : pc[t] = "idle" => entered[t] = <<>>
    /\ \A t \in Txn : pc[t] \in Answering => Dated(pin[thiz[t]].pad)

BootInv == Boots /\ NoPinOutlivesProcess

LEMMA InitBoots == LifeInit => BootInv
<1>. SUFFICES ASSUME LifeInit PROVE BootInv
  OBVIOUS
<1>1. /\ stack = <<>> /\ results = <<>> /\ batch = <<>> /\ main = "none"
      /\ \A t \in Txn : entered[t] = <<>> /\ pc[t] = "idle"
      /\ \A i \in Inst : pin[i].pad = NoPad
  BY DEF LifeInit, Init, NoEntry
<1>2. Held = {} /\ Given \subseteq {NoPad}
  BY <1>1, ToSetEmpty DEF Held, Given, PadsOf
<1>3. Pad \cap (Held \cup Given) = {}
  BY <1>2
<1>. QED
  BY <1>1, <1>2, <1>3
  DEF BootInv, Boots, NoPinOutlivesProcess, Resting, Answering

LEMMA PadsOfAppend ==
    ASSUME NEW s \in Seq(Result), NEW r \in Result
    PROVE  PadsOf(Append(s, r)) = PadsOf(s) \cup {r.entry.pad}
  BY ToSetAppend DEF PadsOf

LEMMA PadsOfTail ==
    ASSUME NEW s \in Seq(Result), s # <<>>
    PROVE  PadsOf(s) = PadsOf(Tail(s)) \cup {Head(s).entry.pad}
  BY ToSetTail DEF PadsOf

(* Steps within a process that hand no answer to a thread.                 *)
Calm ==
    /\ UNCHANGED <<entered, boot, bootOf, main>>
    /\ stack = <<>> => stack' = <<>>
    /\ Held' \subseteq Held /\ Given' \subseteq Given \cup {NoPad}
    /\ \A t \in Txn :
          /\ pc[t] \in Resting => pc'[t] \in Resting
          /\ pc'[t] = "idle" <=> pc[t] = "idle"
          /\ pc'[t] \in Answering =>
                \/ pin'[thiz'[t]].pad = NoPad
                \/ pc[t] \in Answering /\ pin'[thiz'[t]] = pin[thiz[t]]

LEMMA CalmKeeps ==
    ASSUME CoreTypes, BootInv, Calm
    PROVE  BootInv'
<1>. USE DEF Calm, BootInv
<1>1. \A t \in Txn : pc'[t] \notin Resting => bootOf'[t] = boot' /\ main' = "resumed"
  BY DEF Boots
<1>2. main' = "created" => stack' = <<>>
  BY DEF Boots
<1>3. main' = "resumed" => \A p \in Held' : Dated(p)'
  BY DEF Boots, Dated
<1>4. \A p \in Pad \cap (Held' \cup Given') : pc'[p[1]] # "idle"
  BY DEF Boots, Pad
<1>5. \A t \in Txn : pc'[t] = "idle" => entered'[t] = <<>>
  BY DEF Boots
<1>6. \A t \in Txn : pc'[t] \in Answering => Dated(pin[thiz[t]].pad)'
  BY DEF Boots, Dated
<1>7. NoPinOutlivesProcess'
  BY DEF NoPinOutlivesProcess
<1>8. Answering' = Answering /\ Resting' = Resting
  BY DEF Answering, Resting
<1>. QED
  BY <1>1, <1>2, <1>3, <1>4, <1>5, <1>6, <1>7, <1>8 DEF Boots

LEMMA CalmThread ==
    ASSUME CoreTypes, UNCHANGED life, NEW t \in Txn,
           ThreadStep(t) \/ AttachFails(t) \/ SpuriousWakeup(t),
           ~Launch(t), ~ReturnPin(t)
    PROVE  Calm
<1>. USE DEF CoreTypes, At, Goto, thread, activity, windows, life, process,
         Resting, Answering
<1>1. UNCHANGED <<thiz, entered, stack, results, batch, boot, bootOf, main>>
  BY DEF ThreadStep, ParseTrd, RejectTrd, EnterPin, LaunchThrows, Wait,
     Reacquire, Compare, Report, AttachFails, SpuriousWakeup
<1>2. Held' = Held
  BY <1>1 DEF Held, PadsOf
<1>3. CASE EnterPin(t)
  <2>1. /\ pin' = [pin EXCEPT ![thiz[t]] = NoEntry] /\ NoEntry.pad = NoPad
        /\ pc[t] = "enter" /\ pc' = [pc EXCEPT ![t] = "lock"]
    BY <1>3 DEF EnterPin, NoEntry
  <2>2. \A i \in Inst : pin'[i].pad \in {pin[i].pad, NoPad}
    BY <2>1
  <2>3. Given' \subseteq Given \cup {NoPad}
    BY <1>1, <2>2 DEF Given
  <2>4. \A u \in Txn : pin'[thiz[u]] \in {pin[thiz[u]], NoEntry}
    BY <2>1
  <2>5. pin'[thiz[t]].pad = NoPad
    BY <2>1
  <2>. QED
    BY <1>1, <1>2, <2>1, <2>3, <2>4, <2>5 DEF Calm
<1>4. CASE ~EnterPin(t)
  <2>1. pin' = pin
    BY <1>4 DEF ThreadStep, ParseTrd, RejectTrd, LaunchThrows, Wait,
       Reacquire, Compare, Report, AttachFails, SpuriousWakeup
  <2>2. Given' = Given
    BY <1>1, <2>1 DEF Given
  <2>3. \A u \in Txn :
          /\ pc[u] \in Resting => pc'[u] \in Resting
          /\ pc'[u] = "idle" <=> pc[u] = "idle"
          /\ pc'[u] \in Answering => pc[u] \in Answering
    <3>1. CASE Compare(t)
      <4>1. /\ pc[t] = "compare" /\ pc'[t] \in {"enter", "report"}
            /\ \A u \in Txn \ {t} : pc'[u] = pc[u]
        BY <3>1 DEF Compare
      <4>. QED
        BY <4>1
    <3>2. CASE ~Compare(t)
      BY <1>4, <3>2 DEF ThreadStep, ParseTrd, RejectTrd, LaunchThrows, Wait,
         Reacquire, Report, AttachFails, SpuriousWakeup
    <3>. QED
      BY <3>1, <3>2
  <2>. QED
    BY <1>1, <1>2, <2>1, <2>2, <2>3 DEF Calm
<1>. QED
  BY <1>3, <1>4

LEMMA CalmUi ==
    ASSUME CoreTypes, LooperStep \/ ClosePad \/ Recreate \/ Redraw,
           UNCHANGED <<main, boot, bootOf>>, ~OnResultOk
    PROVE  Calm
<1>. USE DEF CoreTypes, thread, activity, windows
<1>1. UNCHANGED <<thiz, entered, pin>>
  BY DEF LooperStep, CreateMain, FirstResume, ShowPad, PadCrashes,
     PadRejectsAmount, PadThrows, ResumeMain, OnResultCancelled, NotifyAll,
     ShowToast, ClosePad, PressOk, PressBack, CloseTopPad, Recreate,
     RecreateMain, Redraw, vars
<1>2. Given' = Given
  BY <1>1 DEF Given
<1>3. \A u \in Txn :
         /\ pc[u] \in Resting => pc'[u] \in Resting
         /\ pc'[u] = "idle" <=> pc[u] = "idle"
         /\ pc'[u] \in Answering => pc[u] \in Answering
  BY DEF Resting, Answering, Goto, LooperStep, CreateMain,
     FirstResume, ShowPad, PadCrashes, PadRejectsAmount, PadThrows, ResumeMain,
     OnResultCancelled, NotifyAll, ShowToast, ClosePad, PressOk, PressBack,
     CloseTopPad, Recreate, RecreateMain, Redraw, vars
<1>4. Held' \subseteq Held /\ (stack = <<>> => stack' = <<>>)
  <2>1. CASE ClosePad
    <3>1. PICK ok \in BOOLEAN, v \in Pins : CloseTopPad(ok, v)
      BY <2>1 DEF ClosePad, PressOk, PressBack
    <3>2. stack # <<>> /\ stack \in Seq(Pad) /\ Last(stack) \in Pad
      BY <3>1, FrontLast DEF CloseTopPad
    <3>3. PICK r \in Result :
             r = [ok |-> ok, entry |-> [val |-> v, pad |-> Last(stack)]]
      BY <3>2 DEF Result, Entry
    <3>4. /\ stack' = Front(stack) /\ results' = Append(results, r)
          /\ batch' = batch /\ r.entry.pad = Last(stack)
      BY <3>1, <3>3 DEF CloseTopPad
    <3>5. ToSet(stack) = ToSet(Front(stack)) \cup {Last(stack)}
      BY <3>2, ToSetFront
    <3>6. PadsOf(results') = PadsOf(results) \cup {Last(stack)}
      BY <3>4, PadsOfAppend
    <3>. QED
      BY <3>2, <3>4, <3>5, <3>6 DEF Held, PadsOf
  <2>2. CASE ResumeMain
    BY <2>2, ToSetEmpty DEF ResumeMain, Held, PadsOf
  <2>3. CASE OnResultCancelled
    <3>1. PadsOf(Tail(batch)) \subseteq PadsOf(batch)
      BY <2>3, PadsOfTail DEF OnResultCancelled
    <3>. QED
      BY <2>3, <3>1 DEF OnResultCancelled, Held, PadsOf
  <2>4. CASE ~ClosePad /\ ~ResumeMain /\ ~OnResultCancelled
    <3>1. UNCHANGED <<stack, results, batch>>
      BY <2>4 DEF LooperStep, CreateMain, FirstResume, ShowPad,
         PadCrashes, PadRejectsAmount, PadThrows, NotifyAll, ShowToast,
         Recreate, RecreateMain, Redraw, vars
    <3>. QED
      BY <3>1 DEF Held, PadsOf
  <2>. QED
    BY <2>1, <2>2, <2>3, <2>4
<1>. QED
  BY <1>1, <1>2, <1>3, <1>4 DEF Calm

LEMMA LaunchBoots ==
    ASSUME CoreTypes, BootInv, UNCHANGED life, NEW t \in Txn, Launch(t)
    PROVE  BootInv'
<1>. USE DEF CoreTypes, BootInv
<1>1. PICK p \in Pad : p = <<t, ptc[t]>>
  BY DEF Launch, At, Settling, Pad
<1>2. /\ pc[t] = "lock" /\ pc' = [pc EXCEPT ![t] = "launched"]
      /\ stack' = Append(stack, p) /\ p[1] = t
      /\ UNCHANGED <<thiz, entered, pin, results, batch, main, boot, bootOf>>
  BY <1>1 DEF Launch, At, Goto, thread, activity, life, process
<1>3. bootOf[t] = boot /\ main = "resumed"
  BY <1>2 DEF Boots, Resting
<1>4. Held' = Held \cup {p} /\ Given' = Given
  BY <1>2, ToSetAppend DEF Held, Given, PadsOf
<1>5. \A q \in Held' : Dated(q)'
  BY <1>2, <1>3, <1>4 DEF Boots, Dated
<1>6. \A q \in Pad \cap (Held' \cup Given') : pc'[q[1]] # "idle"
  BY <1>2, <1>4 DEF Boots, Pad
<1>7. \A u \in Txn : pc'[u] \in Answering => Dated(pin[thiz[u]].pad)'
  BY <1>2 DEF Boots, Answering, Dated
<1>8. Boots'
  BY <1>2, <1>3, <1>5, <1>6, <1>7 DEF Boots, Resting, Answering
<1>9. NoPinOutlivesProcess'
  BY <1>2 DEF NoPinOutlivesProcess
<1>. QED
  BY <1>8, <1>9

(* enterPIN returns what was typed in the process of its thread.           *)
SameBoot(t, e) == e.pad # NoPad => bootOf[e.pad[1]] = bootOf[t]

LEMMA OutlivesBySet ==
    NoPinOutlivesProcess <=>
        \A t \in Txn : \A e \in ToSet(entered[t]) : SameBoot(t, e)
  BY DEF NoPinOutlivesProcess, ToSet, SameBoot

LEMMA ReturnPinBoots ==
    ASSUME CoreTypes, BootInv, UNCHANGED life, NEW t \in Txn, ReturnPin(t)
    PROVE  BootInv'
<1>. USE DEF CoreTypes, BootInv
<1>1. PICK e \in Entry : e = pin[thiz[t]]
  OBVIOUS
<1>2. /\ pc[t] = "return" /\ pc' = [pc EXCEPT ![t] = "compare"]
      /\ entered' = [entered EXCEPT ![t] = Append(@, e)]
      /\ UNCHANGED <<thiz, pin, stack, results, batch, main, boot, bootOf>>
  BY <1>1 DEF ReturnPin, At, Goto, activity, windows, life, process
<1>3. bootOf[t] = boot /\ Dated(e.pad)
  BY <1>1, <1>2 DEF Boots, Resting, Answering
<1>4. SameBoot(t, e)
  <2>1. e.pad \in Pad \cup {NoPad}
    BY DEF Entry
  <2>. QED
    BY <1>3, <2>1 DEF SameBoot, Dated
<1>5. /\ ToSet(entered'[t]) = ToSet(entered[t]) \cup {e}
      /\ \A u \in Txn \ {t} : entered'[u] = entered[u]
  BY <1>2, ToSetAppend
<1>6. \A u \in Txn : \A d \in ToSet(entered'[u]) : SameBoot(u, d)
  <2>1. \A u \in Txn : \A d \in ToSet(entered[u]) : SameBoot(u, d)
    BY OutlivesBySet
  <2>2. \A d \in ToSet(entered'[t]) : SameBoot(t, d)
    BY <1>4, <1>5, <2>1
  <2>. QED
    BY <1>5, <2>1, <2>2
<1>7. NoPinOutlivesProcess'
  <2>1. \A u \in Txn : \A d \in ToSet(entered'[u]) : SameBoot(u, d)'
    BY <1>2, <1>6 DEF SameBoot
  <2>. QED
    BY <2>1 DEF NoPinOutlivesProcess, ToSet, SameBoot
<1>8. Held' = Held /\ Given' \subseteq Given
  <2>1. \A u \in Txn : ToSet(entered'[u]) \subseteq ToSet(entered[u]) \cup {e}
    BY <1>5
  <2>2. {d.pad : d \in UNION {ToSet(entered'[u]) : u \in Txn}}
           \subseteq {d.pad : d \in UNION {ToSet(entered[u]) : u \in Txn}}
                        \cup {e.pad}
    BY <2>1
  <2>3. e.pad \in Given
    BY <1>1 DEF Given
  <2>. QED
    BY <1>2, <2>2, <2>3 DEF Held, Given, PadsOf
<1>9. \A q \in Pad \cap (Held' \cup Given') : pc'[q[1]] # "idle"
  BY <1>2, <1>8 DEF Boots, Pad
<1>10. \A u \in Txn : pc'[u] \in Answering => Dated(pin[thiz[u]].pad)'
  BY <1>2 DEF Boots, Answering, Dated
<1>11. \A q \in Held' : main' = "resumed" => Dated(q)'
  BY <1>2, <1>8 DEF Boots, Dated
<1>12. Boots'
  BY <1>2, <1>5, <1>9, <1>10, <1>11 DEF Boots, Resting, Answering
<1>. QED
  BY <1>7, <1>12

(* A result that reaches the field while a thread may read it is of this   *)
(* process.                                                                *)
LEMMA OnResultOkBoots ==
    ASSUME CoreTypes, BootInv, UNCHANGED life, OnResultOk
    PROVE  BootInv'
<1>. USE DEF CoreTypes, BootInv
<1>1. batch # <<>> /\ Head(batch) \in Result
  BY HeadTailProperties DEF OnResultOk
<1>2. PICK e \in Entry : e = Head(batch).entry
  BY <1>1 DEF Result
<1>3. /\ pin' = [pin EXCEPT ![cur] = e] /\ batch' = Tail(batch)
      /\ UNCHANGED <<pc, thiz, entered, stack, results, main, boot, bootOf>>
  BY <1>2 DEF OnResultOk, thread, life, process
<1>4. PadsOf(batch) = PadsOf(Tail(batch)) \cup {e.pad}
  BY <1>1, <1>2, PadsOfTail
<1>5. Held' \subseteq Held /\ e.pad \in Held
  BY <1>3, <1>4 DEF Held, PadsOf
<1>6. \A i \in Inst : pin'[i].pad \in {pin[i].pad, e.pad}
  BY <1>3
<1>7. Given' \subseteq Given \cup {e.pad}
  BY <1>3, <1>6 DEF Given
<1>8. \A q \in Pad \cap (Held' \cup Given') : pc'[q[1]] # "idle"
  BY <1>3, <1>5, <1>7 DEF Boots
<1>9. ASSUME NEW u \in Txn, pc'[u] \in Answering
      PROVE  Dated(pin[thiz[u]].pad)'
  <2>1. Dated(e.pad) /\ Dated(pin[thiz[u]].pad)
    BY <1>3, <1>5, <1>9 DEF Boots, Answering, Resting
  <2>2. pin'[thiz'[u]].pad \in {pin[thiz[u]].pad, e.pad}
    BY <1>3, <1>6
  <2>. QED
    BY <1>3, <2>1, <2>2 DEF Dated
<1>10. \A q \in Held' : main' = "resumed" => Dated(q)'
  BY <1>3, <1>5 DEF Boots, Dated
<1>11. Boots'
  BY <1>3, <1>8, <1>9, <1>10 DEF Boots, Resting, Answering
<1>12. NoPinOutlivesProcess'
  BY <1>3 DEF NoPinOutlivesProcess
<1>. QED
  BY <1>11, <1>12

(* A transaction that starts has no answers and no pads yet.               *)
LEMMA StartBoots ==
    ASSUME CoreTypes, LifeTypeOK, BootInv, NEW t \in Txn, Start(t)
    PROVE  BootInv'
<1>. USE DEF CoreTypes, BootInv
<1>1. /\ main = "resumed" /\ pc[t] = "idle"
      /\ pc' = [pc EXCEPT ![t] = "spawned"]
      /\ bootOf' = [bootOf EXCEPT ![t] = boot] /\ boot \in Nat
      /\ \A u \in Txn \ {t} : thiz'[u] = thiz[u]
      /\ UNCHANGED <<entered, pin, stack, results, batch, main, boot>>
  BY DEF Start, Clickable, StartTransaction, At, Goto, activity, windows,
         LifeTypeOK
<1>2. \A u \in Txn : bootOf'[u] \in {bootOf[u], boot} /\ (u # t => bootOf'[u] = bootOf[u])
  BY <1>1 DEF LifeTypeOK
<1>3. bootOf'[t] = boot
  BY <1>1 DEF LifeTypeOK
<1>4. Held' = Held /\ Given' = Given
  BY <1>1 DEF Held, Given, PadsOf
<1>5. \A q \in Pad : q[1] \in Txn
  BY DEF Pad
<1>6. \A q : Dated(q) => Dated(q)'
  BY <1>1, <1>2, <1>5 DEF Dated
<1>7. \A q \in Held' : Dated(q)'
  BY <1>1, <1>4, <1>6 DEF Boots
<1>8. \A q \in Pad \cap (Held' \cup Given') : pc'[q[1]] # "idle"
  BY <1>1, <1>4, <1>5 DEF Boots
<1>9. \A u \in Txn : pc'[u] \in Answering => Dated(pin[thiz[u]].pad)'
  <2>1. ASSUME NEW u \in Txn, pc'[u] \in Answering
        PROVE  u # t /\ pc[u] \in Answering
    BY <1>1, <2>1 DEF Answering
  <2>. QED
    BY <1>1, <1>2, <1>5, <2>1 DEF Boots, Dated
<1>10. \A u \in Txn : pc'[u] \notin Resting => bootOf'[u] = boot' /\ main' = "resumed"
  BY <1>1, <1>2, <1>3 DEF Boots, Resting
<1>11. Boots'
  BY <1>1, <1>7, <1>8, <1>9, <1>10 DEF Boots, Resting, Answering
<1>12. NoPinOutlivesProcess'
  <2>1. ASSUME NEW u \in Txn, NEW k \in DOMAIN entered[u], entered[u][k].pad # NoPad
        PROVE  bootOf'[entered[u][k].pad[1]] = bootOf'[u]
    <3>1. entered[u] \in Seq(Entry) /\ entered[u][k] \in ToSet(entered[u])
      BY DEF ToSet
    <3>2. entered[u][k] \in Entry
      BY <3>1, ElementOfSeq
    <3>3. entered[u][k].pad \in Pad /\ entered[u][k].pad \in Given
      BY <2>1, <3>1, <3>2 DEF Entry, Given
    <3>4. entered[u][k].pad[1] \in Txn \ {t}
      BY <1>1, <1>5, <3>3 DEF Boots
    <3>5. u # t
      BY <1>1, <2>1 DEF Boots
    <3>. QED
      BY <1>2, <2>1, <3>4, <3>5 DEF NoPinOutlivesProcess
  <2>. QED
    BY <1>1, <2>1 DEF NoPinOutlivesProcess
<1>. QED
  BY <1>11, <1>12

LEMMA ProcessBoots ==
    ASSUME CoreTypes, BootInv, Kill \/ Restart
    PROVE  BootInv'
<1>. USE DEF CoreTypes, BootInv
<1>1. /\ pc' = Gone /\ main' = "none"
      /\ UNCHANGED <<thiz, entered, pin, bootOf>>
  BY DEF Kill, Restart, thread, activity
<1>2. \A t \in Txn : pc'[t] \in Resting /\ (pc'[t] = "idle" <=> pc[t] = "idle")
  BY <1>1 DEF Gone, Resting
<1>3. Held' \subseteq Held /\ Given' = Given
  <2>1. Given' = Given
    BY <1>1 DEF Given
  <2>2. CASE UNCHANGED <<stack, results>> /\ batch' \in {batch, <<>>}
    BY <2>1, <2>2, ToSetEmpty DEF Held, PadsOf
  <2>3. CASE stack' = <<>> /\ results' = <<>> /\ batch' = <<>>
    BY <2>1, <2>3, ToSetEmpty DEF Held, PadsOf
  <2>4. CASE /\ stack # <<>> /\ stack' = Front(stack) /\ batch' = <<>>
             /\ results' = Append(results, Dismissed(Last(stack)))
    <3>1. PICK p \in Pad : p = Last(stack)
      BY <2>4, FrontLast
    <3>2. Dismissed(p) \in Result /\ Dismissed(p).entry.pad = p
      BY DEF Dismissed, Result, Entry
    <3>3. PadsOf(results') = PadsOf(results) \cup {p}
      BY <2>4, <3>1, <3>2, PadsOfAppend
    <3>4. ToSet(stack) = ToSet(stack') \cup {p}
      BY <2>4, <3>1, ToSetFront
    <3>. QED
      BY <2>1, <2>4, <3>3, <3>4, ToSetEmpty DEF Held, PadsOf
  <2>. QED
    BY <2>2, <2>3, <2>4 DEF Kill, Restart, windows
<1>4. \A q \in Pad \cap (Held' \cup Given') : pc'[q[1]] # "idle"
  BY <1>2, <1>3 DEF Boots, Pad
<1>5. Boots'
  BY <1>1, <1>2, <1>4 DEF Boots, Resting, Answering
<1>6. NoPinOutlivesProcess'
  BY <1>1 DEF NoPinOutlivesProcess
<1>. QED
  BY <1>5, <1>6

(* MainActivity comes up with no thread, and is clickable with no results. *)
LEMMA MainBoots ==
    ASSUME CoreTypes, BootInv, CreateMain \/ FirstResume
    PROVE  BootInv'
<1>. USE DEF CoreTypes, BootInv
<1>1. /\ UNCHANGED <<pc, thiz, entered, pin, stack, results, batch, boot, bootOf>>
      /\ main \in {"none", "created"} /\ stack = <<>> /\ batch = <<>>
      /\ \/ main' = "created"
         \/ main' = "resumed" /\ results = <<>>
  BY DEF CreateMain, FirstResume, Boots, UiIdle, vars, thread, activity, windows
<1>2. Held' = Held /\ Given' = Given
  BY <1>1 DEF Held, Given, PadsOf
<1>3. main' = "resumed" => Held' = {}
  BY <1>1, <1>2, ToSetEmpty DEF Held, PadsOf
<1>4. \A t \in Txn : pc'[t] \in Resting /\ pc'[t] \notin Answering
  BY <1>1 DEF Boots, Resting, Answering
<1>5. Boots'
  BY <1>1, <1>2, <1>3, <1>4 DEF Boots, Resting, Answering
<1>6. NoPinOutlivesProcess'
  BY <1>1 DEF NoPinOutlivesProcess
<1>. QED
  BY <1>5, <1>6

LEMMA NextBoots ==
    ASSUME CoreTypes, LifeTypeOK, BootInv, [LifeNext]_lifeVars
    PROVE  BootInv'
<1>1. ASSUME UNCHANGED life, NEW t \in Txn,
             ThreadStep(t) \/ AttachFails(t) \/ SpuriousWakeup(t)
      PROVE  BootInv'
  BY <1>1, LaunchBoots, ReturnPinBoots, CalmThread, CalmKeeps
<1>2. ASSUME NEW t \in Txn, Start(t)
      PROVE  BootInv'
  BY <1>2, StartBoots
<1>3. CASE Kill \/ Restart
  BY <1>3, ProcessBoots
<1>4. CASE CreateMain \/ FirstResume
  BY <1>4, MainBoots
<1>5. CASE (LooperStep \/ ClosePad \/ Recreate \/ Redraw) /\ OnResultOk
  <2>1. ui = "looper" /\ ui' = "notifying"
    BY <1>5 DEF OnResultOk
  <2>2. UNCHANGED life
    BY <1>5, <2>1 DEF LooperStep, CreateMain, FirstResume, ShowPad,
       PadCrashes, PadRejectsAmount, PadThrows, ClosePad, PressOk, PressBack,
       CloseTopPad, Recreate, RecreateMain, Redraw, vars
  <2>. QED
    BY <1>5, <2>2, OnResultOkBoots
<1>6. ASSUME LooperStep \/ ClosePad \/ Recreate \/ Redraw,
             ~CreateMain, ~FirstResume, ~OnResultOk
      PROVE  BootInv'
  <2>1. UNCHANGED <<main, boot, bootOf>>
    BY <1>6 DEF LooperStep, ShowPad, PadCrashes, PadRejectsAmount,
       ClosePad, Recreate, Redraw, life, process
  <2>2. Calm
    BY <1>6, <2>1, CalmUi
  <2>. QED
    BY <2>2, CalmKeeps
<1>7. CASE UNCHANGED lifeVars
  BY <1>7 DEF lifeVars, vars, life, process, thread, activity, windows,
     BootInv, Boots, NoPinOutlivesProcess, Dated, Held, Given, PadsOf, Resting,
     Answering
<1>. QED
  BY <1>1, <1>2, <1>3, <1>4, <1>5, <1>6, <1>7 DEF LifeNext

(* No PIN outlives its process, for any number of kills and restarts:      *)
(* results that Android kept reach MainActivity before its button can be   *)
(* clicked, and enterPIN resets the field before every attempt.            *)
THEOREM NoPinOutlives == LifeSpec => []NoPinOutlivesProcess
<1>1. LifeInit => CoreTypes /\ LifeTypeOK /\ BootInv
  BY InitTypes, InitLifeType, InitBoots
<1>2. CoreTypes /\ LifeTypeOK /\ BootInv /\ [LifeNext]_lifeVars
        => CoreTypes' /\ LifeTypeOK' /\ BootInv'
  BY NextTypes, NextLifeType, NextBoots
<1>3. BootInv => NoPinOutlivesProcess
  BY DEF BootInv
<1>. QED
  BY <1>1, <1>2, <1>3, PTL DEF LifeSpec

-----------------------------------------------------------------------------
(* Windows of an earlier process.  The generator has a seed only in a      *)
(* process with a MainActivity, which finds no window of an earlier one;   *)
(* and without a seed there is no other window.                            *)
SeedInv ==
    /\ ui # "killed" /\ rng # NoKey => main # "none"
    /\ rng = NoKey => \A pad \in ToSet(stack) : bootOf[pad[1]] # boot
    /\ NoStrandedPadShown

LEMMA InitSeed == LifeInit => SeedInv
  BY ToSetEmpty DEF LifeInit, Init, SeedInv, NoStrandedPadShown

(* Threads run only beside a resumed MainActivity, so with a seed.         *)
LEMMA ThreadSeed ==
    ASSUME CoreTypes, LifeTypeOK, BootInv, SeedInv, UNCHANGED life,
           NEW t \in Txn,
           ThreadStep(t) \/ AttachFails(t) \/ SpuriousWakeup(t)
    PROVE  SeedInv'
<1>1. pc[t] \notin Resting
  BY DEF Resting, ThreadStep, ParseTrd, RejectTrd, EnterPin, Launch,
     LaunchThrows, Wait, Reacquire, ReturnPin, Compare, Report, AttachFails,
     SpuriousWakeup, At
<1>2. main = "resumed" /\ rng # NoKey
  BY <1>1 DEF BootInv, Boots, LifeTypeOK
<1>. QED
  BY <1>2 DEF SeedInv, NoStrandedPadShown, NoKey, life, generator, process

LEMMA NextSeed ==
    ASSUME CoreTypes, LifeTypeOK, BootInv, SeedInv, [LifeNext]_lifeVars
    PROVE  SeedInv'
<1>. NoKey' = NoKey
  BY DEF NoKey
<1>1. ASSUME NEW t \in Txn, UNCHANGED life,
             ThreadStep(t) \/ AttachFails(t) \/ SpuriousWakeup(t)
      PROVE  SeedInv'
  BY <1>1, ThreadSeed
<1>2. CASE CreateMain \/ Recreate
  <2>1. rng' # NoKey
    BY <1>2, InitRngTypes DEF CreateMain, Recreate
  <2>2. main' # "none" /\ UNCHANGED <<shown, boot, bootOf>>
    BY <1>2 DEF CreateMain, Recreate, process
  <2>. QED
    BY <2>1, <2>2 DEF SeedInv, NoStrandedPadShown
<1>3. CASE ShowPad \/ PadRejectsAmount
  <2>1. /\ stack # <<>> /\ rng # NoKey /\ ui = "looper"
        /\ RandomBytes(Last(stack))
        /\ UNCHANGED <<main, boot, bootOf>>
        /\ shown' \subseteq shown \cup {Last(stack)}
    BY <1>3 DEF ShowPad, PadRejectsAmount, Unseen, UiIdle, process
  <2>2. Last(stack) \in Pad /\ Last(stack) \in ToSet(stack)
    BY <2>1, FrontLast, ToSetFront DEF CoreTypes
  <2>3. rng' # NoKey
    BY <2>1, <2>2, RandomBytesTypes
  <2>4. main = "resumed"
    BY <2>1 DEF SeedInv, LifeTypeOK, BootInv, Boots
  <2>5. bootOf[Last(stack)[1]] = boot
    BY <2>2, <2>4 DEF BootInv, Boots, Held, Dated
  <2>. QED
    BY <2>1, <2>3, <2>4, <2>5 DEF SeedInv, NoStrandedPadShown
<1>4. CASE ClosePad
  <2>1. /\ stack # <<>> /\ stack' = Front(stack) /\ ui' = ui
        /\ shown' \subseteq shown
        /\ UNCHANGED <<rng, main, boot, bootOf>>
    BY <1>4 DEF ClosePad, PressOk, PressBack, CloseTopPad, generator
  <2>2. ToSet(stack') \subseteq ToSet(stack)
    BY <2>1, ToSetFront DEF CoreTypes
  <2>. QED
    BY <2>1, <2>2 DEF SeedInv, NoStrandedPadShown
<1>5. CASE Kill
  BY <1>5 DEF Kill, SeedInv, NoStrandedPadShown, windows, generator
<1>6. CASE Restart
  <2>1. rng' = NoKey /\ shown' = {} /\ boot' = boot + 1 /\ bootOf' = bootOf
    BY <1>6 DEF Restart, Loaded
  <2>2. \A pad \in ToSet(stack') : bootOf[pad[1]] # boot + 1
    <3>1. stack' \in Seq(Pad)
      BY NextTypes DEF CoreTypes
    <3>2. \A pad \in ToSet(stack') : pad[1] \in Txn
      BY <3>1, ToSetType DEF Pad
    <3>3. \A t \in Txn : bootOf[t] # boot + 1
      BY DEF LifeTypeOK
    <3>. QED
      BY <3>2, <3>3
  <2>. QED
    BY <2>1, <2>2 DEF SeedInv, NoStrandedPadShown
<1>7. ASSUME NEW t \in Txn, Start(t)
      PROVE  SeedInv'
  <2>1. /\ main' = "resumed" /\ rng' = rng /\ rng # NoKey
        /\ shown' = shown /\ boot' = boot
        /\ \A u \in Txn : bootOf'[u] \in {bootOf[u], boot}
    BY <1>7 DEF Start, Clickable, generator, LifeTypeOK
  <2>2. \A pad \in shown : pad[1] \in Txn
    BY DEF LifeTypeOK, Pad
  <2>. QED
    BY <2>1, <2>2 DEF SeedInv, NoStrandedPadShown
<1>8. CASE \/ FirstResume \/ PadCrashes \/ Redraw
           \/ /\ \/ ResumeMain \/ OnResultOk \/ OnResultCancelled
                 \/ NotifyAll \/ \E t \in Txn : ShowToast(t)
              /\ UNCHANGED life
  <2>1. ui \in {"looper", "notifying"} /\ stack' = stack
    BY <1>8 DEF FirstResume, PadCrashes, Redraw, ResumeMain, OnResultOk,
       OnResultCancelled, NotifyAll, ShowToast, Unseen, UiIdle, vars, windows
  <2>2. CASE FirstResume \/ Redraw \/ PadCrashes
    BY <2>1, <2>2 DEF FirstResume, PadCrashes, Redraw, SeedInv,
       NoStrandedPadShown, life, generator, process
  <2>3. CASE UNCHANGED life
    BY <1>8, <2>1, <2>3
    DEF SeedInv, NoStrandedPadShown, life, generator, process
  <2>. QED
    BY <1>8, <2>2, <2>3
<1>9. CASE UNCHANGED lifeVars
  BY <1>9 DEF SeedInv, NoStrandedPadShown, lifeVars, vars, life, generator,
     process, windows
<1>. QED
  BY <1>1, <1>2, <1>3, <1>4, <1>5, <1>6, <1>7, <1>8, <1>9
  DEF LifeNext, LooperStep

(* Whatever is killed and restored, and however the seeding goes, the user *)
(* is never asked for a PIN by a window of an earlier process: randomBytes *)
(* in PinpadActivity.onCreate does not survive it.                         *)
THEOREM NoStrandedPad == LifeSpec => []NoStrandedPadShown
<1>1. LifeInit => CoreTypes /\ LifeTypeOK /\ BootInv /\ SeedInv
  BY InitTypes, InitLifeType, InitBoots, InitSeed
<1>2. CoreTypes /\ LifeTypeOK /\ BootInv /\ SeedInv /\ [LifeNext]_lifeVars
        => CoreTypes' /\ LifeTypeOK' /\ BootInv' /\ SeedInv'
  BY NextTypes, NextLifeType, NextBoots, NextSeed
<1>3. SeedInv => NoStrandedPadShown
  BY DEF SeedInv
<1>. QED
  BY <1>1, <1>2, <1>3, PTL DEF LifeSpec

-----------------------------------------------------------------------------
(* The loop over ptc, across processes.  A thread that goes with its       *)
(* process keeps its history, and no step of a process but those of the    *)
(* thread itself decides anything.                                         *)
LEMMA QuietLife ==
    ASSUME CoreTypes, [LifeNext]_lifeVars, ~Kill, ~Restart,
           ~ \E t \in Txn : Deciding(t), NEW u \in Txn
    PROVE  SameProgress(u) /\ chars'[u] = chars[u]
<1>. USE DEF CoreTypes, SameProgress, Phase, At, Goto, thread, activity,
         windows
<1>1. ASSUME NEW t \in Txn, ThreadStep(t) \/ AttachFails(t) \/ SpuriousWakeup(t)
      PROVE  SameProgress(u) /\ chars'[u] = chars[u]
  BY <1>1 DEF Deciding, ThreadStep, ParseTrd, RejectTrd, EnterPin, Launch,
              LaunchThrows, Wait, Reacquire, AttachFails, SpuriousWakeup
<1>2. ASSUME NEW t \in Txn, ShowToast(t)
      PROVE  SameProgress(u) /\ chars'[u] = chars[u]
  BY <1>2 DEF ShowToast
<1>3. CASE NotifyAll
  BY <1>3 DEF NotifyAll
<1>4. CASE LooperStep
  BY <1>2, <1>3, <1>4
  DEF LooperStep, CreateMain, FirstResume, ShowPad, PadCrashes,
      PadRejectsAmount, PadThrows, ResumeMain, OnResultOk, OnResultCancelled,
      vars
<1>5. CASE ClosePad \/ Recreate \/ Redraw
  BY <1>5 DEF ClosePad, PressOk, PressBack, CloseTopPad, Recreate,
              RecreateMain, Redraw, vars
<1>6. ASSUME NEW t \in Txn, Start(t)
      PROVE  SameProgress(u) /\ chars'[u] = chars[u]
  BY <1>6 DEF Start, StartTransaction
<1>7. CASE UNCHANGED lifeVars
  BY <1>7 DEF lifeVars, vars
<1>. QED
  BY <1>1, <1>4, <1>5, <1>6, <1>7 DEF LifeNext

LEMMA ProcessLoop ==
    ASSUME CoreTypes, LoopInv, Kill \/ Restart
    PROVE  LoopInv'
<1>. SUFFICES ASSUME NEW t \in Txn PROVE LoopInvOf(t)'
  BY DEF LoopInv
<1>1. /\ UNCHANGED <<ptc, chars, entered, compared, verdict>>
      /\ pc'[t] = Gone[t]
  BY DEF Kill, Restart, thread
<1>2. LoopInvOf(t)
  BY DEF LoopInv
<1>3. CASE pc[t] \in {"idle", "done"}
  <2>1. pc'[t] = pc[t]
    BY <1>1, <1>3 DEF Gone
  <2>2. SameProgress(t)
    BY <1>1, <2>1 DEF SameProgress
  <2>. QED
    BY <1>2, <2>2, SameProgressKeeps
<1>4. CASE pc[t] \notin {"idle", "done"}
  <2>1. pc'[t] = "gone"
    BY <1>1, <1>4 DEF Gone
  <2>. QED
    BY <1>1, <1>2, <2>1 DEF LoopInvOf, ReadInv, AskingInv, CompareInv,
       SettledInv, AnnouncedInv, Decided, Settling, Wrong
<1>. QED
  BY <1>3, <1>4

LEMMA NextLifeLoop ==
    ASSUME CoreTypes, LoopInv, [LifeNext]_lifeVars
    PROVE  LoopInv'
<1>1. CASE \E t \in Txn : Deciding(t)
  BY <1>1, ReturnPinLoop, CompareLoop, ReportLoop DEF Deciding
<1>2. CASE Kill \/ Restart
  BY <1>2, ProcessLoop
<1>3. CASE ~Kill /\ ~Restart /\ ~ \E t \in Txn : Deciding(t)
  BY <1>3, QuietLife, SameProgressKeeps DEF LoopInv
<1>. QED
  BY <1>1, <1>2, <1>3

LEMMA LoopAcrossProcesses == LifeSpec => [](CoreTypes /\ LoopInv)
<1>1. LifeInit => CoreTypes /\ LoopInv
  BY InitTypes, InitLoop DEF LifeInit
<1>2. CoreTypes /\ LoopInv /\ [LifeNext]_lifeVars => CoreTypes' /\ LoopInv'
  BY NextTypes, NextLifeLoop
<1>. QED
  BY <1>1, <1>2, PTL DEF LifeSpec

(* Killing and restarting the process never makes a verdict wrong: a       *)
(* transaction that announced one, in whichever process, collected the     *)
(* answers that call for it, all of them by its own thread; and only an    *)
(* answer that was overwritten before strcmp may count for another one.    *)
THEOREM VerdictSurvives == LifeSpec => []VerdictFollowsAnswers
<1>1. CoreTypes /\ LoopInv => VerdictFollowsAnswers
  BY LoopDecides
<1>. QED
  BY <1>1, LoopAcrossProcesses, PTL

LEMMA LifeStutters ==
    ASSUME CoreTypes, [LifeNext]_lifeVars,
           ~ \E t \in Txn : Compare(t) \/ Report(t)
    PROVE  UNCHANGED PV!vars
<1>1. UNCHANGED <<compared, verdict>>
  BY DEF LifeNext, lifeVars, vars, thread, ThreadStep, ParseTrd, RejectTrd,
         EnterPin, Launch, LaunchThrows, Wait, Reacquire, ReturnPin,
         AttachFails, SpuriousWakeup, LooperStep, CreateMain, FirstResume,
         ShowPad, PadCrashes, PadRejectsAmount, PadThrows, ResumeMain,
         OnResultOk, OnResultCancelled, NotifyAll, ShowToast, ClosePad,
         PressOk, PressBack, CloseTopPad, Recreate, RecreateMain, Redraw,
         Kill, Restart, Start, StartTransaction
<1>. QED
  BY <1>1 DEF PV!vars

(* LifeCycle implements PinVerification, with the process dying and coming *)
(* back at any point and whatever becomes of released memory: a death      *)
(* compares nothing and announces nothing, and a thread that is gone does  *)
(* neither ever after.                                                     *)
THEOREM LifeRefinement == LifeSpec => ImplementsPinVerification
<1>1. LifeInit => PV!Init
  BY InitRefines DEF LifeInit
<1>2. ASSUME CoreTypes, LoopInv, [LifeNext]_lifeVars
      PROVE  [PV!Next]_PV!vars
  <2>1. ASSUME NEW t \in Txn, Compare(t) \/ Report(t)
        PROVE  PV!Next
    BY <1>2, <2>1, CompareRefines, ReportRefines DEF PV!Next
  <2>. QED
    BY <1>2, <2>1, LifeStutters
<1>. QED
  BY <1>1, <1>2, LoopAcrossProcesses, PTL
  DEF LifeSpec, ImplementsPinVerification, PV!Spec

LEMMA NextLifeTrace ==
    ASSUME CoreTypes, TraceInv, [LifeNext]_lifeVars
    PROVE  TraceInv'
<1>1. CASE \E t \in Txn : Deciding(t)
  BY <1>1, ReturnPinTrace, CompareTrace, ReportTrace DEF Deciding
<1>2. CASE Kill \/ Restart
  <2>1. UNCHANGED <<ptc, chars, entered, verdict>> /\ pc' = Gone
    BY <1>2 DEF Kill, Restart, thread
  <2>2. \A u \in Txn : pc'[u] \in Settling => pc[u] \in Settling
    BY <2>1 DEF Gone, Settling
  <2>. QED
    BY <2>1, <2>2, QuietTrace
<1>3. CASE ~Kill /\ ~Restart /\ ~ \E t \in Txn : Deciding(t)
  <2>1. \A u \in Txn : SameProgress(u) /\ chars'[u] = chars[u]
    BY <1>3, QuietLife
  <2>. QED
    BY <2>1, QuietTrace DEF SameProgress, Phase, Settling
<1>. QED
  BY <1>1, <1>2, <1>3

(* With no assumption on freed memory, and over any number of processes:   *)
(* nothing is approved before somebody entered the secret PIN.             *)
THEOREM ApprovalSurvives == LifeSpec => []ApprovalIsTraceable
<1>1. LifeInit => CoreTypes /\ TraceInv
  BY InitTypes, InitTrace DEF LifeInit
<1>2. CoreTypes /\ TraceInv /\ [LifeNext]_lifeVars => CoreTypes' /\ TraceInv'
  BY NextTypes, NextLifeTrace
<1>3. TraceInv => ApprovalIsTraceable
  BY DEF TraceInv, Returned, ApprovalIsTraceable
<1>. QED
  BY <1>1, <1>2, <1>3, PTL DEF LifeSpec

-----------------------------------------------------------------------------
(* The places of an answer, across processes.  A crash makes the visible   *)
(* pad a cancelled result, a kill leaves all where it was, and a late      *)
(* start of the app drops it; none of them hands an answer out twice.      *)
LEMMA NextLifeAges ==
    ASSUME CoreTypes, [LifeNext]_lifeVars
    PROVE  PadsAge
<1>1. ASSUME NEW u \in Txn
      PROVE  Advances(u)
  <2>. USE DEF CoreTypes, Unopened, Parked, Advances, At, Goto, thread,
               activity, windows
  <2>1. ASSUME NEW t \in Txn, ~Compare(t),
               ThreadStep(t) \/ AttachFails(t) \/ SpuriousWakeup(t)
        PROVE  Advances(u)
    BY <2>1 DEF ThreadStep, ParseTrd, RejectTrd, EnterPin, Launch,
         LaunchThrows, Wait, Reacquire, ReturnPin, Report, AttachFails,
         SpuriousWakeup
  <2>2. CASE LooperStep
    BY <2>2 DEF LooperStep, CreateMain, FirstResume, ShowPad, PadCrashes,
         PadRejectsAmount, PadThrows, ResumeMain, OnResultOk,
         OnResultCancelled, NotifyAll, ShowToast, vars
  <2>3. CASE ClosePad \/ Recreate \/ Redraw \/ \E t \in Txn : Start(t)
    BY <2>3 DEF ClosePad, PressOk, PressBack, CloseTopPad, Recreate,
         RecreateMain, Redraw, Start, StartTransaction, vars
  <2>4. CASE Kill \/ Restart
    BY <2>4 DEF Kill, Restart, Gone
  <2>5. CASE UNCHANGED lifeVars
    BY <2>5 DEF lifeVars, vars
  <2>. QED
    BY <2>1, <2>2, <2>3, <2>4, <2>5, CompareAdvances DEF LifeNext
<1>. QED
  BY <1>1, NextTypes, AdvancingAges

LEMMA RestartOnce ==
    ASSUME CoreTypes, OnceInv, PadsAge, Restart
    PROVE  OnceInv'
<1>1. /\ batch' = <<>> /\ UNCHANGED <<thiz, pin, entered>>
      /\ \A u \in Txn : pc'[u] \notin Answering
  BY DEF Restart, Gone, Answering, thread, activity
<1>2. CASE stack' \in {stack, <<>>} /\ results' \in {results, <<>>}
  <2>1. AnswersRest
    BY <1>1, <1>2 DEF AnswersRest
  <2>. QED
    BY <2>1, AnswersRestKeeps
<1>3. CASE /\ stack # <<>> /\ stack' = Front(stack)
           /\ results' = Append(results, Dismissed(Last(stack)))
  <2>1. Last(stack) \in Pad
    BY <1>3, FrontLast DEF CoreTypes
  <2>2. /\ Dismissed(Last(stack)) \in Result
        /\ Dismissed(Last(stack)).entry.pad = Last(stack)
    BY <2>1 DEF Dismissed, Result, Entry
  <2>. QED
    BY <1>1, <1>3, <2>2, CloseOnce
<1>. QED
  BY <1>2, <1>3 DEF Restart

LEMMA LifeRestingSteps ==
    ASSUME CoreTypes, [LifeNext]_lifeVars,
           ~ \E t \in Txn : EnterPin(t) \/ Launch(t) \/ ReturnPin(t),
           ~(ClosePad \/ ResumeMain \/ OnResultOk \/ OnResultCancelled \/ Restart)
    PROVE  AnswersRest
<1>. USE DEF CoreTypes, AnswersRest, Answering, At, Goto, thread, activity,
             windows
<1>1. ASSUME NEW t \in Txn, ThreadStep(t) \/ AttachFails(t) \/ SpuriousWakeup(t)
      PROVE  AnswersRest
  <2>1. CASE Compare(t)
    <3>1. /\ pc[t] = "compare" /\ pc'[t] \in {"enter", "report"}
          /\ \A u \in Txn \ {t} : pc'[u] = pc[u]
          /\ UNCHANGED <<thiz, pin, entered, stack, results, batch>>
      BY <2>1 DEF Compare
    <3>. QED
      BY <3>1
  <2>. QED
    BY <1>1, <2>1 DEF ThreadStep, ParseTrd, RejectTrd, LaunchThrows, Wait,
                      Reacquire, Report, AttachFails, SpuriousWakeup
<1>2. CASE LooperStep
  BY <1>2 DEF LooperStep, CreateMain, FirstResume, ShowPad, PadCrashes,
              PadRejectsAmount, PadThrows, ShowToast, NotifyAll, vars
<1>3. CASE Recreate \/ Redraw \/ \E t \in Txn : Start(t)
  BY <1>3 DEF Recreate, RecreateMain, Redraw, Start, StartTransaction, vars
<1>4. CASE Kill
  BY <1>4 DEF Kill, Gone
<1>5. CASE UNCHANGED lifeVars
  BY <1>5 DEF lifeVars, vars
<1>. QED
  BY <1>1, <1>2, <1>3, <1>4, <1>5 DEF LifeNext

LEMMA NextLifeOnce ==
    ASSUME CoreTypes, OnceInv, [LifeNext]_lifeVars
    PROVE  OnceInv'
<1>. PadsAge
  BY NextLifeAges
<1>1. CASE \E t \in Txn : EnterPin(t) \/ Launch(t) \/ ReturnPin(t)
  BY <1>1, EnterPinOnce, LaunchOnce, ReturnPinOnce
<1>2. CASE ClosePad
  <2>1. PICK ok \in BOOLEAN, v \in Pins : CloseTopPad(ok, v)
    BY <1>2 DEF ClosePad, PressOk, PressBack
  <2>. QED
    BY <2>1, CloseTopPadOnce
<1>3. CASE ResumeMain \/ OnResultOk \/ OnResultCancelled
  BY <1>3, ResumeMainOnce, OnResultOkOnce, OnResultCancelledOnce
<1>4. CASE Restart
  BY <1>4, RestartOnce
<1>5. CASE ~ \/ \E t \in Txn : EnterPin(t) \/ Launch(t) \/ ReturnPin(t)
             \/ ClosePad \/ ResumeMain \/ OnResultOk \/ OnResultCancelled
             \/ Restart
  <2>1. AnswersRest
    BY <1>5, LifeRestingSteps
  <2>. QED
    BY <2>1, AnswersRestKeeps
<1>. QED
  BY <1>1, <1>2, <1>3, <1>4, <1>5

(* One answer is never charged twice to a transaction, also when Android   *)
(* hands over, in a later process, results of pads of an earlier one.      *)
THEOREM ChargedOnceSurvives == LifeSpec => []AnswerChargedOnce
<1>1. LifeInit => CoreTypes /\ OnceInv
  BY InitTypes, InitOnce DEF LifeInit
<1>2. CoreTypes /\ OnceInv /\ [LifeNext]_lifeVars => CoreTypes' /\ OnceInv'
  BY NextTypes, NextLifeOnce
<1>3. OnceInv => AnswerChargedOnce
  BY DEF OnceInv
<1>. QED
  BY <1>1, <1>2, <1>3, PTL DEF LifeSpec

(* Wake-ups, across processes.  The death of a process leaves no thread    *)
(* waiting, and the results it leaves are those of pads that no thread     *)
(* waits for; a crash even makes up such a result.                         *)
LEMMA DeathWait ==
    ASSUME CoreTypes, OnceInv, WaitInv, PadsAge, Kill \/ Restart
    PROVE  WaitInv'
<1>1. /\ pc' = Gone
      /\ UNCHANGED <<ptc, thiz, cur, cancelled>>
  BY DEF Kill, Restart, thread, activity, windows
<1>2. \A u \in Txn : pc'[u] \in {"idle", "done", "gone"} /\ pc'[u] \notin Parked
  BY <1>1 DEF Gone, Parked
<1>3. ASSUME NEW r \in ToSet(results') \cup ToSet(batch'),
             r \notin ToSet(results) \cup ToSet(batch)
      PROVE  r.entry.pad \in Pad /\ Spent(r.entry.pad)'
  <2>1. /\ stack # <<>> /\ batch' = <<>>
        /\ results' = Append(results, Dismissed(Last(stack)))
    BY <1>3, ToSetEmpty DEF Kill, Restart, windows
  <2>2. PICK p \in Pad : p = Last(stack) /\ p \in ToSet(stack)
    BY <2>1, FrontLast, ToSetFront DEF CoreTypes
  <2>3. Dismissed(p) \in Result /\ Dismissed(p).entry.pad = p
    BY DEF Dismissed, Result, Entry
  <2>4. r = Dismissed(p)
    BY <1>3, <2>1, <2>2, <2>3, ToSetAppend, ToSetEmpty DEF CoreTypes
  <2>5. Opened(p)'
    BY <2>2 DEF OnceInv, Places, Held, PadsAge
  <2>6. Spent(p)'
    BY <1>2, <2>5 DEF Opened, Spent, Unopened, Parked, Pad
  <2>. QED
    BY <2>3, <2>4, <2>6
<1>. QED
  BY <1>1, <1>2, <1>3 DEF WaitInv, PadsAge

LEMMA QuietLifeWait ==
    ASSUME CoreTypes, [LifeNext]_lifeVars,
           ~ \E t \in Txn : Launch(t),
           ~(ClosePad \/ ResumeMain \/ OnResultOk \/ OnResultCancelled
                \/ NotifyAll \/ CreateMain \/ Recreate \/ Kill \/ Restart)
    PROVE  NothingParked
<1>. USE DEF CoreTypes, NothingParked, Parked, At, Goto, thread, activity,
             windows
<1>1. ASSUME NEW t \in Txn, ThreadStep(t) \/ AttachFails(t) \/ SpuriousWakeup(t)
      PROVE  NothingParked
  <2>1. CASE Compare(t)
    <3>1. /\ pc[t] = "compare" /\ pc'[t] \in {"enter", "report"}
          /\ \A u \in Txn \ {t} : pc'[u] = pc[u] /\ ptc'[u] = ptc[u]
          /\ thiz' = thiz /\ cur' = cur /\ ui' = ui
          /\ UNCHANGED windows
      BY <2>1 DEF Compare
    <3>. QED
      BY <3>1
  <2>. QED
    BY <1>1, <2>1 DEF ThreadStep, ParseTrd, RejectTrd, EnterPin, LaunchThrows,
                      Wait, Reacquire, ReturnPin, Report, AttachFails,
                      SpuriousWakeup
<1>2. CASE LooperStep
  BY <1>2 DEF LooperStep, FirstResume, ShowPad, PadCrashes, PadRejectsAmount,
              PadThrows, ShowToast, vars
<1>3. ASSUME NEW t \in Txn, Start(t)
      PROVE  NothingParked
  BY <1>3 DEF Start, StartTransaction
<1>4. CASE Redraw \/ UNCHANGED lifeVars
  BY <1>4 DEF Redraw, lifeVars, vars
<1>. QED
  BY <1>1, <1>2, <1>3, <1>4 DEF LifeNext

LEMMA NextLifeWait ==
    ASSUME CoreTypes, OnceInv, WaitInv, [LifeNext]_lifeVars
    PROVE  WaitInv'
<1>. PadsAge
  BY NextLifeAges
<1>1. CASE ClosePad
  <2>1. ASSUME NEW v \in Pins, PressOk(v)
        PROVE  WaitInv'
    BY <2>1, CloseWait DEF PressOk
  <2>2. CASE PressBack
    BY <2>2, CloseWait DEF PressBack
  <2>. QED
    BY <1>1, <2>1, <2>2 DEF ClosePad
<1>2. CASE CreateMain \/ Recreate
  <2>1. cur' = cur + 1 /\ UNCHANGED <<thiz, results, batch, cancelled>>
    BY <1>2 DEF CreateMain, Recreate, RecreateMain, thread, windows
  <2>. QED
    BY <2>1, NewMainWait
<1>3. CASE Kill \/ Restart
  BY <1>3, DeathWait
<1>. QED
  BY <1>1, <1>2, <1>3, CallbackWait, LaunchWait, QuietLifeWait,
     NothingParkedKeeps

(* No wake-up is lost in any process: a thread in wait() has its answer    *)
(* still ahead of it, whatever windows and results were left over from an  *)
(* earlier one, and however many activities have come and gone.            *)
THEOREM NoLostWakeupSurvives == LifeSpec => []WaitIsJustified
<1>1. LifeInit => CoreTypes /\ OnceInv /\ WaitInv
  BY InitTypes, InitOnce, InitWait DEF LifeInit
<1>2. CoreTypes /\ OnceInv /\ WaitInv /\ [LifeNext]_lifeVars
        => CoreTypes' /\ OnceInv' /\ WaitInv'
  BY NextTypes, NextLifeOnce, NextLifeWait
<1>3. WaitInv => WaitIsJustified
  BY DEF WaitInv, WaitIsJustified, Parked, Expected
<1>. QED
  BY <1>1, <1>2, <1>3, PTL DEF LifeSpec

-----------------------------------------------------------------------------
(* The amounts of restored pads.                                           *)
LEMMA ProcessAmount ==
    ASSUME CoreTypes, Kill \/ Restart
    PROVE  NoneChecked
<1>1. trd' = trd /\ pc' = Gone
  BY DEF Kill, Restart, thread
<1>2. \A t \in Txn : pc'[t] \notin Unchecked => pc[t] \notin Unchecked
  BY <1>1 DEF Gone, Unchecked
<1>3. ToSet(stack') \subseteq ToSet(stack)
  <2>1. stack # <<>> => ToSet(Front(stack)) \subseteq ToSet(stack)
    BY ToSetFront DEF CoreTypes
  <2>. QED
    BY <2>1, ToSetEmpty DEF Kill, Restart, windows
<1>. QED
  BY <1>1, <1>2, <1>3 DEF NoneChecked

LEMMA NextLifeAmount ==
    ASSUME CoreTypes, AmountInv, [LifeNext]_lifeVars
    PROVE  AmountInv' /\ trd' = trd
<1>1. CASE \E t \in Txn : ThreadStep(t)
  <2>1. trd' = trd
    BY <1>1 DEF ThreadStep, ParseTrd, RejectTrd, EnterPin, Launch,
       LaunchThrows, Wait, Reacquire, ReturnPin, Compare, Report, thread
  <2>. QED
    BY <1>1, <2>1, ThreadStepAmount
<1>2. CASE ~ \E t \in Txn : ThreadStep(t)
  <2>1. CASE \/ CreateMain \/ FirstResume \/ ShowPad \/ PadCrashes
             \/ PadRejectsAmount \/ Recreate \/ Redraw
             \/ UNCHANGED lifeVars
    BY <2>1, NoneCheckedAmount
    DEF CreateMain, FirstResume, ShowPad, PadCrashes, PadRejectsAmount,
        PadThrows, Redraw, Recreate, RecreateMain, lifeVars, vars, thread, windows,
        NoneChecked
  <2>2. CASE ClosePad
    BY <2>2, CloseAmount, NoneCheckedAmount
    DEF ClosePad, PressOk, PressBack, NoneChecked
  <2>3. CASE Kill \/ Restart
    BY <2>3, ProcessAmount, NoneCheckedAmount DEF NoneChecked
  <2>. QED
    BY <1>2, <2>1, <2>2, <2>3, MonitorAmount, NoneCheckedAmount
    DEF LifeNext, LooperStep, Start, NoneChecked
<1>. QED
  BY <1>1, <1>2

TrdsGiven == trd \in [Txn -> Trds]

(* A pad that Android restores in a later process shows an amount, or      *)
(* throws, by the same rule, though the thread that checked its TRD is     *)
(* gone and the Intent with the text is all that is left of it.            *)
THEOREM AmountSurvives == LifeSpec => []AmountIsRead
<1>1. LifeInit => CoreTypes /\ AmountInv /\ TrdsGiven
  BY InitTypes, InitAmount DEF LifeInit, Init, TrdsGiven
<1>2. ASSUME CoreTypes, AmountInv, TrdsGiven, [LifeNext]_lifeVars
      PROVE  CoreTypes' /\ AmountInv' /\ TrdsGiven'
  <2>1. CoreTypes'
    BY <1>2, NextTypes
  <2>2. AmountInv' /\ trd' = trd
    BY <1>2, NextLifeAmount
  <2>. QED
    BY <1>2, <2>1, <2>2 DEF TrdsGiven
<1>3. CoreTypes /\ AmountInv /\ TrdsGiven => AmountIsRead
  BY AmountInvReads DEF CoreTypes, TrdsGiven
<1>. QED
  BY <1>1, <1>2, <1>3, PTL DEF LifeSpec

(* A dead process does nothing more, and each step that ends one leaves    *)
(* its cause to be seen.                                                   *)
LEMMA NextCrash ==
    ASSUME CoreTypes, LifeTypeOK, BootInv, SeedInv, AmountIsRead,
           CrashHasCause, [LifeNext]_lifeVars
    PROVE  CrashHasCause'
<1>. SUFFICES ASSUME ~Alive' PROVE CrashHasCause'
  BY DEF CrashHasCause
<1>1. CASE UNCHANGED lifeVars
  BY <1>1 DEF lifeVars, vars, life, process, thread, activity, windows,
     CrashHasCause, Fatal, Alive
<1>2. ASSUME NEW t \in Txn, RejectTrd(t) \/ AttachFails(t)
      PROVE  CrashHasCause'
  BY <1>2 DEF RejectTrd, AttachFails, At, CrashHasCause, Fatal
<1>3. ASSUME NEW t \in Txn, LaunchThrows(t)
      PROVE  CrashHasCause'
  BY <1>3 DEF LaunchThrows, At, CrashHasCause, Fatal, thread, activity
<1>4. CASE PadRejectsAmount
  <2>1. /\ stack # <<>> /\ ~IsLong(Amount(Last(stack)))
        /\ UNCHANGED <<trd, stack>>
    BY <1>4 DEF PadRejectsAmount, PadThrows, thread, windows
  <2>2. Last(stack) \in ToSet(stack)
    BY <2>1, ToSetFront DEF CoreTypes
  <2>3. ~Decimal(trd[Last(stack)[1]])
    BY <2>1, <2>2 DEF AmountIsRead
  <2>. QED
    BY <2>1, <2>3 DEF CrashHasCause, Fatal
<1>5. CASE PadCrashes
  <2>1. stack # <<>> /\ rng = NoKey /\ UNCHANGED <<stack, boot, bootOf>>
    BY <1>5 DEF PadCrashes, Unseen, windows, life, process
  <2>2. Last(stack) \in ToSet(stack)
    BY <2>1, ToSetFront DEF CoreTypes
  <2>. QED
    BY <2>1, <2>2 DEF SeedInv, CrashHasCause
<1>6. ASSUME NEW t \in Txn
      PROVE  ~(\/ ParseTrd(t) \/ EnterPin(t) \/ Launch(t) \/ Wait(t)
               \/ Reacquire(t) \/ ReturnPin(t) \/ Compare(t) \/ Report(t)
               \/ SpuriousWakeup(t) \/ ShowToast(t) \/ Start(t))
  BY DEF ParseTrd, EnterPin, Launch, Wait, Reacquire, ReturnPin, Compare,
     Report, SpuriousWakeup, ShowToast, Start, StartTransaction, UiIdle, At,
     Alive
<1>7. ~(\/ CreateMain \/ FirstResume \/ ShowPad \/ ResumeMain \/ OnResultOk
        \/ OnResultCancelled \/ NotifyAll \/ ClosePad \/ Recreate \/ Redraw
        \/ Kill \/ Restart)
  BY DEF CreateMain, FirstResume, ShowPad, ResumeMain, OnResultOk,
     OnResultCancelled, NotifyAll, ClosePad, PressOk, PressBack, CloseTopPad,
     Recreate, RecreateMain, Redraw, Kill, Restart, Unseen, UiIdle, vars,
     Alive
<1>. QED
  BY <1>1, <1>2, <1>3, <1>4, <1>5, <1>6, <1>7
  DEF LifeNext, LooperStep, ThreadStep

(* The process ends only of a thread that was not attached or rejects its  *)
(* TRD, of a launch from a replaced activity, of a pad without a decimal   *)
(* amount, or of a pad of an earlier process: PinpadActivity.onCreate of a *)
(* pad of its own always finds the generator seeded.                       *)
THEOREM CrashExplained == LifeSpec => []CrashHasCause
<1>. DEFINE Inv == /\ CoreTypes /\ LifeTypeOK /\ BootInv /\ SeedInv
                   /\ AmountInv /\ TrdsGiven /\ CrashHasCause
<1>1. LifeInit => Inv
  BY InitTypes, InitLifeType, InitBoots, InitSeed, InitAmount
  DEF LifeInit, Init, TrdsGiven, CrashHasCause, Alive
<1>2. ASSUME Inv, [LifeNext]_lifeVars
      PROVE  Inv'
  <2>1. AmountIsRead
    BY <1>2, AmountInvReads DEF CoreTypes, TrdsGiven
  <2>2. CoreTypes' /\ LifeTypeOK' /\ BootInv' /\ SeedInv'
    BY <1>2, NextTypes, NextLifeType, NextBoots, NextSeed
  <2>3. AmountInv' /\ TrdsGiven'
    BY <1>2, NextLifeAmount DEF TrdsGiven
  <2>4. CrashHasCause'
    BY <1>2, <2>1, NextCrash
  <2>. QED
    BY <2>2, <2>3, <2>4
<1>3. Inv => CrashHasCause
  OBVIOUS
<1>. QED
  BY <1>1, <1>2, <1>3, PTL DEF LifeSpec

-----------------------------------------------------------------------------
(* Calls of enterPIN that take turns, across processes.  Outside the time  *)
(* in which a MainActivity is resumed no thread runs, and whatever Android *)
(* kept is delivered before one is.                                        *)
LifeTurn == main = "resumed" => TurnInv

LEMMA FirstResumeTurn ==
    ASSUME BootInv, FirstResume
    PROVE  LifeTurn'
<1>1. /\ stack = <<>> /\ results = <<>> /\ batch = <<>> /\ ui = "looper"
      /\ UNCHANGED vars
      /\ \A t \in Txn : pc[t] \in Resting
  BY DEF FirstResume, UiIdle, BootInv, Boots
<1>2. Absent' /\ \A t \in Txn : pc'[t] \notin Inside \cup Delivered
  BY <1>1 DEF vars, windows, Absent, Nowhere, Resting, Inside, Delivered
<1>. QED
  BY <1>2 DEF LifeTurn, TurnInv, Vacant, OnTurn

LEMMA NextLifeTurn ==
    ASSUME SpuriousWakeups = FALSE, CoreTypes, BootInv, LifeTurn,
           CallsTakeTurns, CallsTakeTurns', [LifeNext]_lifeVars
    PROVE  LifeTurn'
<1>1. CASE FirstResume
  BY <1>1, FirstResumeTurn
<1>2. CASE CreateMain \/ Kill \/ Restart
  BY <1>2 DEF CreateMain, Kill, Restart, LifeTurn
<1>3. CASE ~FirstResume /\ ~CreateMain /\ ~Kill /\ ~Restart
  <2>1. main' = main
    BY <1>3 DEF LifeNext, LooperStep, ShowPad, PadCrashes, PadRejectsAmount,
                ClosePad, Recreate, Redraw, Start, life, process, lifeVars
  <2>. SUFFICES ASSUME TurnInv PROVE TurnInv'
    BY <2>1 DEF LifeTurn
  <2>2. CASE \/ ShowPad \/ PadCrashes \/ PadRejectsAmount \/ Recreate
             \/ Redraw \/ UNCHANGED lifeVars
    <3>1. QuietTurn
      BY <2>2 DEF Redraw, ShowPad, PadCrashes, PadRejectsAmount, PadThrows, Recreate,
         RecreateMain, UiIdle, Unseen, lifeVars, vars, thread, activity,
         windows, QuietTurn
    <3>. QED
      BY <3>1, QuietTurnKeeps
  <2>3. ASSUME NEW t \in Txn, ShowToast(t) \/ Start(t) \/ AttachFails(t)
        PROVE  TurnInv'
    <3>1. ~EnterPin(t) /\ ~Launch(t)
      BY <2>3 DEF ShowToast, Start, StartTransaction, AttachFails, EnterPin,
                  Launch, At
    <3>. QED
      BY <2>3, <3>1, ThreadTurn DEF Start
  <2>4. ASSUME NEW t \in Txn, ThreadStep(t)
        PROVE  TurnInv'
    BY <2>4, ThreadTurn, EnterTurn, LaunchTurn
  <2>5. ~ \E t \in Txn : SpuriousWakeup(t)
    BY DEF SpuriousWakeup
  <2>6. CASE ClosePad
    BY <2>6, CloseTurn, TransactionAssumption DEF ClosePad, PressOk, PressBack
  <2>7. CASE LooperStep
    BY <1>3, <2>2, <2>3, <2>7, ResumeMainTurn, OnResultTurn, NotifyAllTurn
    DEF LooperStep
  <2>. QED
    BY <1>3, <2>2, <2>3, <2>4, <2>5, <2>6, <2>7 DEF LifeNext
<1>. QED
  BY <1>1, <1>2, <1>3

LEMMA ProcessCount ==
    ASSUME CoreTypes, CountInv, Kill \/ Restart
    PROVE  CountInv'
<1>1. UNCHANGED <<ptc, entered>> /\ pc' = Gone
  BY DEF Kill, Restart, thread
<1>2. \A t \in Txn : pc'[t] = pc[t] \/ pc'[t] = "gone"
  BY <1>1 DEF Gone
<1>. QED
  BY <1>1, <1>2 DEF CountInv, Phase

LEMMA NextLifeOwn ==
    ASSUME CoreTypes, BootInv, AnswersAreOwn, CountInv, LifeTurn,
           [LifeNext]_lifeVars
    PROVE  AnswersAreOwn' /\ CountInv'
<1>1. ASSUME NEW t \in Txn, ReturnPin(t)
      PROVE  AnswersAreOwn' /\ CountInv'
  <2>1. TurnInv
    BY <1>1 DEF ReturnPin, At, BootInv, Boots, Resting, LifeTurn
  <2>. QED
    BY <1>1, <2>1, ReturnPinOwn
<1>2. CASE ~ \E t \in Txn : ReturnPin(t)
  <2>1. AnswersAreOwn'
    <3>1. entered' = entered
      BY <1>2 DEF LifeNext, lifeVars, vars, thread, ThreadStep, ParseTrd,
         RejectTrd, EnterPin, Launch, LaunchThrows, Wait, Reacquire, Compare,
         Report, AttachFails, SpuriousWakeup, LooperStep, CreateMain,
         FirstResume, ShowPad, PadCrashes, PadRejectsAmount, PadThrows,
         ResumeMain, OnResultOk, OnResultCancelled, NotifyAll, ShowToast,
         ClosePad, PressOk, PressBack, CloseTopPad, Recreate, RecreateMain,
         Redraw, Kill, Restart, Start, StartTransaction
    <3>. QED
      BY <3>1 DEF AnswersAreOwn
  <2>2. CASE \E t \in Txn : Compare(t) \/ Report(t)
    BY <2>1, <2>2, CompareCount, ReportCount
  <2>3. CASE Kill \/ Restart
    BY <2>1, <2>3, ProcessCount
  <2>4. CASE ~Kill /\ ~Restart /\ ~ \E t \in Txn : Compare(t) \/ Report(t)
    BY <1>2, <2>1, <2>4, QuietLife, SameProgressCount DEF Deciding
  <2>. QED
    BY <2>2, <2>3, <2>4
<1>. QED
  BY <1>1, <1>2

LifeOwn == BootInv /\ AnswersAreOwn /\ CountInv /\ LifeTurn

(* Transactions of any number of processes whose calls of enterPIN take    *)
(* turns are answered with what was typed in their own pads: what Android  *)
(* keeps of a dead process, or hands to a new activity, answers no one.    *)
THEOREM TurnsSurvive == SpuriousWakeups = FALSE /\ LifeSpec => TurnsKeepAnswers
<1>1. LifeInit => CoreTypes /\ LifeTypeOK /\ LifeOwn
  <2>1. LifeInit => main # "resumed"
    BY DEF LifeInit
  <2>. QED
    BY <2>1, InitTypes, InitLifeType, InitBoots, InitTurn
    DEF LifeInit, LifeOwn, LifeTurn
<1>2. ASSUME SpuriousWakeups = FALSE, CoreTypes, LifeTypeOK, LifeOwn,
             CallsTakeTurns, CallsTakeTurns', [LifeNext]_lifeVars
      PROVE  CoreTypes' /\ LifeTypeOK' /\ LifeOwn'
  BY <1>2, NextTypes, NextLifeType, NextBoots, NextLifeTurn, NextLifeOwn
  DEF LifeOwn
<1>3. LifeOwn => AnswersAreOwn
  BY DEF LifeOwn
<1>4. CASE SpuriousWakeups = FALSE
  BY <1>1, <1>2, <1>3, <1>4, PTL DEF LifeSpec, TurnsKeepAnswers
<1>. QED
  BY <1>4
=============================================================================
