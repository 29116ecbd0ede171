---------------------------- MODULE AnswerProofs ----------------------------
(***************************************************************************)
(* Theorems about Transaction: no answer of the user counts twice, and a   *)
(* transaction on its own gets its own answers.                            *)
(***************************************************************************)
EXTENDS DeliveryProofs

USE TransactionAssumption

(* Sequences without repetition: of windows, and of results by their pad.  *)
Distinct(s)   == \A j, k \in 1..Len(s) : s[j] = s[k] => j = k
ByPad(s)      == \A j, k \in 1..Len(s) : s[j].entry.pad = s[k].entry.pad => j = k
PadsOf(s)     == {r.entry.pad : r \in ToSet(s)}

LEMMA DistinctAppend ==
    ASSUME NEW S, NEW s \in Seq(S), NEW e \in S, Distinct(s), e \notin ToSet(s)
    PROVE  Distinct(Append(s, e))
<1>1. /\ Len(Append(s, e)) = Len(s) + 1 /\ Len(s) \in Nat
      /\ \A k \in 1..Len(s) : Append(s, e)[k] = s[k] /\ s[k] \in ToSet(s)
      /\ Append(s, e)[Len(s) + 1] = e
  BY AppendProperties DEF ToSet
<1>. QED
  BY <1>1 DEF Distinct

LEMMA DistinctFront ==
    ASSUME NEW S, NEW s \in Seq(S), s # <<>>, Distinct(s)
    PROVE  Distinct(Front(s)) /\ Last(s) \notin ToSet(Front(s))
<1>1. Len(s) \in Nat \ {0}
  BY EmptySeq
<1>2. /\ Len(Front(s)) = Len(s) - 1
      /\ DOMAIN Front(s) = 1 .. Len(s) - 1
      /\ \A k \in 1 .. Len(s) - 1 : Front(s)[k] = s[k]
  BY FrontElements
<1>3. Distinct(Front(s))
  BY <1>1, <1>2 DEF Distinct
<1>4. Last(s) \notin ToSet(Front(s))
  BY <1>1, <1>2 DEF Distinct, ToSet, Last
<1>. QED
  BY <1>3, <1>4

LEMMA ByPadAppend ==
    ASSUME NEW s \in Seq(Result), NEW r \in Result, ByPad(s),
           r.entry.pad \notin PadsOf(s)
    PROVE  /\ ByPad(Append(s, r))
           /\ PadsOf(Append(s, r)) = PadsOf(s) \cup {r.entry.pad}
<1>1. /\ Len(Append(s, r)) = Len(s) + 1 /\ Len(s) \in Nat
      /\ \A k \in 1..Len(s) : Append(s, r)[k] = s[k] /\ s[k] \in ToSet(s)
      /\ Append(s, r)[Len(s) + 1] = r
  BY AppendProperties DEF ToSet
<1>2. \A k \in 1..Len(s) : s[k].entry.pad # r.entry.pad
  BY <1>1 DEF PadsOf
<1>. QED
  BY <1>1, <1>2, ToSetAppend DEF ByPad, PadsOf

LEMMA ByPadTail ==
    ASSUME NEW s \in Seq(Result), s # <<>>, ByPad(s)
    PROVE  /\ ByPad(Tail(s))
           /\ PadsOf(s) = PadsOf(Tail(s)) \cup {Head(s).entry.pad}
           /\ Head(s).entry.pad \notin PadsOf(Tail(s))
<1>1. Len(s) \in Nat \ {0}
  BY EmptySeq
<1>2. /\ Head(s) = s[1]
      /\ Tail(s) \in Seq(Result) /\ Len(Tail(s)) = Len(s) - 1
      /\ \A k \in 1 .. Len(s) - 1 : Tail(s)[k] = s[k + 1]
  BY HeadTailProperties
<1>3. DOMAIN Tail(s) = 1 .. Len(s) - 1
  BY <1>2
<1>4. \A k \in 1 .. Len(s) - 1 : k + 1 \in 1..Len(s) /\ 1 \in 1..Len(s)
  BY <1>1
<1>5. ByPad(Tail(s))
  BY <1>1, <1>2, <1>4 DEF ByPad
<1>6. \A k \in 1 .. Len(s) - 1 : Tail(s)[k].entry.pad # Head(s).entry.pad
  BY <1>1, <1>2, <1>4 DEF ByPad
<1>7. Head(s).entry.pad \notin PadsOf(Tail(s))
  BY <1>3, <1>6 DEF PadsOf, ToSet
<1>8. PadsOf(s) = PadsOf(Tail(s)) \cup {Head(s).entry.pad}
  BY ToSetTail DEF PadsOf
<1>. QED
  BY <1>5, <1>7, <1>8

-----------------------------------------------------------------------------
(* Where the answer of a pad still is: not given yet, or given.            *)
Held  == ToSet(stack) \cup PadsOf(results) \cup PadsOf(batch)
Given == {pin[i].pad : i \in Inst} \cup
         {e.pad : e \in UNION {ToSet(entered[u]) : u \in Txn}}

Places ==
    /\ Held \subseteq Pad
    /\ \A p \in Pad \cap (Held \cup Given) : Opened(p)
    /\ Distinct(stack) /\ ByPad(results) /\ ByPad(batch)
    /\ ToSet(stack) \cap PadsOf(results) = {}
    /\ ToSet(stack) \cap PadsOf(batch) = {}
    /\ PadsOf(results) \cap PadsOf(batch) = {}
    /\ Held \cap Given = {}

(* Between the reset of the field and its read, the field of a transaction *)
(* does not hold an answer that was charged to it before.                  *)
Answering == {"lock", "launched", "waiting", "woken", "return"}

FieldIsNew(t) ==
    pc[t] \in Answering =>
        \A e \in ToSet(entered[t]) :
            e.pad = pin[thiz[t]].pad => e.pad = NoPad

OnceInv == Places /\ (\A t \in Txn : FieldIsNew(t)) /\ AnswerChargedOnce

LEMMA InitOnce == Init => OnceInv
<1>. SUFFICES ASSUME Init PROVE OnceInv
  OBVIOUS
<1>1. /\ stack = <<>> /\ results = <<>> /\ batch = <<>>
      /\ \A t \in Txn : entered[t] = <<>> /\ pc[t] = "idle"
      /\ \A i \in Inst : pin[i] = NoEntry
  BY DEF Init
<1>2. Held = {} /\ Given \subseteq {NoPad}
  BY <1>1, ToSetEmpty DEF Held, Given, PadsOf, NoEntry
<1>3. Distinct(stack) /\ ByPad(results) /\ ByPad(batch)
  BY <1>1 DEF Distinct, ByPad
<1>4. Places
  BY <1>1, <1>2, <1>3, ToSetEmpty DEF Places, Held
<1>5. AnswerChargedOnce
  BY <1>1 DEF AnswerChargedOnce
<1>. QED
  BY <1>1, <1>4, <1>5 DEF OnceInv, FieldIsNew, Answering

(* A step that moves no answer, except away, and resets no field.          *)
AnswersRest ==
    /\ UNCHANGED <<pin, entered>>
    /\ stack' \in {stack, <<>>} /\ results' \in {results, <<>>}
    /\ batch' \in {batch, <<>>}
    /\ \A u \in Txn : pc'[u] \in Answering =>
          pc[u] \in Answering /\ thiz'[u] = thiz[u]

LEMMA AnswersRestKeeps ==
    ASSUME CoreTypes, OnceInv, PadsAge, AnswersRest
    PROVE  OnceInv'
<1>1. /\ ToSet(stack') \subseteq ToSet(stack)
      /\ PadsOf(results') \subseteq PadsOf(results)
      /\ PadsOf(batch') \subseteq PadsOf(batch)
      /\ Distinct(stack') /\ ByPad(results') /\ ByPad(batch')
  <2>1. ToSet(<<>>) = {} /\ PadsOf(<<>>) = {}
    BY ToSetEmpty DEF PadsOf
  <2>2. Distinct(<<>>) /\ ByPad(<<>>)
    BY DEF Distinct, ByPad
  <2>. QED
    BY <2>1, <2>2 DEF AnswersRest, OnceInv, Places
<1>2. Places'
  <2>1. Held' \subseteq Held /\ Given' = Given
    BY <1>1 DEF AnswersRest, Held, Given, PadsOf
  <2>2. /\ ToSet(stack)' = ToSet(stack') /\ PadsOf(results)' = PadsOf(results')
        /\ PadsOf(batch)' = PadsOf(batch')
    BY DEF PadsOf
  <2>. QED
    BY <1>1, <2>1, <2>2 DEF PadsAge, OnceInv, Places, Distinct, ByPad
<1>3. \A t \in Txn : FieldIsNew(t)'
  BY DEF AnswersRest, OnceInv, FieldIsNew
<1>4. AnswerChargedOnce'
  BY DEF AnswersRest, OnceInv, AnswerChargedOnce
<1>. QED
  BY <1>2, <1>3, <1>4 DEF OnceInv

LEMMA RestingSteps ==
    ASSUME TypeInv, [Next]_vars,
           ~ \E t \in Txn : EnterPin(t) \/ Launch(t) \/ ReturnPin(t),
           ~ \E v \in Pins : PressOk(v),
           ~(PressBack \/ ResumeMain \/ OnResultOk \/ OnResultCancelled)
    PROVE  AnswersRest
<1>. USE DEF TypeInv, TypeOK, AnswersRest, Answering, At, Goto, thread,
             activity, windows
<1>1. ASSUME NEW t \in Txn, ThreadStep(t)
      PROVE  AnswersRest
  <2>1. CASE Compare(t)
    <3>1. /\ pc[t] = "compare" /\ pc'[t] \in {"enter", "report"}
          /\ \A u \in Txn \ {t} : pc'[u] = pc[u]
          /\ UNCHANGED <<thiz, pin, entered, stack, results, batch>>
      BY <2>1 DEF Compare
    <3>. QED
      BY <3>1
  <2>. QED
    BY <1>1, <2>1 DEF ThreadStep, ParseTrd, RejectTrd, LaunchThrows, Wait,
                      Reacquire, Report
<1>2. CASE UiStep
  BY <1>2 DEF UiStep, PadThrows, ShowToast, NotifyAll
<1>3. CASE Environment
  BY <1>3 DEF Environment, StartTransaction, AttachFails, SpuriousWakeup,
              RecreateMain
<1>4. CASE UNCHANGED vars
  BY <1>4 DEF vars
<1>. QED
  BY <1>1, <1>2, <1>3, <1>4 DEF Next

(* The field forgets the answer of the previous attempt.                   *)
LEMMA EnterPinOnce ==
    ASSUME CoreTypes, OnceInv, PadsAge, NEW t \in Txn, EnterPin(t)
    PROVE  OnceInv'
<1>. USE DEF CoreTypes
<1>1. /\ pin' = [pin EXCEPT ![thiz[t]] = NoEntry]
      /\ pc' = [pc EXCEPT ![t] = "lock"]
      /\ UNCHANGED <<thiz, entered, stack, results, batch>>
  BY DEF EnterPin, Goto, thread, windows
<1>2. \A i \in Inst : pin'[i].pad \in {pin[i].pad, NoPad}
  BY <1>1 DEF NoEntry
<1>3. Held' = Held /\ Given' \subseteq Given \cup {NoPad}
  BY <1>1, <1>2 DEF Held, Given, PadsOf
<1>4. Places'
  BY <1>1, <1>3 DEF PadsAge, OnceInv, Places, PadsOf
<1>5. ASSUME NEW u \in Txn
      PROVE  FieldIsNew(u)'
  <2>1. thiz[u] \in Inst /\ thiz'[u] = thiz[u] /\ thiz[t] \in Inst
    BY <1>1
  <2>2. CASE thiz[u] = thiz[t]
    <3>1. pin'[thiz'[u]].pad = NoPad
      BY <1>1, <2>1, <2>2 DEF NoEntry
    <3>. QED
      BY <3>1 DEF FieldIsNew
  <2>3. CASE thiz[u] # thiz[t]
    <3>1. u # t /\ pc'[u] = pc[u] /\ pin'[thiz'[u]] = pin[thiz[u]]
      BY <1>1, <2>1, <2>3
    <3>. QED
      BY <1>1, <3>1 DEF OnceInv, FieldIsNew
  <2>. QED
    BY <2>2, <2>3
<1>. QED
  BY <1>1, <1>4, <1>5 DEF OnceInv, AnswerChargedOnce

(* No pad is launched twice.                                               *)
LEMMA LaunchOnce ==
    ASSUME CoreTypes, OnceInv, PadsAge, NEW t \in Txn, Launch(t)
    PROVE  OnceInv'
<1>. USE DEF CoreTypes
<1>1. PICK p \in Pad : p = <<t, ptc[t]>>
  BY DEF Launch, At, Settling, Pad
<1>2. /\ stack' = Append(stack, p)
      /\ pc[t] = "lock" /\ pc' = [pc EXCEPT ![t] = "launched"]
      /\ UNCHANGED <<ptc, thiz, pin, entered, results, batch>>
  BY <1>1 DEF Launch, At, Goto, thread, activity
<1>3. ptc[t] \in Nat
  OBVIOUS
<1>4. ~Opened(p) /\ Opened(p)'
  BY <1>1, <1>2, <1>3 DEF Opened, Unopened
<1>5. p \notin Held \cup Given
  BY <1>1, <1>4 DEF OnceInv, Places
<1>6. ToSet(stack') = ToSet(stack) \cup {p} /\ Distinct(stack')
  BY <1>1, <1>2, <1>5, ToSetAppend, DistinctAppend DEF Held, OnceInv, Places
<1>7. Held' = Held \cup {p} /\ Given' = Given
  BY <1>2, <1>6 DEF Held, Given, PadsOf
<1>8. Places'
  <2>1. \A q \in Pad \cap (Held' \cup Given') : Opened(q)'
    BY <1>4, <1>7 DEF PadsAge, OnceInv, Places
  <2>2. PadsOf(results)' = PadsOf(results) /\ PadsOf(batch)' = PadsOf(batch)
    BY <1>2 DEF PadsOf
  <2>3. ByPad(results)' /\ ByPad(batch)'
    BY <1>2 DEF OnceInv, Places
  <2>4. /\ ToSet(stack)' \cap PadsOf(results)' = {}
        /\ ToSet(stack)' \cap PadsOf(batch)' = {}
        /\ PadsOf(results)' \cap PadsOf(batch)' = {}
    BY <1>5, <1>6, <2>2 DEF OnceInv, Places, Held
  <2>5. Held' \subseteq Pad /\ Held' \cap Given' = {}
    BY <1>5, <1>7 DEF OnceInv, Places
  <2>. QED
    BY <1>6, <2>1, <2>3, <2>4, <2>5 DEF Places
<1>9. \A u \in Txn : FieldIsNew(u)'
  BY <1>2 DEF OnceInv, FieldIsNew, Answering
<1>. QED
  BY <1>2, <1>8, <1>9 DEF OnceInv, AnswerChargedOnce

(* enterPIN takes an answer out of the field that it was not charged yet.  *)
LEMMA ReturnPinOnce ==
    ASSUME CoreTypes, OnceInv, PadsAge, NEW t \in Txn, ReturnPin(t)
    PROVE  OnceInv'
<1>. USE DEF CoreTypes
<1>. DEFINE entry == pin[thiz[t]]
<1>1. /\ entry \in Entry /\ entered[t] \in Seq(Entry) /\ thiz[t] \in Inst
      /\ pc[t] = "return" /\ pc' = [pc EXCEPT ![t] = "compare"]
      /\ entered' = [entered EXCEPT ![t] = Append(@, entry)]
      /\ UNCHANGED <<thiz, pin, stack, results, batch>>
  BY DEF ReturnPin, At, Goto, activity, windows
<1>2. /\ entered'[t] = Append(entered[t], entry)
      /\ \A u \in Txn \ {t} : entered'[u] = entered[u]
  BY <1>1
<1>3. entry.pad \in Given
  BY <1>1 DEF Given
<1>4. \A e \in ToSet(entered[t]) : e.pad = entry.pad => e.pad = NoPad
  BY <1>1 DEF OnceInv, FieldIsNew, Answering
<1>. HIDE DEF entry
<1>5. ToSet(entered'[t]) = ToSet(entered[t]) \cup {entry}
  BY <1>1, <1>2, ToSetAppend
<1>6. Held' = Held /\ Given' = Given
  <2>1. \A u \in Txn : ToSet(entered[u]) \subseteq ToSet(entered'[u])
    BY <1>2, <1>5
  <2>2. \A u \in Txn : ToSet(entered'[u]) \subseteq ToSet(entered[u]) \cup {entry}
    BY <1>2, <1>5
  <2>3. {e.pad : e \in UNION {ToSet(entered'[u]) : u \in Txn}}
           \subseteq {e.pad : e \in UNION {ToSet(entered[u]) : u \in Txn}}
                        \cup {entry.pad}
    BY <2>2
  <2>4. {e.pad : e \in UNION {ToSet(entered[u]) : u \in Txn}}
           \subseteq {e.pad : e \in UNION {ToSet(entered'[u]) : u \in Txn}}
    BY <2>1
  <2>. QED
    BY <1>1, <1>3, <2>3, <2>4 DEF Held, Given, PadsOf
<1>7. Places'
  BY <1>1, <1>6 DEF PadsAge, OnceInv, Places, PadsOf
<1>8. \A u \in Txn : FieldIsNew(u)'
  BY <1>1, <1>2 DEF OnceInv, FieldIsNew, Answering
<1>9. AnswerChargedOnce'
  <2>. DEFINE n == Len(entered[t])
  <2>1. /\ DOMAIN entered[t] = 1..n /\ n \in Nat
        /\ DOMAIN entered'[t] = 1 .. n + 1
        /\ \A k \in 1..n : entered'[t][k] = entered[t][k]
        /\ entered'[t][n + 1] = entry
    BY <1>1, <1>2, AppendProperties
  <2>2. \A k \in 1..n : entered[t][k].pad = entry.pad => entered[t][k].pad = NoPad
    BY <1>4, <2>1 DEF ToSet
  <2>3. \A j, k \in 1..n : entered[t][j].pad = entered[t][k].pad /\ j # k
                           => entered[t][j].pad = NoPad
    BY <2>1 DEF OnceInv, AnswerChargedOnce
  <2>. HIDE DEF n
  <2>4. ASSUME NEW j \in 1 .. n + 1, NEW k \in 1 .. n + 1,
               entered'[t][j].pad = entered'[t][k].pad, j # k
        PROVE  entered'[t][j].pad = NoPad
    <3>1. CASE j \in 1..n /\ k \in 1..n
      BY <2>1, <2>3, <2>4, <3>1
    <3>2. CASE j = n + 1 /\ k \in 1..n
      BY <2>1, <2>2, <2>4, <3>2
    <3>3. CASE k = n + 1 /\ j \in 1..n
      BY <2>1, <2>2, <2>4, <3>3
    <3>. QED
      BY <2>1, <2>4, <3>1, <3>2, <3>3
  <2>5. ASSUME NEW u \in Txn \ {t}, NEW j \in DOMAIN entered'[u],
               NEW k \in DOMAIN entered'[u],
               entered'[u][j].pad = entered'[u][k].pad, j # k
        PROVE  entered'[u][j].pad = NoPad
    BY <1>2, <2>5 DEF OnceInv, AnswerChargedOnce
  <2>. QED
    BY <2>1, <2>4, <2>5 DEF AnswerChargedOnce
<1>. QED
  BY <1>7, <1>8, <1>9 DEF OnceInv

(* A pad that leaves the stack becomes a result, and only one.             *)
LEMMA CloseOnce ==
    ASSUME CoreTypes, OnceInv, PadsAge, stack # <<>>,
           NEW r \in Result, r.entry.pad = Last(stack),
           stack' = Front(stack), results' = Append(results, r),
           batch' \in {batch, <<>>}, UNCHANGED <<thiz, pin, entered>>,
           \A u \in Txn : pc'[u] \in Answering => pc[u] \in Answering
    PROVE  OnceInv'
<1>. USE DEF CoreTypes
<1>1. stack # <<>> /\ stack \in Seq(Pad) /\ results \in Seq(Result)
  OBVIOUS
<1>2. PICK p \in Pad : p = Last(stack)
  BY <1>1, FrontLast
<1>3. /\ stack' = Front(stack) /\ results' = Append(results, r)
      /\ r.entry.pad = p
      /\ UNCHANGED <<thiz, pin, entered>>
  BY <1>2
<1>4. /\ ToSet(stack) = ToSet(stack') \cup {p}
      /\ p \notin ToSet(stack') /\ Distinct(stack')
  BY <1>1, <1>2, <1>3, ToSetFront, DistinctFront DEF OnceInv, Places
<1>5. p \notin PadsOf(results) /\ p \notin PadsOf(batch)
  BY <1>4 DEF OnceInv, Places
<1>6. ByPad(results') /\ PadsOf(results') = PadsOf(results) \cup {p}
  BY <1>1, <1>3, <1>5, ByPadAppend DEF OnceInv, Places
<1>7. PadsOf(batch') \subseteq PadsOf(batch) /\ ByPad(batch')
  <2>1. ByPad(<<>>) /\ PadsOf(<<>>) = {}
    BY ToSetEmpty DEF ByPad, PadsOf
  <2>. QED
    BY <2>1 DEF OnceInv, Places
<1>8. /\ ToSet(stack)' = ToSet(stack') /\ PadsOf(results)' = PadsOf(results')
      /\ PadsOf(batch)' = PadsOf(batch')
  BY DEF PadsOf
<1>9. Held' \subseteq Held /\ Given' = Given
  BY <1>3, <1>4, <1>6, <1>7, <1>8 DEF Held, Given
<1>10. Places'
  <2>1. \A q \in Pad \cap (Held' \cup Given') : Opened(q)'
    BY <1>9 DEF PadsAge, OnceInv, Places
  <2>2. /\ ToSet(stack') \cap PadsOf(results') = {}
        /\ ToSet(stack') \cap PadsOf(batch') = {}
        /\ PadsOf(results') \cap PadsOf(batch') = {}
    BY <1>4, <1>5, <1>6, <1>7 DEF OnceInv, Places
  <2>3. Held' \subseteq Pad /\ Held' \cap Given' = {}
    BY <1>9 DEF OnceInv, Places
  <2>. QED
    BY <1>4, <1>6, <1>7, <1>8, <2>1, <2>2, <2>3 DEF Places, Distinct, ByPad
<1>11. (\A u \in Txn : FieldIsNew(u)') /\ AnswerChargedOnce'
  BY <1>3 DEF OnceInv, FieldIsNew, AnswerChargedOnce
<1>. QED
  BY <1>10, <1>11 DEF OnceInv

LEMMA CloseTopPadOnce ==
    ASSUME CoreTypes, OnceInv, PadsAge, NEW ok \in BOOLEAN,
           NEW v \in Pins, CloseTopPad(ok, v)
    PROVE  OnceInv'
<1>1. stack # <<>> /\ Last(stack) \in Pad
  BY FrontLast DEF CloseTopPad, CoreTypes
<1>2. PICK r \in Result :
         r = [ok |-> ok, entry |-> [val |-> v, pad |-> Last(stack)]]
  BY <1>1 DEF Result, Entry
<1>3. /\ stack' = Front(stack) /\ results' = Append(results, r)
      /\ UNCHANGED <<pc, thiz, pin, entered, batch>>
  BY <1>2 DEF CloseTopPad, thread, activity
<1>4. r.entry.pad = Last(stack)
  BY <1>2
<1>. QED
  BY <1>1, <1>3, <1>4, CloseOnce

(* The pending results change hands as one message.                        *)
LEMMA ResumeMainOnce ==
    ASSUME CoreTypes, OnceInv, PadsAge, ResumeMain
    PROVE  OnceInv'
<1>1. /\ batch = <<>> /\ batch' = results /\ results' = <<>>
      /\ UNCHANGED <<pc, thiz, pin, entered, stack>>
  BY DEF ResumeMain, UiIdle, thread, activity
<1>2. /\ PadsOf(results') = {} /\ PadsOf(batch) = {}
      /\ PadsOf(batch') = PadsOf(results)
  BY <1>1, ToSetEmpty DEF PadsOf
<1>3. /\ ToSet(stack)' = ToSet(stack) /\ PadsOf(results)' = PadsOf(results')
      /\ PadsOf(batch)' = PadsOf(batch')
  BY <1>1 DEF PadsOf
<1>4. Held' = Held /\ Given' = Given
  BY <1>1, <1>2, <1>3 DEF Held, Given
<1>5. Places'
  <2>1. \A q \in Pad \cap (Held' \cup Given') : Opened(q)'
    BY <1>4 DEF PadsAge, OnceInv, Places
  <2>2. Distinct(stack)' /\ ByPad(results)' /\ ByPad(batch)'
    BY <1>1 DEF OnceInv, Places, Distinct, ByPad
  <2>. QED
    BY <1>2, <1>3, <1>4, <2>1, <2>2 DEF OnceInv, Places
<1>6. (\A u \in Txn : FieldIsNew(u)') /\ AnswerChargedOnce'
  BY <1>1 DEF OnceInv, FieldIsNew, AnswerChargedOnce
<1>. QED
  BY <1>5, <1>6 DEF OnceInv

(* One result is taken out of the batch: it goes nowhere, or to a field.   *)
LEMMA TakeResult ==
    ASSUME CoreTypes, OnceInv, PadsAge, batch # <<>>, batch' = Tail(batch),
           UNCHANGED <<stack, results>>,
           Given' \subseteq Given \cup {Head(batch).entry.pad}
    PROVE  Places'
<1>. DEFINE p == Head(batch).entry.pad
<1>1. batch \in Seq(Result)
  BY DEF CoreTypes
<1>2. /\ ByPad(batch') /\ PadsOf(batch) = PadsOf(batch') \cup {p}
      /\ p \notin PadsOf(batch')
  BY <1>1, ByPadTail DEF OnceInv, Places
<1>3. /\ ToSet(stack)' = ToSet(stack) /\ PadsOf(results)' = PadsOf(results)
      /\ PadsOf(batch)' = PadsOf(batch')
  BY DEF PadsOf
<1>. HIDE DEF p
<1>4. Held = Held' \cup {p} /\ p \notin Held'
  BY <1>2, <1>3 DEF Held, OnceInv, Places
<1>5. \A q \in Pad \cap (Held' \cup Given') : Opened(q)'
  BY <1>4 DEF PadsAge, OnceInv, Places, p
<1>6. Distinct(stack)' /\ ByPad(results)' /\ ByPad(batch)'
  BY <1>2 DEF OnceInv, Places, Distinct, ByPad
<1>7. Held' \subseteq Pad /\ Held' \cap Given' = {}
  BY <1>4 DEF OnceInv, Places, p
<1>. QED
  BY <1>2, <1>3, <1>5, <1>6, <1>7 DEF OnceInv, Places

(* The field gets an answer that no transaction was charged yet.           *)
LEMMA OnResultOkOnce ==
    ASSUME CoreTypes, OnceInv, PadsAge, OnResultOk
    PROVE  OnceInv'
<1>. USE DEF CoreTypes
<1>1. /\ batch # <<>> /\ batch' = Tail(batch) /\ cur \in Inst
      /\ pin' = [pin EXCEPT ![cur] = Head(batch).entry]
      /\ UNCHANGED <<pc, thiz, entered, stack, results>>
  BY DEF OnResultOk, thread
<1>2. PICK p : p = Head(batch).entry.pad
  OBVIOUS
<1>3. p \in Held /\ p \in Pad
  BY <1>1, <1>2, ByPadTail DEF Held, OnceInv, Places
<1>4. p \notin Given
  BY <1>3 DEF OnceInv, Places
<1>5. \A i \in Inst : pin'[i].pad = IF i = cur THEN p ELSE pin[i].pad
  BY <1>1, <1>2
<1>6. Given' \subseteq Given \cup {p}
  BY <1>1, <1>5 DEF Given
<1>7. Places'
  BY <1>1, <1>2, <1>6, TakeResult
<1>8. ASSUME NEW u \in Txn
      PROVE  FieldIsNew(u)'
  <2>1. thiz[u] \in Inst
    OBVIOUS
  <2>2. \A e \in ToSet(entered[u]) : e.pad # p
    BY <1>4 DEF Given
  <2>. QED
    BY <1>1, <1>5, <2>1, <2>2 DEF OnceInv, FieldIsNew
<1>9. AnswerChargedOnce'
  BY <1>1 DEF OnceInv, AnswerChargedOnce
<1>. QED
  BY <1>7, <1>8, <1>9 DEF OnceInv

LEMMA OnResultCancelledOnce ==
    ASSUME CoreTypes, OnceInv, PadsAge, OnResultCancelled
    PROVE  OnceInv'
<1>1. /\ batch # <<>> /\ batch' = Tail(batch)
      /\ UNCHANGED <<pc, thiz, pin, entered, stack, results>>
  BY DEF OnResultCancelled, thread, activity
<1>2. Given' = Given
  BY <1>1 DEF Given
<1>3. Places'
  BY <1>1, <1>2, TakeResult
<1>4. (\A u \in Txn : FieldIsNew(u)') /\ AnswerChargedOnce'
  BY <1>1 DEF OnceInv, FieldIsNew, AnswerChargedOnce
<1>. QED
  BY <1>3, <1>4 DEF OnceInv

LEMMA NextOnce ==
    ASSUME TypeInv, OnceInv, [Next]_vars
    PROVE  OnceInv'
<1>. CoreTypes /\ PadsAge
  BY TypeIsCore, NextAges
<1>1. CASE \E t \in Txn : EnterPin(t) \/ Launch(t) \/ ReturnPin(t)
  BY <1>1, EnterPinOnce, LaunchOnce, ReturnPinOnce
<1>2. CASE PressBack \/ \E v \in Pins : PressOk(v)
  <2>1. PICK ok \in BOOLEAN, v \in Pins : CloseTopPad(ok, v)
    BY <1>2 DEF PressOk, PressBack
  <2>. QED
    BY <2>1, CloseTopPadOnce
<1>3. CASE ResumeMain \/ OnResultOk \/ OnResultCancelled
  BY <1>3, ResumeMainOnce, OnResultOkOnce, OnResultCancelledOnce
<1>4. CASE ~ \/ \E t \in Txn : EnterPin(t) \/ Launch(t) \/ ReturnPin(t)
             \/ PressBack \/ \E v \in Pins : PressOk(v)
             \/ ResumeMain \/ OnResultOk \/ OnResultCancelled
  <2>1. AnswersRest
    BY <1>4, RestingSteps
  <2>. QED
    BY <2>1, AnswersRestKeeps
<1>. QED
  BY <1>1, <1>2, <1>3, <1>4

(* One answer of the user is never charged against two attempts of one     *)
(* transaction, however many transactions share the field, whatever wakes  *)
(* their threads, and however often the activity is replaced: the reset    *)
(* of pin at the start of enterPIN in MainActivity.java is enough.         *)
THEOREM ChargedOnce == Spec => []AnswerChargedOnce
<1>1. Spec => []TypeInv
  BY InitType, NextType, PTL DEF Spec
<1>2. OnceInv => AnswerChargedOnce
  BY DEF OnceInv
<1>. QED
  BY <1>1, <1>2, InitOnce, NextOnce, PTL DEF Spec

-----------------------------------------------------------------------------
(***************************************************************************)
(* Calls of enterPIN that take turns, and a wait() that only notifyAll     *)
(* ends: all the answers are own.                                          *)
(***************************************************************************)
(* The answer to the attempt that is open is in one place: in the window,  *)
(* among the results, in the batch, or in the field with its notifyAll     *)
(* due; or there is none, because none was asked for, the thread has been  *)
(* woken for it, the user refused it, or a new activity took it.           *)
MyPad(t)      == <<t, ptc[t]>>
OnlyOne(s, p) == Len(s) = 1 /\ s[1].entry.pad = p

Nowhere      == stack = <<>> /\ results = <<>> /\ batch = <<>>
InWindow(p)  == /\ stack = <<p>> /\ results = <<>> /\ batch = <<>>
                /\ ui # "notifying"
InResults(p) == /\ stack = <<>> /\ OnlyOne(results, p) /\ batch = <<>>
                /\ ui # "notifying"
InBatch(p)   == /\ stack = <<>> /\ results = <<>> /\ OnlyOne(batch, p)
                /\ ui # "notifying"
InField(p)   == Nowhere /\ ui = "notifying" /\ pin[cur].pad = p
Absent       == Nowhere /\ ui # "notifying"

Placed(p) ==
    InWindow(p) \/ InResults(p) \/ InBatch(p) \/ InField(p) \/ Absent

Inside    == {"launched", "waiting"}
Delivered == {"woken", "return"}

(* A thread inside the call has its answer ahead of it, one that was woken *)
(* has it in the field, and nothing is under way when no thread is inside. *)
OnTurn(t) ==
    /\ pc[t] \in Inside => Placed(MyPad(t))
    /\ pc[t] \in Delivered => pin[thiz[t]].pad = MyPad(t)

Vacant == (\A t \in Txn : pc[t] \notin Inside) => Absent

TurnInv == Vacant /\ \A t \in Txn : OnTurn(t)

(* The attempts spent are the answers received.                            *)
CountInv ==
    \A t \in Txn :
        /\ Phase(pc[t]) = "asking" => Len(entered[t]) + ptc[t] = Tries
        /\ pc[t] = "compare" => Len(entered[t]) + ptc[t] = Tries + 1

LEMMA InitTurn == Init => AnswersAreOwn /\ CountInv /\ TurnInv
<1>. SUFFICES ASSUME Init PROVE AnswersAreOwn /\ CountInv /\ TurnInv
  OBVIOUS
<1>1. \A t \in Txn : pc[t] = "idle" /\ ptc[t] = Tries /\ entered[t] = <<>>
  BY DEF Init
<1>2. Absent
  BY DEF Init, Absent, Nowhere
<1>3. AnswersAreOwn /\ CountInv
  BY <1>1, EmptySeq DEF AnswersAreOwn, CountInv, Phase
<1>. QED
  BY <1>1, <1>2, <1>3 DEF TurnInv, Vacant, OnTurn, Inside, Delivered

(* Counting.                                                               *)
LEMMA SameProgressCount ==
    ASSUME CountInv, \A u \in Txn : SameProgress(u)
    PROVE  CountInv'
  BY DEF CountInv, SameProgress, Phase

LEMMA ReportCount ==
    ASSUME CoreTypes, CountInv, NEW t \in Txn, Report(t)
    PROVE  CountInv'
  BY DEF CoreTypes, CountInv, Report, At, Goto, Phase

LEMMA CompareCount ==
    ASSUME CoreTypes, CountInv, NEW t \in Txn, Compare(t)
    PROVE  CountInv'
<1>1. PICK seen : LET left == IF Accepted(seen) THEN ptc[t] ELSE ptc[t] - 1
                  IN  /\ ptc' = [ptc EXCEPT ![t] = left]
                      /\ Goto(t, IF Again(Accepted(seen), left)
                                 THEN "enter" ELSE "report")
  BY DEF Compare
<1>2. /\ pc[t] = "compare" /\ ptc[t] \in Nat /\ entered' = entered
      /\ Len(entered[t]) \in Nat
  BY LenProperties DEF Compare, At, CoreTypes
<1>3. /\ pc'[t] \in {"enter", "report"}
      /\ pc'[t] = "enter" => ptc'[t] = ptc[t] - 1
  BY <1>1 DEF Again, Goto, CoreTypes
<1>4. \A u \in Txn \ {t} : pc'[u] = pc[u] /\ ptc'[u] = ptc[u]
  BY <1>1 DEF Goto, CoreTypes
<1>5. Len(entered[t]) + ptc[t] = Tries + 1
  BY <1>2 DEF CountInv
<1>. QED
  BY <1>2, <1>3, <1>4, <1>5 DEF CountInv, Phase

(* What enterPIN returns was typed in the pad of this attempt.             *)
LEMMA ReturnPinOwn ==
    ASSUME CoreTypes, AnswersAreOwn, CountInv, TurnInv, NEW t \in Txn,
           ReturnPin(t)
    PROVE  AnswersAreOwn' /\ CountInv'
<1>. DEFINE n == Len(entered[t])
<1>1. /\ pc[t] = "return" /\ ptc[t] \in Nat
      /\ pin[thiz[t]] \in Entry /\ entered[t] \in Seq(Entry)
      /\ entered' = [entered EXCEPT ![t] = Append(@, pin[thiz[t]])]
      /\ pc' = [pc EXCEPT ![t] = "compare"] /\ ptc' = ptc
  BY DEF ReturnPin, At, Goto, CoreTypes
<1>2. pin[thiz[t]].pad = <<t, ptc[t]>> /\ n + ptc[t] = Tries
  BY <1>1 DEF TurnInv, OnTurn, Delivered, MyPad, CountInv, Phase
<1>3. /\ n \in Nat /\ DOMAIN entered[t] = 1..n
      /\ entered'[t] = Append(entered[t], pin[thiz[t]])
      /\ DOMAIN entered'[t] = 1 .. n + 1 /\ Len(entered'[t]) = n + 1
      /\ \A k \in 1..n : entered'[t][k] = entered[t][k]
      /\ entered'[t][n + 1].pad = <<t, ptc[t]>>
  <2>1. entered'[t] = Append(entered[t], pin[thiz[t]])
    BY <1>1 DEF CoreTypes
  <2>. QED
    BY <1>1, <1>2, <2>1, AppendProperties
<1>4. \A u \in Txn \ {t} : entered'[u] = entered[u] /\ pc'[u] = pc[u]
  BY <1>1 DEF CoreTypes
<1>5. \A k \in 1..n : entered[t][k].pad = <<t, Tries + 1 - k>>
  BY <1>3 DEF AnswersAreOwn
<1>6. Len(entered'[t]) + ptc'[t] = Tries + 1 /\ pc'[t] = "compare"
  BY <1>1, <1>2, <1>3 DEF CoreTypes
<1>. HIDE DEF n
<1>7. ptc[t] = Tries + 1 - (n + 1)
  <2>1. ptc[t] \in Nat /\ n \in Nat /\ n + ptc[t] = Tries /\ Tries \in Nat
    BY <1>1, <1>2, <1>3
  <2>. QED
    BY <2>1
<1>8. ASSUME NEW k \in 1 .. n + 1
      PROVE  entered'[t][k].pad = <<t, Tries + 1 - k>>
  <2>1. CASE k = n + 1
    BY <1>3, <1>7, <2>1
  <2>2. CASE k # n + 1
    <3>1. k \in 1..n
      BY <1>3, <2>2
    <3>. QED
      BY <1>3, <1>5, <3>1
  <2>. QED
    BY <2>1, <2>2
<1>9. AnswersAreOwn'
  BY <1>3, <1>4, <1>8 DEF AnswersAreOwn
<1>10. CountInv'
  BY <1>1, <1>4, <1>6 DEF CountInv, Phase
<1>. QED
  BY <1>9, <1>10

(* Where the answer is.  Steps that move no window or result, wake nobody  *)
(* and ask for nothing.                                                    *)
QuietTurn ==
    /\ UNCHANGED <<stack, results, batch, pin>>
    /\ ui' \in {ui, "dead"} /\ (ui = "notifying" => cur' = cur)
    /\ \A u \in Txn :
          /\ pc'[u] \in Inside <=> pc[u] \in Inside
          /\ pc'[u] \in Delivered => pc[u] \in Delivered \cup {"woken"}
          /\ pc[u] \in Inside \cup Delivered =>
                ptc'[u] = ptc[u] /\ thiz'[u] = thiz[u]

LEMMA QuietTurnKeeps ==
    ASSUME TurnInv, QuietTurn
    PROVE  TurnInv'
<1>1. ASSUME NEW p, Placed(p)
      PROVE  Placed(p)'
  BY <1>1 DEF QuietTurn, Placed, InWindow, InResults, InBatch, InField, Absent,
              Nowhere, OnlyOne
<1>2. Absent => Absent'
  BY DEF QuietTurn, Absent, Nowhere
<1>3. Vacant'
  BY <1>2 DEF TurnInv, Vacant, QuietTurn
<1>4. ASSUME NEW u \in Txn PROVE OnTurn(u)'
  <2>1. CASE pc'[u] \in Inside
    <3>1. Placed(MyPad(u)) /\ MyPad(u)' = MyPad(u)
      BY <2>1 DEF TurnInv, OnTurn, QuietTurn, MyPad
    <3>2. PICK p : p = MyPad(u)
      OBVIOUS
    <3>3. Placed(p)'
      BY <1>1, <3>1, <3>2
    <3>. QED
      BY <2>1, <3>1, <3>2, <3>3 DEF OnTurn, Inside, Delivered
  <2>2. CASE pc'[u] \in Delivered
    BY <2>2 DEF TurnInv, OnTurn, QuietTurn, MyPad, Inside, Delivered
  <2>3. CASE pc'[u] \notin Inside \cup Delivered
    BY <2>3 DEF OnTurn
  <2>. QED
    BY <2>1, <2>2, <2>3
<1>. QED
  BY <1>3, <1>4 DEF TurnInv

LEMMA ThreadTurn ==
    ASSUME CoreTypes, TurnInv, NEW t \in Txn,
           \/ ThreadStep(t) \/ StartTransaction(t) \/ AttachFails(t)
           \/ ShowToast(t),
           ~EnterPin(t), ~Launch(t)
    PROVE  TurnInv'
<1>1. QuietTurn
  BY DEF ThreadStep, ParseTrd, RejectTrd, LaunchThrows, Wait, Reacquire,
         ReturnPin, Compare, Report, StartTransaction, AttachFails, ShowToast,
         QuietTurn, Inside, Delivered, CoreTypes, At, Goto, Again, thread,
         activity, windows
<1>. QED
  BY <1>1, QuietTurnKeeps

(* A call begins when no other one is on its way.                          *)
LEMMA EnterTurn ==
    ASSUME CoreTypes, TurnInv, CallsTakeTurns', NEW t \in Txn, EnterPin(t)
    PROVE  TurnInv'
<1>1. /\ pc[t] = "enter" /\ pc' = [pc EXCEPT ![t] = "lock"]
      /\ UNCHANGED <<stack, results, batch, ui>>
  BY DEF EnterPin, At, Goto, windows
<1>2. \A u \in Txn : pc'[u] \notin Inside \cup Delivered
  BY <1>1 DEF CallsTakeTurns, InEnterPin, Inside, Delivered, CoreTypes
<1>3. \A u \in Txn : pc[u] \notin Inside
  BY <1>1, <1>2 DEF CoreTypes, Inside
<1>4. Absent'
  BY <1>1, <1>3 DEF TurnInv, Vacant, Absent, Nowhere
<1>. QED
  BY <1>2, <1>4 DEF TurnInv, Vacant, OnTurn

LEMMA LaunchTurn ==
    ASSUME CoreTypes, TurnInv, CallsTakeTurns, NEW t \in Txn, Launch(t)
    PROVE  TurnInv'
<1>1. /\ pc[t] = "lock" /\ pc' = [pc EXCEPT ![t] = "launched"]
      /\ stack' = Append(stack, MyPad(t))
      /\ UNCHANGED <<ptc, results, batch, ui>>
  BY DEF Launch, At, Goto, MyPad, thread
<1>2. \A u \in Txn \ {t} : pc'[u] \notin Inside \cup Delivered
  BY <1>1 DEF CallsTakeTurns, InEnterPin, Inside, Delivered, CoreTypes
<1>3. \A u \in Txn : pc[u] \notin Inside
  BY <1>1, <1>2 DEF CoreTypes, Inside
<1>4. Absent
  BY <1>3 DEF TurnInv, Vacant
<1>5. stack' = <<MyPad(t)>> /\ MyPad(t)' = MyPad(t)
  BY <1>1, <1>4 DEF Absent, Nowhere, MyPad
<1>6. InWindow(MyPad(t))'
  BY <1>1, <1>4, <1>5 DEF InWindow, Absent, Nowhere
<1>7. pc'[t] \in Inside /\ pc'[t] \notin Delivered
  BY <1>1 DEF Inside, Delivered, CoreTypes
<1>8. OnTurn(t)'
  BY <1>6, <1>7 DEF OnTurn, Placed
<1>. QED
  BY <1>2, <1>7, <1>8 DEF TurnInv, Vacant, OnTurn

(* A window, a result or a pending notifyAll is that of the one call that  *)
(* is on its way.                                                          *)
LEMMA SomeoneInside ==
    ASSUME TurnInv, CallsTakeTurns, ~Absent
    PROVE  \E t \in Txn :
              /\ pc[t] \in Inside /\ Placed(MyPad(t))
              /\ \A u \in Txn \ {t} : pc[u] \notin Inside \cup Delivered
  BY DEF TurnInv, Vacant, OnTurn, CallsTakeTurns, InEnterPin, Inside, Delivered

(* Steps of the UI thread and of the user move the answer on.              *)
LEMMA MoveTurn ==
    ASSUME NEW t \in Txn, UNCHANGED <<pc, ptc, thiz>>, pc[t] \in Inside,
           \A u \in Txn \ {t} : pc[u] \notin Inside \cup Delivered,
           Placed(MyPad(t))'
    PROVE  TurnInv'
<1>1. OnTurn(t)'
  BY DEF OnTurn, Inside, Delivered
<1>. QED
  BY <1>1 DEF TurnInv, Vacant, OnTurn

LEMMA CloseTurn ==
    ASSUME CoreTypes, TurnInv, CallsTakeTurns, NEW ok \in BOOLEAN,
           NEW v \in Pins, CloseTopPad(ok, v)
    PROVE  TurnInv'
<1>1. PICK t \in Txn :
         /\ pc[t] \in Inside /\ Placed(MyPad(t))
         /\ \A u \in Txn \ {t} : pc[u] \notin Inside \cup Delivered
  BY SomeoneInside DEF CloseTopPad, Absent, Nowhere
<1>2. InWindow(MyPad(t))
  BY <1>1 DEF CloseTopPad, Placed, InWindow, InResults, InBatch, InField,
              Absent, Nowhere
<1>3. PICK p : p = MyPad(t)
  OBVIOUS
<1>4. stack = <<p>> /\ Front(stack) = <<>> /\ Last(stack) = p
  BY <1>2, <1>3 DEF InWindow, Front, Last
<1>5. /\ stack' = <<>> /\ batch' = <<>> /\ ui' # "notifying"
      /\ results' = <<[ok |-> ok, entry |-> [val |-> v, pad |-> p]]>>
      /\ UNCHANGED <<pc, ptc, thiz>>
  BY <1>2, <1>4 DEF CloseTopPad, InWindow, thread, activity
<1>6. MyPad(t)' = p
  BY <1>3, <1>5 DEF MyPad
<1>7. InResults(MyPad(t))'
  BY <1>5, <1>6 DEF InResults, OnlyOne
<1>. QED
  BY <1>1, <1>5, <1>7, MoveTurn DEF Placed

LEMMA ResumeMainTurn ==
    ASSUME TurnInv, CallsTakeTurns, ResumeMain
    PROVE  TurnInv'
<1>1. results # <<>> /\ batch' = results /\ results' = <<>> /\ ui = "looper"
      /\ UNCHANGED <<pc, ptc, thiz, stack, ui>>
  BY DEF ResumeMain, UiIdle, thread
<1>2. PICK t \in Txn :
         /\ pc[t] \in Inside /\ Placed(MyPad(t))
         /\ \A u \in Txn \ {t} : pc[u] \notin Inside \cup Delivered
  BY <1>1, SomeoneInside DEF Absent, Nowhere
<1>3. InResults(MyPad(t))
  BY <1>1, <1>2 DEF Placed, InWindow, InResults, InBatch, InField, Absent,
                    Nowhere
<1>4. MyPad(t)' = MyPad(t)
  BY <1>1 DEF MyPad
<1>5. InBatch(MyPad(t))'
  BY <1>1, <1>3, <1>4 DEF InBatch, InResults, OnlyOne
<1>. QED
  BY <1>1, <1>2, <1>5, MoveTurn DEF Placed

LEMMA OneResult ==
    ASSUME NEW s \in Seq(Result), NEW p, OnlyOne(s, p)
    PROVE  /\ s # <<>> /\ Tail(s) = <<>>
           /\ Head(s) \in Result /\ Head(s).entry.pad = p
<1>1. s # <<>>
  BY EmptySeq DEF OnlyOne
<1>2. /\ Head(s) = s[1] /\ Head(s) \in Result
      /\ Tail(s) \in Seq(Result) /\ Len(Tail(s)) = 0
  BY <1>1, HeadTailProperties DEF OnlyOne
<1>. QED
  BY <1>1, <1>2, EmptySeq DEF OnlyOne

LEMMA OnResultTurn ==
    ASSUME CoreTypes, TurnInv, CallsTakeTurns, OnResultOk \/ OnResultCancelled
    PROVE  TurnInv'
<1>1. /\ batch # <<>> /\ batch' = Tail(batch) /\ batch \in Seq(Result)
      /\ UNCHANGED <<pc, ptc, thiz, cur, stack, results>>
  BY DEF OnResultOk, OnResultCancelled, thread, activity, CoreTypes
<1>2. PICK t \in Txn :
         /\ pc[t] \in Inside /\ Placed(MyPad(t))
         /\ \A u \in Txn \ {t} : pc[u] \notin Inside \cup Delivered
  BY <1>1, SomeoneInside DEF Absent, Nowhere
<1>3. InBatch(MyPad(t))
  BY <1>1, <1>2 DEF Placed, InWindow, InResults, InBatch, InField, Absent,
                    Nowhere
<1>4. PICK p : p = MyPad(t)
  OBVIOUS
<1>5. MyPad(t)' = p
  BY <1>1, <1>4 DEF MyPad
<1>6. batch' = <<>> /\ Head(batch) \in Result /\ Head(batch).entry.pad = p
  BY <1>1, <1>3, <1>4, OneResult DEF InBatch
<1>7. Placed(p)'
  <2>1. CASE OnResultOk
    <3>1. /\ pin' = [pin EXCEPT ![cur] = Head(batch).entry]
          /\ ui' = "notifying"
      BY <2>1 DEF OnResultOk
    <3>2. pin'[cur'].pad = p
      BY <1>1, <1>6, <3>1 DEF CoreTypes
    <3>. QED
      BY <1>1, <1>3, <1>6, <3>1, <3>2 DEF Placed, InField, Nowhere, InBatch
  <2>2. CASE OnResultCancelled
    BY <1>1, <1>3, <1>6, <2>2
    DEF OnResultCancelled, Placed, Absent, Nowhere, InBatch
  <2>. QED
    BY <2>1, <2>2
<1>. QED
  BY <1>1, <1>2, <1>5, <1>7, MoveTurn

LEMMA NotifyAllTurn ==
    ASSUME CoreTypes, TurnInv, CallsTakeTurns, NotifyAll
    PROVE  TurnInv'
<1>1. /\ ui = "notifying" /\ ui' = "looper"
      /\ UNCHANGED <<ptc, thiz, pin, cur, stack, results, batch>>
      /\ pc' = [u \in Txn |-> IF pc[u] = "waiting" /\ thiz[u] = cur
                              THEN "woken" ELSE pc[u]]
  BY DEF NotifyAll, thread, activity, windows
<1>2. PICK t \in Txn :
         /\ pc[t] \in Inside /\ Placed(MyPad(t))
         /\ \A u \in Txn \ {t} : pc[u] \notin Inside \cup Delivered
  BY <1>1, SomeoneInside DEF Absent
<1>3. InField(MyPad(t)) /\ MyPad(t)' = MyPad(t)
  BY <1>1, <1>2 DEF Placed, InWindow, InResults, InBatch, InField, Absent, MyPad
<1>4. Absent'
  BY <1>1, <1>3 DEF Absent, Nowhere, InField
<1>5. \A u \in Txn \ {t} : pc'[u] \notin Inside \cup Delivered
  BY <1>1, <1>2 DEF Inside
<1>6. OnTurn(t)'
  <2>1. CASE pc'[t] \in Inside
    BY <1>4, <2>1 DEF OnTurn, Placed, Inside, Delivered
  <2>2. CASE pc'[t] \notin Inside
    <3>1. thiz[t] = cur
      BY <1>1, <1>2, <2>2
    <3>2. pin'[thiz'[t]].pad = MyPad(t)
      BY <1>1, <1>3, <3>1 DEF InField
    <3>. QED
      BY <1>3, <2>2, <3>2 DEF OnTurn
  <2>. QED
    BY <2>1, <2>2
<1>. QED
  BY <1>4, <1>5, <1>6 DEF TurnInv, Vacant, OnTurn

LEMMA NextTurn ==
    ASSUME SpuriousWakeups = FALSE, CoreTypes, TurnInv, CallsTakeTurns,
           CallsTakeTurns', [Next]_vars
    PROVE  TurnInv'
<1>1. ASSUME NEW t \in Txn, ThreadStep(t)
      PROVE  TurnInv'
  BY <1>1, ThreadTurn, EnterTurn, LaunchTurn
<1>2. CASE PadThrows \/ RecreateMain \/ UNCHANGED vars
  <2>1. QuietTurn
    BY <1>2 DEF PadThrows, RecreateMain, UiIdle, vars, thread, activity,
                windows, QuietTurn
  <2>. QED
    BY <2>1, QuietTurnKeeps
<1>3. ASSUME NEW t \in Txn, ShowToast(t) \/ StartTransaction(t) \/ AttachFails(t)
      PROVE  TurnInv'
  <2>1. ~EnterPin(t) /\ ~Launch(t)
    BY <1>3 DEF ShowToast, StartTransaction, AttachFails, EnterPin, Launch, At
  <2>. QED
    BY <1>3, <2>1, ThreadTurn
<1>4. CASE UiStep
  BY <1>2, <1>3, <1>4, ResumeMainTurn, OnResultTurn, NotifyAllTurn DEF UiStep
<1>5. CASE Environment
  <2>1. ~ \E t \in Txn : SpuriousWakeup(t)
    BY DEF SpuriousWakeup
  <2>. QED
    BY <1>2, <1>3, <1>5, <2>1, CloseTurn, TransactionAssumption
    DEF Environment, PressOk, PressBack
<1>. QED
  BY <1>1, <1>2, <1>4, <1>5 DEF Next

LEMMA NextOwn ==
    ASSUME TypeInv, AnswersAreOwn, CountInv, TurnInv, [Next]_vars
    PROVE  AnswersAreOwn' /\ CountInv'
<1>1. CASE \E t \in Txn : ReturnPin(t)
  BY <1>1, ReturnPinOwn, TypeIsCore
<1>2. CASE ~ \E t \in Txn : ReturnPin(t)
  <2>1. entered' = entered
    BY <1>2 DEF Next, vars, thread, ThreadStep, ParseTrd, RejectTrd, EnterPin,
       Launch, LaunchThrows, Wait, Reacquire, Compare, Report, UiStep,
       PadThrows, ResumeMain, OnResultOk, OnResultCancelled, NotifyAll,
       ShowToast, Environment, StartTransaction, AttachFails, SpuriousWakeup,
       PressOk, PressBack, CloseTopPad, RecreateMain
  <2>2. AnswersAreOwn'
    BY <2>1 DEF AnswersAreOwn
  <2>3. CountInv'
    <3>1. CASE \E t \in Txn : Compare(t) \/ Report(t)
      BY <3>1, CompareCount, ReportCount, TypeIsCore
    <3>2. CASE ~ \E t \in Txn : Compare(t) \/ Report(t)
      BY <1>2, <3>2, QuietSteps, SameProgressCount DEF Deciding
    <3>. QED
      BY <3>1, <3>2
  <2>. QED
    BY <2>2, <2>3
<1>. QED
  BY <1>1, <1>2

OwnInv == AnswersAreOwn /\ CountInv /\ TurnInv

LEMMA TurnsKeepOwnInv ==
    SpuriousWakeups = FALSE /\ Spec => ([]CallsTakeTurns => [](TypeInv /\ OwnInv))
<1>1. Init => TypeInv /\ OwnInv
  BY InitType, InitTurn DEF OwnInv
<1>2. ASSUME SpuriousWakeups = FALSE, TypeInv, OwnInv, [Next]_vars,
             CallsTakeTurns, CallsTakeTurns'
      PROVE  TypeInv' /\ OwnInv'
  BY <1>2, NextType, NextOwn, NextTurn, TypeIsCore DEF OwnInv
<1>3. CASE SpuriousWakeups = FALSE
  BY <1>1, <1>2, <1>3, PTL DEF Spec
<1>. QED
  BY <1>3

(* Any number of transactions, overlapping in everything but their calls   *)
(* of enterPIN, are answered, attempt by attempt, with what the user typed *)
(* in the pad of that attempt: the hand-over from onActivityResult through *)
(* the field pin to enterPIN mixes up nothing.                             *)
THEOREM TurnsOwn == SpuriousWakeups = FALSE /\ Spec => TurnsKeepAnswers
<1>1. OwnInv => AnswersAreOwn
  BY DEF OwnInv
<1>. QED
  BY <1>1, TurnsKeepOwnInv, PTL DEF TurnsKeepAnswers

LEMMA OwnInvHints ==
    ASSUME Tries = 3, CoreTypes, OwnInv, CallsTakeTurns
    PROVE  HintIsTrue
<1>. SUFFICES ASSUME stack # <<>>
              PROVE  LET t == Last(stack)[1]
                     IN  Hint(Last(stack)) = IF entered[t] = <<>> THEN 0
                                             ELSE Tries - Len(entered[t])
  BY DEF HintIsTrue
<1>1. PICK t \in Txn : pc[t] \in Inside /\ Placed(MyPad(t))
  BY SomeoneInside DEF OwnInv, Absent, Nowhere
<1>2. stack = <<MyPad(t)>>
  BY <1>1 DEF Placed, InWindow, InResults, InBatch, InField, Absent, Nowhere
<1>3. Last(stack) = MyPad(t) /\ Last(stack)[1] = t /\ Last(stack)[2] = ptc[t]
  BY <1>2 DEF Last, MyPad
<1>4. Len(entered[t]) + ptc[t] = 3
  BY <1>1 DEF OwnInv, CountInv, Phase, Inside
<1>5. ptc[t] \in 1..3
  BY <1>1 DEF CoreTypes, Inside, Settling
<1>6. /\ Len(entered[t]) \in Nat
      /\ entered[t] = <<>> <=> Len(entered[t]) = 0
  BY EmptySeq, LenProperties DEF CoreTypes
<1>. QED
  BY <1>3, <1>4, <1>5, <1>6 DEF Hint

(* Then, with the three attempts of native-lib.cpp, the open pad also      *)
(* tells the user how many of them are left.                               *)
THEOREM TurnsHint ==
    SpuriousWakeups = FALSE /\ Tries = 3 /\ Spec
        => ([]CallsTakeTurns => []HintIsTrue)
<1>1. Tries = 3 /\ TypeInv /\ OwnInv /\ CallsTakeTurns => HintIsTrue
  BY OwnInvHints, TypeIsCore
<1>2. CASE Tries = 3
  BY <1>1, <1>2, TurnsKeepOwnInv, PTL
<1>. QED
  BY <1>2

(* A transaction that has the activity to itself is such a case.           *)
Alone == SpuriousWakeups = FALSE /\ \E t : Txn = {t}

LEMMA AloneTakesTurns == Alone => CallsTakeTurns
  BY DEF Alone, CallsTakeTurns

(* All the answers of a transaction that nobody disturbs are its own, for  *)
(* any number of attempts.                                                 *)
THEOREM LoneAnswersOwn == Alone /\ Spec => []AnswersAreOwn
<1>1. CASE Alone
  BY <1>1, AloneTakesTurns, TurnsOwn, PTL DEF Alone, TurnsKeepAnswers
<1>. QED
  BY <1>1

(* ... and its pads tell the attempts that are left.                       *)
THEOREM LoneHintTrue == Alone /\ Tries = 3 /\ Spec => []HintIsTrue
<1>1. CASE Alone /\ Tries = 3
  BY <1>1, AloneTakesTurns, TurnsHint, PTL DEF Alone
<1>. QED
  BY <1>1
=============================================================================
