---------------------------- MODULE PinpadProofs ----------------------------
(***************************************************************************)
(* The shuffled keys of the PIN pad always show every digit once, for any  *)
(* number of keys and any random bytes, and the stars count the digits.    *)
(***************************************************************************)
EXTENDS Pinpad, TLAPS, SequenceTheorems

USE PinpadAssumption

Inv == TypeOK /\ EveryDigitOnOneKey /\ StarsShowPin

LEMMA IndexIsKey ==
    ASSUME NEW byte \in Rnd
    PROVE  Index(byte) \in Key
<1>1. byte \in Int /\ byte % 256 \in 0..255
  OBVIOUS
<1>2. \A n \in Nat : n % MaxKeys \in 0 .. MaxKeys - 1
  OBVIOUS
<1>. QED
  BY <1>1, <1>2 DEF Index, Key

(* Exchanging two texts keeps the texts and their number.                  *)
LEMMA SwapKeepsKeys ==
    ASSUME labels \in [Key -> Digit], EveryDigitOnOneKey,
           NEW a \in Key, NEW b \in Key,
           labels' = Swapped(labels, a, b)
    PROVE  labels' \in [Key -> Digit] /\ EveryDigitOnOneKey'
<1>1. /\ labels' \in [Key -> Digit]
      /\ labels'[a] = labels[b] /\ labels'[b] = labels[a]
      /\ \A k \in Key \ {a, b} : labels'[k] = labels[k]
  BY DEF Swapped
<1>2. ASSUME NEW d \in Digit
      PROVE  \E k \in Key : labels'[k] = d
  <2>1. PICK k \in Key : labels[k] = d
    BY DEF EveryDigitOnOneKey
  <2>2. CASE k = a
    BY <1>1, <2>1, <2>2
  <2>3. CASE k = b
    BY <1>1, <2>1, <2>3
  <2>4. CASE k \notin {a, b}
    BY <1>1, <2>1, <2>4
  <2>. QED
    BY <2>2, <2>3, <2>4
<1>3. ASSUME NEW k \in Key, NEW l \in Key, labels'[k] = labels'[l]
      PROVE  k = l
  BY <1>1, <1>3 DEF EveryDigitOnOneKey
<1>. QED
  BY <1>1, <1>2, <1>3 DEF EveryDigitOnOneKey

LEMMA LayoutKeys ==
    /\ Layout \in [Key -> Digit]
    /\ \A d \in Digit : \E k \in Key : Layout[k] = d
    /\ \A k, l \in Key : Layout[k] = Layout[l] => k = l
  BY DEF Layout, Digit

LEMMA InitInv == Init => Inv
  BY LayoutKeys, EmptySeq
  DEF Init, Inv, TypeOK, EveryDigitOnOneKey, StarsShowPin

LEMMA NextInv == Inv /\ [Next]_vars => Inv'
<1>. SUFFICES ASSUME Inv, [Next]_vars PROVE Inv'
  OBVIOUS
<1>. USE DEF Inv, TypeOK, input
<1>1. CASE ShuffleKey
  <2>1. i \in Key /\ i' \in 0..MaxKeys
    BY <1>1 DEF ShuffleKey, Key
  <2>2. Index(rnd[i]) \in Key
    BY <2>1, IndexIsKey
  <2>3. labels' \in [Key -> Digit] /\ EveryDigitOnOneKey'
    BY <1>1, <2>1, <2>2, SwapKeepsKeys DEF ShuffleKey
  <2>. QED
    BY <1>1, <2>1, <2>3 DEF ShuffleKey, StarsShowPin
<1>2. CASE Open
  BY <1>2 DEF Open, EveryDigitOnOneKey, StarsShowPin
<1>3. CASE Reset
  BY <1>3, EmptySeq DEF Reset, EveryDigitOnOneKey, StarsShowPin
<1>4. CASE Ok
  BY <1>4 DEF Ok, EveryDigitOnOneKey, StarsShowPin
<1>5. CASE Back
  BY <1>5 DEF Back, EveryDigitOnOneKey, StarsShowPin
<1>6. CASE Recreate
  BY <1>6, LayoutKeys, EmptySeq DEF Recreate, EveryDigitOnOneKey, StarsShowPin
<1>7. ASSUME NEW k \in Key, keyClick(k)
      PROVE  Inv'
  <2>1. labels[k] \in Digit
    OBVIOUS
  <2>2. /\ Append(pin, labels[k]) \in Seq(Digit)
        /\ Len(Append(pin, labels[k])) = Len(pin) + 1
        /\ Append(typed, labels[k]) \in Seq(Digit)
    BY <2>1, AppendProperties
  <2>3. typed' \in Seq(Digit)
    BY <1>7, <2>2 DEF keyClick
  <2>4. CASE HasRoom(Len(pin))
    <3>1. Len(pin) \in Nat /\ Len(pin) < PinSize
      BY <2>4, LenProperties DEF HasRoom
    <3>2. pin' = Append(pin, labels[k]) /\ stars' = Len(pin) + 1
      BY <1>7, <2>4 DEF keyClick, Stars
    <3>3. stars' \in 0..PinSize /\ stars' = Len(pin')
      BY <2>2, <3>1, <3>2
    <3>. QED
      BY <1>7, <2>2, <2>3, <3>2, <3>3
      DEF keyClick, EveryDigitOnOneKey, StarsShowPin
  <2>5. CASE ~HasRoom(Len(pin))
    BY <1>7, <2>3, <2>5 DEF keyClick, EveryDigitOnOneKey, StarsShowPin
  <2>. QED
    BY <2>4, <2>5
<1>8. CASE UNCHANGED vars
  BY <1>8 DEF vars, EveryDigitOnOneKey, StarsShowPin
<1>. QED
  BY <1>1, <1>2, <1>3, <1>4, <1>5, <1>6, <1>7, <1>8 DEF Next

(* The index of the shuffling loop never leaves the keys, and neither does *)
(* a swap take a text that is not a digit, nor a click a character that is *)
(* not one (shuffleKeys and keyClick of PinpadActivity.java).              *)
THEOREM PadTyped == Spec => []TypeOK
<1>1. Inv => TypeOK
  BY DEF Inv
<1>. QED
  BY <1>1, InitInv, NextInv, PTL DEF Spec

(* Every PIN can be typed on the shuffled keys, and on each in one way.    *)
THEOREM KeysComplete == Spec => []EveryDigitOnOneKey
<1>1. Inv => EveryDigitOnOneKey
  BY DEF Inv
<1>. QED
  BY <1>1, InitInv, NextInv, PTL DEF Spec

(* The user sees as many stars as the PIN has digits, never more than the  *)
(* PIN may have.                                                           *)
THEOREM StarsCount == Spec => [](TypeOK /\ StarsShowPin)
<1>1. Inv => TypeOK /\ StarsShowPin
  BY DEF Inv
<1>. QED
  BY <1>1, InitInv, NextInv, PTL DEF Spec

-----------------------------------------------------------------------------
(* What the prefix of the digits typed is, before and after one more.      *)
LEMMA PrefixAppend ==
    ASSUME NEW s \in Seq(Digit), NEW d \in Digit
    PROVE  /\ PW!Taken(s) \in Seq(Digit)
           /\ HasRoom(Len(PW!Taken(s))) =>
                  PW!Taken(Append(s, d)) = Append(PW!Taken(s), d)
           /\ ~HasRoom(Len(PW!Taken(s))) => PW!Taken(Append(s, d)) = PW!Taken(s)
<1>. DEFINE w == Append(s, d)
<1>1. /\ w \in Seq(Digit) /\ Len(w) = Len(s) + 1 /\ Len(s) \in Nat
      /\ \A k \in 1..Len(s) : w[k] = s[k]
      /\ w[Len(s) + 1] = d
  BY AppendProperties
<1>2. \A k \in 1..Len(s) : s[k] \in Digit
  BY ElementOfSeq
<1>3. \A k \in 1..Len(w) : w[k] \in Digit
  BY <1>1, ElementOfSeq
<1>. HIDE DEF w
<1>4. ASSUME NEW n \in 0..Len(s)
      PROVE  /\ SubSeq(s, 1, n) \in Seq(Digit) /\ Len(SubSeq(s, 1, n)) = n
             /\ \A k \in 1..n : SubSeq(s, 1, n)[k] = s[k]
  <2>1. \A k \in 1..n : s[k] \in Digit
    BY <1>1, <1>2
  <2>. QED
    BY <1>1, <2>1, SubSeqProperties
<1>5. ASSUME NEW n \in 0..Len(w)
      PROVE  /\ SubSeq(w, 1, n) \in Seq(Digit) /\ Len(SubSeq(w, 1, n)) = n
             /\ \A k \in 1..n : SubSeq(w, 1, n)[k] = w[k]
  <2>1. \A k \in 1..n : w[k] \in Digit
    BY <1>1, <1>3
  <2>. QED
    BY <1>1, <2>1, SubSeqProperties
<1>6. CASE Len(s) < PinSize
  <2>1. /\ PW!Taken(s) = SubSeq(s, 1, Len(s))
        /\ PW!Taken(w) = SubSeq(w, 1, Len(s) + 1)
    BY <1>1, <1>6 DEF PW!Taken
  <2>2. Len(s) \in 0..Len(s) /\ Len(s) + 1 \in 0..Len(w)
    BY <1>1
  <2>3. /\ PW!Taken(s) \in Seq(Digit) /\ Len(PW!Taken(s)) = Len(s)
        /\ \A k \in 1..Len(s) : PW!Taken(s)[k] = s[k]
    BY <1>4, <2>1, <2>2
  <2>4. /\ PW!Taken(w) \in Seq(Digit) /\ Len(PW!Taken(w)) = Len(s) + 1
        /\ \A k \in 1 .. Len(s) + 1 : PW!Taken(w)[k] = w[k]
    BY <1>5, <2>1, <2>2
  <2>5. PW!Taken(s) = s
    BY <2>3, SeqEqual
  <2>6. PW!Taken(w) = w
    BY <1>1, <2>4, SeqEqual
  <2>7. HasRoom(Len(PW!Taken(s)))
    BY <1>6, <2>5 DEF HasRoom
  <2>. QED
    BY <2>5, <2>6, <2>7 DEF w
<1>7. CASE ~(Len(s) < PinSize)
  <2>1. PW!Taken(s) = SubSeq(s, 1, PinSize) /\ PW!Taken(w) = SubSeq(w, 1, PinSize)
    BY <1>1, <1>7 DEF PW!Taken
  <2>2. PinSize \in 0..Len(s) /\ PinSize \in 0..Len(w)
    BY <1>1, <1>7
  <2>3. /\ PW!Taken(s) \in Seq(Digit) /\ Len(PW!Taken(s)) = PinSize
        /\ \A k \in 1..PinSize : PW!Taken(s)[k] = s[k]
    BY <1>4, <2>1, <2>2
  <2>4. /\ PW!Taken(w) \in Seq(Digit) /\ Len(PW!Taken(w)) = PinSize
        /\ \A k \in 1..PinSize : PW!Taken(w)[k] = w[k]
    BY <1>5, <2>1, <2>2
  <2>5. \A k \in 1..PinSize : PW!Taken(w)[k] = PW!Taken(s)[k]
    BY <1>1, <2>2, <2>3, <2>4
  <2>6. PW!Taken(w) = PW!Taken(s)
    BY <2>3, <2>4, <2>5, SeqEqual
  <2>7. ~HasRoom(Len(PW!Taken(s)))
    BY <2>3 DEF HasRoom
  <2>. QED
    BY <2>3, <2>6, <2>7 DEF w
<1>. QED
  BY <1>6, <1>7

LEMMA PrefixEmpty == PW!Taken(<<>>) = <<>>
<1>1. PW!Taken(<<>>) = SubSeq(<<>>, 1, 0)
  BY EmptySeq DEF PW!Taken
<1>. QED
  BY <1>1, SubSeqEmpty

LEMMA NextTyped == Inv /\ PinIsTyped /\ [Next]_vars => PinIsTyped'
<1>. SUFFICES ASSUME Inv, PinIsTyped, [Next]_vars PROVE PinIsTyped'
  OBVIOUS
<1>. USE DEF PinIsTyped, Visible, input
<1>1. ASSUME NEW k \in Key, keyClick(k)
      PROVE  PinIsTyped'
  <2>1. typed \in Seq(Digit) /\ labels[k] \in Digit
    BY DEF Inv, TypeOK
  <2>2. CASE state = "open"
    <3>1. /\ pin = PW!Taken(typed) /\ state' = state
          /\ typed' = Append(typed, labels[k])
      BY <1>1, <2>2 DEF keyClick
    <3>2. pin' = PW!Taken(typed')
      BY <1>1, <2>1, <3>1, PrefixAppend DEF keyClick
    <3>. QED
      BY <2>2, <3>1, <3>2
  <2>3. CASE state = "finishing"
    BY <1>1, <2>3 DEF keyClick
  <2>. QED
    BY <1>1, <2>2, <2>3 DEF keyClick
<1>2. CASE Reset
  BY <1>2, PrefixEmpty DEF Reset
<1>3. CASE Ok
  BY <1>3 DEF Ok
<1>4. CASE Recreate
  BY <1>4, PrefixEmpty DEF Recreate
<1>5. CASE ShuffleKey \/ Open \/ Back \/ UNCHANGED vars
  BY <1>5 DEF ShuffleKey, Open, Back, vars
<1>. QED
  BY <1>1, <1>2, <1>3, <1>4, <1>5 DEF Next

(* OK returns the first PinSize digits the user typed since the PIN was    *)
(* last empty, for any number of presses, resets and recreated windows,    *)
(* and whatever is clicked after OK (keyClick of PinpadActivity.java).     *)
THEOREM ResultIsTyped == Spec => []PinIsTyped
<1>1. Init => PinIsTyped
  BY PrefixEmpty DEF Init, PinIsTyped, Visible
<1>. QED
  BY <1>1, InitInv, NextInv, NextTyped, PTL DEF Spec

-----------------------------------------------------------------------------
(* Which steps of the window PadWindow sees: a click while it is open is   *)
(* Type, C and a configuration change are Clear, OK is Answer, Back is     *)
(* Leave; shuffling and clicks after OK change nothing that it can see.    *)
LEMMA InitPadWindow == Init => PW!Init
  BY DEF Init, PW!Init, Visible

LEMMA NextPadWindow == Inv /\ PinIsTyped /\ [Next]_vars => [PW!Next]_(PW!vars)
<1>. SUFFICES ASSUME Inv, PinIsTyped, [Next]_vars PROVE [PW!Next]_(PW!vars)
  OBVIOUS
<1>. USE DEF Visible, input, PW!vars
<1>1. ASSUME NEW k \in Key, keyClick(k)
      PROVE  [PW!Next]_(PW!vars)
  <2>1. labels[k] \in Digit
    BY DEF Inv, TypeOK
  <2>2. CASE state = "open"
    <3>1. PW!Type(labels[k])
      BY <1>1, <2>2 DEF keyClick, PW!Type
    <3>. QED
      BY <2>1, <3>1 DEF PW!Next
  <2>3. CASE state = "finishing"
    BY <1>1, <2>3 DEF keyClick
  <2>. QED
    BY <1>1, <2>2, <2>3 DEF keyClick
<1>2. CASE Reset
  <2>1. CASE state = "open"
    BY <1>2, <2>1 DEF Reset, PW!Clear, PW!Next
  <2>2. CASE state = "finishing"
    BY <1>2, <2>2 DEF Reset
  <2>. QED
    BY <1>2, <2>1, <2>2 DEF Reset
<1>3. CASE Recreate
  BY <1>3 DEF Recreate, PW!Clear, PW!Next
<1>4. CASE Ok
  <2>1. pin = PW!Taken(typed)
    BY <1>4 DEF Ok, PinIsTyped
  <2>2. PW!Answer
    BY <1>4, <2>1 DEF Ok, PW!Answer
  <2>. QED
    BY <2>2 DEF PW!Next
<1>5. CASE Back
  BY <1>5 DEF Back, PW!Leave, PW!Next
<1>6. CASE ShuffleKey \/ Open \/ UNCHANGED vars
  BY <1>6 DEF ShuffleKey, Open, vars
<1>. QED
  BY <1>1, <1>2, <1>3, <1>4, <1>5, <1>6 DEF Next

(* PinpadActivity implements PadWindow, for any number of keys and any     *)
(* length of the PIN.                                                      *)
THEOREM WindowRefinement == Spec => ImplementsPadWindow
<1>1. Init => PinIsTyped
  BY PrefixEmpty DEF Init, PinIsTyped, Visible
<1>. QED
  BY <1>1, InitInv, NextInv, NextTyped, InitPadWindow, NextPadWindow, PTL
  DEF Spec, ImplementsPadWindow, PW!Spec
=============================================================================
