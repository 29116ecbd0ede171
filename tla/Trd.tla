-------------------------------- MODULE Trd --------------------------------
(***************************************************************************)
(* The transaction request data (TRD): the byte array that the caller of   *)
(* MainActivity.transaction hands to the native library.  A TRD is the tag *)
(* 9F 02, the length 06 and six bytes of packed decimal, the amount in     *)
(* kopecks.  native-lib.cpp turns the amount into text, the text travels   *)
(* in the Intent of the PIN pad, and PinpadActivity parses it as a Long.   *)
(* Bytes and characters are numbers in 0..255.                             *)
(***************************************************************************)
EXTENDS Naturals, Sequences, SequencesExt

Byte == 0..255

Size   == 9               \* a TRD that is accepted has nine bytes ...
Header == <<159, 2, 6>>   \* ... the first three of which are fixed
Zero   == 48              \* '0'

(* What a property is there to exclude; not part of the model.             *)
TagOnly(trd) == Len(trd) = Size /\ trd[1] = Header[1]

WellFormed(trd) == Len(trd) = Size /\ SubSeq(trd, 1, 3) = Header

(* The twelve characters the native loop writes: '0' plus each half byte,  *)
(* whether or not the half byte is a decimal digit.                        *)
AmountText(trd) ==
    [c \in 1..12 |->
        LET byte == trd[4 + (c - 1) \div 2]
        IN  Zero + IF c % 2 = 1 THEN byte \div 16 ELSE byte % 16]

(* Long.valueOf accepts the text exactly when every character is a digit;  *)
(* any other text makes it throw NumberFormatException.                    *)
IsLong(text) == \A c \in DOMAIN text : text[c] \in Zero .. Zero + 9

LongValue(text) == FoldLeft(LAMBDA n, char : 10 * n + char - Zero, 0, text)

(* DecimalFormat("#,###,###,##0.00") shows the Long as whole roubles with  *)
(* two zeros behind the point; in kopecks, what the user reads.            *)
ShownKopecks(text) == 100 * LongValue(text)

(* The TRDs that carry an amount as the standard asks for: six bytes of    *)
(* two decimal digits each, behind the tag and the length.                 *)
Decimal(trd) ==
    /\ DOMAIN trd = 1..9 /\ trd[1] = 159 /\ trd[2] = 2 /\ trd[3] = 6
    /\ \A i \in 4..9 : trd[i] \div 16 \in 0..9 /\ trd[i] % 16 \in 0..9
=============================================================================
