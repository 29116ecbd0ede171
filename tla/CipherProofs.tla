---------------------------- MODULE CipherProofs ----------------------------
(***************************************************************************)
(* encrypt and decrypt are inverse for all keys and for all byte arrays    *)
(* whose last block holds at most three bytes, whatever uninitialised      *)
(* memory holds.                                                           *)
(***************************************************************************)
EXTENDS Cipher, TLAPS, SequenceTheorems

USE CipherAssumption

LEMMA DataLength ==
    ASSUME data \in Datas
    PROVE  Len(data) \in Nat /\ Rst \in 0..7 /\ data \in Seq(Byte)
  BY LenProperties DEF Rst

LEMMA FunctionSeq ==
    ASSUME NEW S, NEW n \in Nat, NEW f \in [1..n -> S]
    PROVE  f \in Seq(S) /\ Len(f) = n
  BY SeqDef, LenProperties

(* Cutting a whole number of blocks up and opening them again changes      *)
(* nothing.                                                                *)
LEMMA OpenedSealed ==
    ASSUME NEW k, NEW g, NEW s \in Seq(Byte), Len(s) % 8 = 0
    PROVE  /\ Len(Sealed(k, s)) = Len(s) \div 8
           /\ Opened(k, Sealed(k, s), g) = s
<1>1. Len(s) \in Nat
  BY LenProperties
<1>. DEFINE n == Len(s) \div 8
<1>2. n \in Nat /\ 8 * n = Len(s)
  BY <1>1
<1>3. Len(Sealed(k, s)) = n /\ DOMAIN Sealed(k, s) = 1..n
  BY <1>2 DEF Sealed
<1>4. ASSUME NEW j \in 1 .. Len(s)
      PROVE  Opened(k, Sealed(k, s), g)[j] = s[j]
  <2>. DEFINE b == (j - 1) \div 8 + 1
              c == ((j - 1) % 8) + 1
  <2>1. b \in 1..n /\ c \in 1..8 /\ 8 * (b - 1) + c = j
    BY <1>1, <1>2
  <2>2. Sealed(k, s)[b].key = k /\ Sealed(k, s)[b].block[c] = s[8 * (b - 1) + c]
    BY <2>1 DEF Sealed
  <2>3. Opened(k, Sealed(k, s), g)[j] = Sealed(k, s)[b].block[c]
    BY <1>2, <1>3, <2>2 DEF Opened
  <2>. QED
    BY <2>1, <2>2, <2>3
<1>5. DOMAIN Opened(k, Sealed(k, s), g) = 1..Len(s)
  BY <1>2, <1>3 DEF Opened
<1>6. s = [j \in 1..Len(s) |-> s[j]]
  BY LenProperties
<1>7. Opened(k, Sealed(k, s), g) = [j \in 1..Len(s) |-> s[j]]
  BY <1>4, <1>5 DEF Opened
<1>. QED
  BY <1>3, <1>6, <1>7

(* buf holds whole blocks, ends in tail and begins with data.              *)
LEMMA BufProperties ==
    ASSUME TypeOK
    PROVE  /\ Buf \in Seq(Byte)
           /\ Len(Buf) = Len(data) + 8 - Rst
           /\ Len(Buf) % 8 = 0
           /\ Len(Buf) >= 8
           /\ Buf[Len(Buf)] = tail[7 - Rst]
           /\ \A j \in 1..Len(data) : Buf[j] = data[j]
<1>1. Len(data) \in Nat /\ Rst \in 0..7 /\ data \in Seq(Byte)
  BY DataLength DEF TypeOK
<1>. DEFINE n == Len(data) + Room(Rst)
<1>2. n \in Nat /\ n = Len(data) + 8 - Rst
  BY <1>1 DEF Room
<1>3. ASSUME NEW j \in 1..n
      PROVE  (IF j <= Len(data) THEN data[j] ELSE tail[j - 1 - Len(data)])
                \in Byte
  <2>1. CASE j <= Len(data)
    BY <1>1, <2>1, ElementOfSeq
  <2>2. CASE ~(j <= Len(data))
    <3>1. j - 1 - Len(data) \in 0..7
      BY <1>1, <1>2, <2>2
    <3>2. tail[j - 1 - Len(data)] \in Byte
      BY <3>1 DEF TypeOK
    <3>. QED
      BY <2>2, <3>2
  <2>. QED
    BY <2>1, <2>2
<1>4. Buf \in [1..n -> Byte]
  BY <1>3 DEF Buf
<1>5. Buf \in Seq(Byte) /\ Len(Buf) = n
  BY <1>2, <1>4, FunctionSeq
<1>6. n % 8 = 0 /\ n >= 8
  BY <1>1, <1>2 DEF Rst
<1>7. Buf[n] = tail[7 - Rst]
  BY <1>1, <1>2 DEF Buf
<1>8. \A j \in 1..Len(data) : Buf[j] = data[j]
  BY <1>1, <1>2 DEF Buf
<1>. QED
  BY <1>2, <1>5, <1>6, <1>7, <1>8

(* Behind i, the padding loop has written the remainder everywhere inside  *)
(* buf; when it has ended, i has come down to the remainder.               *)
Encrypting == Accepts(key, Len(data))

PadInv ==
    /\ \A x \in 0..7 : x > i /\ x < Room(Rst) => tail[x] = Rst
    /\ pc = "called" => cipher = <<>>
    /\ pc \in {"padded", "aborted"} => i <= Rst
    /\ pc \in {"padding", "padded", "aborted"} => Encrypting
    /\ pc \in {"encrypted", "decrypted"} =>
          IF Encrypting THEN i <= Rst /\ cipher = Sealed(key, Buf)
                        ELSE cipher = <<>>

Inv == TypeOK /\ PadInv /\ RoundTrips

LEMMA InitInv == Init => Inv
<1>. SUFFICES ASSUME Init PROVE Inv
  OBVIOUS
<1>1. tail \in [0..7 -> Byte]
  BY DEF Init
<1>2. TypeOK
  BY <1>1, EmptySeq DEF Init, TypeOK, Pcs
<1>. QED
  BY <1>2 DEF Init, Inv, PadInv, RoundTrips

LEMMA SealedType ==
    ASSUME TypeOK
    PROVE  Sealed(key, Buf) \in Seq([key : Keys, block : Block])
<1>. DEFINE n == Len(Buf) \div 8
<1>1. Buf \in Seq(Byte) /\ Len(Buf) \in Nat /\ n \in Nat /\ 8 * n = Len(Buf)
  BY BufProperties, LenProperties
<1>2. ASSUME NEW b \in 1..n, NEW c \in 1..8
      PROVE  Buf[8 * (b - 1) + c] \in Byte
  <2>1. 8 * (b - 1) + c \in 1..Len(Buf)
    BY <1>1
  <2>. QED
    BY <1>1, <2>1, ElementOfSeq
<1>3. \A b \in 1..n : [c \in 1..8 |-> Buf[8 * (b - 1) + c]] \in Block
  BY <1>2 DEF Block
<1>4. Sealed(key, Buf) \in [1..n -> [key : Keys, block : Block]]
  BY <1>3 DEF Sealed, TypeOK
<1>. QED
  BY <1>1, <1>4, FunctionSeq

(* decrypt returns bytes, and the right ones with the right key.           *)
LEMMA DecryptType ==
    ASSUME TypeOK, PadInv, Decrypt
    PROVE  plain' \in Seq(Byte)
<1>1. PICK g \in Junk :
        plain' = [j \in 1 .. PlainSize(Opened(dkey, cipher, g)) |->
                     IF j <= Len(Opened(dkey, cipher, g))
                     THEN Opened(dkey, cipher, g)[j] ELSE g]
  BY DEF Decrypt
<1>. DEFINE bytes == Opened(dkey, cipher, g)
            n == 8 * Len(cipher)
<1>2. Len(cipher) \in Nat \ {0} /\ cipher \in Seq([key : Keys, block : Block])
  BY LenProperties DEF Decrypt, Accepts, TypeOK
<1>3. ASSUME NEW j \in 1..n
      PROVE  bytes[j] \in Byte
  <2>. DEFINE b == (j - 1) \div 8 + 1
              c == ((j - 1) % 8) + 1
  <2>1. b \in 1..Len(cipher) /\ c \in 1..8
    BY <1>2
  <2>2. cipher[b] \in [key : Keys, block : Block]
    BY <1>2, <2>1, ElementOfSeq
  <2>3. cipher[b].block[c] \in Byte
    BY <2>1, <2>2 DEF Block
  <2>. QED
    BY <2>3 DEF Opened
<1>4. bytes \in [1..n -> Byte]
  <2>1. bytes = [j \in 1..n |-> bytes[j]]
    BY DEF Opened
  <2>. HIDE DEF bytes
  <2>. QED
    BY <1>3, <2>1
<1>. HIDE DEF bytes
<1>5. n \in Nat /\ n >= 8 /\ Len(bytes) = n
  BY <1>2, <1>4, FunctionSeq
<1>. HIDE DEF n
<1>6. bytes[Len(bytes)] \in 0..255
  <2>1. n \in 1..n
    BY <1>5
  <2>. QED
    BY <1>4, <1>5, <2>1 DEF Byte
<1>7. PlainSize(bytes) \in Nat
  <2>1. \A last \in 0..255 : n - 8 + last \in Nat
    BY <1>5
  <2>2. PlainSize(bytes) = n - 8 + bytes[Len(bytes)]
    BY <1>5 DEF PlainSize
  <2>. QED
    BY <1>6, <2>1, <2>2
<1>8. \A j \in 1 .. PlainSize(bytes) :
         (IF j <= Len(bytes) THEN bytes[j] ELSE g) \in Byte
  BY <1>4, <1>5, <1>7
<1>9. plain' \in [1 .. PlainSize(bytes) -> Byte]
  BY <1>1, <1>8 DEF bytes
<1>. QED
  BY <1>7, <1>9, FunctionSeq

LEMMA DecryptRoundTrips ==
    ASSUME TypeOK, PadInv, Decrypt, dkey = key, Encrypting, Rst <= 3
    PROVE  plain' = data
<1>1. PICK g \in Junk :
        plain' = [j \in 1 .. PlainSize(Opened(dkey, cipher, g)) |->
                     IF j <= Len(Opened(dkey, cipher, g))
                     THEN Opened(dkey, cipher, g)[j] ELSE g]
  BY DEF Decrypt
<1>2. i <= Rst /\ cipher = Sealed(key, Buf)
  BY DEF PadInv, Decrypt
<1>3. Opened(dkey, cipher, g) = Buf
  BY <1>2, BufProperties, OpenedSealed
<1>4. Len(data) \in Nat /\ Rst \in 0..3 /\ i \in 0..7 /\ data \in Seq(Byte)
  BY DataLength DEF TypeOK
<1>5. tail[7 - Rst] = Rst
  <2>1. 7 - Rst \in 0..7 /\ 7 - Rst > i /\ 7 - Rst < Room(Rst)
    BY <1>2, <1>4 DEF Room
  <2>. QED
    BY <2>1 DEF PadInv
<1>6. PlainSize(Buf) = Len(data)
  BY <1>4, <1>5, BufProperties DEF PlainSize
<1>7. plain' = [j \in 1..Len(data) |-> data[j]]
  BY <1>1, <1>3, <1>4, <1>6, BufProperties
<1>. QED
  BY <1>4, <1>7, LenProperties

(* What the invariant says of the data, the key and buf only depends on    *)
(* variables that most steps leave alone.                                  *)
LEMMA SameBuffer ==
    ASSUME UNCHANGED <<args, tail>>
    PROVE  /\ Rst' = Rst /\ Room(Rst)' = Room(Rst)
           /\ Encrypting' = Encrypting
           /\ Sealed(key, Buf)' = Sealed(key, Buf)
<1>1. Rst' = Rst /\ Room(Rst)' = Room(Rst) /\ Buf' = Buf
  BY DEF args, Rst, Room, Buf
<1>. QED
  BY <1>1 DEF args, Encrypting, Accepts, Sealed

LEMMA NextInv == Inv /\ [Next]_vars => Inv'
<1>. SUFFICES ASSUME Inv, [Next]_vars PROVE Inv'
  OBVIOUS
<1>. USE DEF Inv, TypeOK, Pcs, args
<1>1. Len(data) \in Nat /\ Rst \in 0..7
  BY DataLength
<1>2. CASE RejectEncrypt
  BY <1>2, SameBuffer DEF RejectEncrypt, PadInv, RoundTrips, Encrypting
<1>3. CASE BeginPadding
  BY <1>3, SameBuffer DEF BeginPadding, PadInv, RoundTrips, Encrypting
<1>4. CASE PadByte
  <2>1. /\ pc' = "padding" /\ i' \in 0..7 /\ i' = i - 1
        /\ data' = data /\ Encrypting /\ Rst' = Rst
    BY <1>1, <1>4 DEF PadByte, PadInv, Rst
  <2>2. CASE i < Room(Rst)
    <3>1. tail' = [tail EXCEPT ![i] = Rst] /\ Rst \in Byte
      BY <1>1, <1>4, <2>2 DEF PadByte, Fill, Byte
    <3>2. tail' \in [0..7 -> Byte]
      BY <3>1
    <3>3. \A x \in 0..7 : x > i' /\ x < Room(Rst) => tail'[x] = Rst
      BY <2>1, <3>1 DEF PadInv
    <3>4. spill' = spill
      BY <1>4, <2>2 DEF PadByte
    <3>. QED
      BY <1>4, <2>1, <3>2, <3>3, <3>4 DEF PadByte, PadInv, Encrypting,
         RoundTrips, Room
  <2>3. CASE ~(i < Room(Rst))
    <3>1. tail' = tail /\ spill' = spill \cup {i}
      BY <1>4, <2>3 DEF PadByte
    <3>2. \A x \in 0..7 : x > i' /\ x < Room(Rst) => tail'[x] = Rst
      BY <1>1, <2>1, <2>3, <3>1 DEF PadInv, Room
    <3>. QED
      BY <1>4, <2>1, <3>1, <3>2 DEF PadByte, PadInv, Encrypting,
         RoundTrips, Room
  <2>. QED
    BY <2>2, <2>3
<1>5. CASE EndPadding
  BY <1>1, <1>5, SameBuffer DEF EndPadding, PadInv, RoundTrips
<1>6. CASE Encrypt
  <2>1. TypeOK'
    BY <1>6, SealedType DEF Encrypt
  <2>2. PadInv'
    BY <1>6, SameBuffer DEF Encrypt, PadInv
  <2>. QED
    BY <1>6, <2>1, <2>2 DEF Encrypt, RoundTrips
<1>7. CASE EncryptAborts
  BY <1>7, SameBuffer DEF EncryptAborts, PadInv, RoundTrips
<1>8. CASE RejectDecrypt
  <2>1. ~(dkey = key /\ Encrypting)
    <3>1. SUFFICES ASSUME dkey = key, Encrypting PROVE FALSE
      OBVIOUS
    <3>2. Len(cipher) = Len(Buf) \div 8 /\ Len(Buf) >= 8 /\ Len(Buf) \in Nat
      BY <1>8, <3>1, BufProperties, OpenedSealed, LenProperties
      DEF RejectDecrypt, PadInv
    <3>. QED
      BY <1>8, <3>1, <3>2 DEF RejectDecrypt, Accepts, Encrypting
  <2>. QED
    BY <1>8, <2>1, SameBuffer DEF RejectDecrypt, PadInv, RoundTrips, Encrypting
<1>9. CASE Decrypt
  <2>1. TypeOK'
    BY <1>9, DecryptType DEF Decrypt
  <2>2. PadInv'
    BY <1>9, SameBuffer DEF Decrypt, PadInv
  <2>3. RoundTrips'
    BY <1>9, DecryptRoundTrips DEF Decrypt, RoundTrips, Encrypting, Rst
  <2>. QED
    BY <2>1, <2>2, <2>3
<1>10. CASE UNCHANGED vars
  BY <1>10, SameBuffer DEF vars, PadInv, RoundTrips, Encrypting
<1>. QED
  BY <1>2, <1>3, <1>4, <1>5, <1>6, <1>7, <1>8, <1>9, <1>10 DEF Next

(* Every array keeps its size and every index stays inside: in particular  *)
(* the buffer that is filled past its end by the padding is never grown.   *)
THEOREM BuffersTyped == Spec => []TypeOK
<1>1. Inv => TypeOK
  BY DEF Inv
<1>. QED
  BY <1>1, InitInv, NextInv, PTL DEF Spec

(* For every key and every array with at most three bytes in its last      *)
(* block, decrypting with the key of encryption returns the array.         *)
THEOREM RoundTrip == Spec => []RoundTrips
<1>1. Inv => RoundTrips
  BY DEF Inv
<1>. QED
  BY <1>1, InitInv, NextInv, PTL DEF Spec
=============================================================================
