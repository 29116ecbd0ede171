------------------------------- MODULE Cipher -------------------------------
(***************************************************************************)
(* encrypt and decrypt of native-lib.cpp: two-key triple DES in ECB mode   *)
(* over a padded copy of the caller's bytes.                               *)
(*                                                                         *)
(* The copy lives in buf, a fresh allocation that nothing initialises.     *)
(* Here buf is the caller's data followed by tail: the bytes buf[dsz]      *)
(* onwards, of which the first 8 - rst are inside the allocation.  DES is  *)
(* symbolic: a sealed block opens to its content with the key it was       *)
(* sealed with and to unrelated bytes with any other.                      *)
(***************************************************************************)
EXTENDS Integers, Sequences

CONSTANTS Datas,   \* the byte arrays a caller may encrypt
          Keys,    \* the byte arrays a caller may pass as keys
          Junk     \* what memory that was never written may hold

Byte == 0..255
Block == [1..8 -> Byte]
KeySize == 16

ASSUME CipherAssumption ==
    /\ Datas \subseteq Seq(Byte) /\ Keys \subseteq Seq(Byte)
    /\ Junk \subseteq Byte /\ Junk # {}

VARIABLES pc,      \* what the caller has done so far
          key,     \* the key it encrypts with ...
          dkey,    \* ... and the one it decrypts with
          data,    \* what it encrypts
          i,       \* the index of the padding loop
          tail,    \* buf[dsz + x] for x in 0..7
          spill,   \* the x that the padding loop wrote outside buf
          cipher,  \* what encrypt returned, block by block
          plain    \* what decrypt returned

args == <<key, dkey, data>>
vars == <<pc, args, i, tail, spill, cipher, plain>>

Pcs == {"called", "padding", "padded", "encrypted", "decrypted", "aborted"}

TypeOK ==
    /\ pc \in Pcs
    /\ key \in Keys /\ dkey \in Keys /\ data \in Datas
    /\ i \in 0..7
    /\ tail \in [0..7 -> Byte]
    /\ spill \subseteq 0..7
    /\ cipher \in Seq([key : Keys, block : Block])
    /\ plain \in Seq(Byte)

Init ==
    /\ pc = "called"
    /\ key \in Keys /\ dkey \in Keys /\ data \in Datas
    /\ i = 7
    /\ tail \in [0..7 -> Junk]
    /\ spill = {}
    /\ cipher = <<>> /\ plain = <<>>

(* What the properties are there to exclude; not part of the model.        *)
FillZero(n) == 0              \* ANSI X9.23 without its last byte
FillOneLess(n) == n - 1       \* off by one

Rst == Len(data) % 8          \* bytes of the last, incomplete block
Room(n) == 8 - n              \* bytes that buf has behind the data
Fill(n) == n                  \* the value the padding loop writes

Accepts(k, size) == Len(k) = KeySize /\ size > 0

(***************************************************************************)
(* encrypt                                                                 *)
(***************************************************************************)
RejectEncrypt ==
    /\ pc = "called"
    /\ ~Accepts(key, Len(data))
    /\ pc' = "encrypted"
    /\ UNCHANGED <<args, i, tail, spill, cipher, plain>>

BeginPadding ==
    /\ pc = "called"
    /\ Accepts(key, Len(data))
    /\ pc' = "padding"
    /\ UNCHANGED <<args, i, tail, spill, cipher, plain>>

(* One round of the loop that counts i down from 7 while it is above rst.  *)
PadByte ==
    /\ pc = "padding" /\ i > Rst
    /\ i' = i - 1
    /\ IF i < Room(Rst)
       THEN tail' = [tail EXCEPT ![i] = Fill(Rst)] /\ UNCHANGED spill
       ELSE spill' = spill \cup {i} /\ UNCHANGED tail
    /\ UNCHANGED <<pc, args, cipher, plain>>

EndPadding ==
    /\ pc = "padding" /\ i <= Rst
    /\ pc' = "padded"
    /\ UNCHANGED <<args, i, tail, spill, cipher, plain>>

Buf == [j \in 1 .. Len(data) + Room(Rst) |->
           IF j <= Len(data) THEN data[j] ELSE tail[j - 1 - Len(data)]]

Sealed(k, bytes) ==
    [b \in 1 .. Len(bytes) \div 8 |->
        [key |-> k, block |-> [c \in 1..8 |-> bytes[8 * (b - 1) + c]]]]

Encrypt ==
    /\ pc = "padded"
    /\ cipher' = Sealed(key, Buf)
    /\ pc' = "encrypted"
    /\ UNCHANGED <<args, i, tail, spill, plain>>

(* A write behind the allocation may break the heap, and the process with  *)
(* it, when buf is freed; or it may hit bytes that nobody uses.            *)
EncryptAborts ==
    /\ pc = "padded" /\ spill # {}
    /\ pc' = "aborted"
    /\ UNCHANGED <<args, i, tail, spill, cipher, plain>>

(***************************************************************************)
(* decrypt, applied to what encrypt returned.                              *)
(***************************************************************************)
RejectDecrypt ==
    /\ pc = "encrypted"
    /\ ~Accepts(dkey, 8 * Len(cipher))
    /\ pc' = "decrypted"
    /\ UNCHANGED <<args, i, tail, spill, cipher, plain>>

Opened(k, blocks, g) ==
    [j \in 1 .. 8 * Len(blocks) |->
        LET sealed == blocks[(j - 1) \div 8 + 1]
        IN  IF sealed.key = k THEN sealed.block[((j - 1) % 8) + 1] ELSE g]

(* The last byte is taken for the number of bytes in the last block.       *)
PlainSize(bytes) == Len(bytes) - 8 + bytes[Len(bytes)]

(* An array longer than buf is filled up with what lies behind buf.        *)
Decrypt ==
    /\ pc = "encrypted"
    /\ Accepts(dkey, 8 * Len(cipher))
    /\ \E g \in Junk :
          LET bytes == Opened(dkey, cipher, g)
          IN  plain' = [j \in 1 .. PlainSize(bytes) |->
                           IF j <= Len(bytes) THEN bytes[j] ELSE g]
    /\ pc' = "decrypted"
    /\ UNCHANGED <<args, i, tail, spill, cipher>>

Next ==
    \/ RejectEncrypt \/ BeginPadding \/ PadByte \/ EndPadding
    \/ Encrypt \/ EncryptAborts \/ RejectDecrypt \/ Decrypt

Spec == Init /\ [][Next]_vars

-----------------------------------------------------------------------------
(* What was encrypted comes back, if it is decrypted with the same key and *)
(* its last block holds at most three bytes, whatever the parts of buf     *)
(* that the padding loop never writes hold.                                *)
RoundTrips ==
    pc = "decrypted" /\ dkey = key /\ Accepts(key, Len(data)) /\ Rst <= 3
        => plain = data

(* native-lib.cpp calls this PKCS#5 padding: 8 - rst bytes, each of them   *)
(* the number of padding bytes.                                            *)
PaddingIsPkcs5 ==
    pc = "padded" => \A x \in 0 .. 7 - Rst : tail[x] = 8 - Rst

(* MainActivity.onCreate decrypts, as an example, what it has encrypted.   *)
ExampleDecrypts == pc = "decrypted" => plain = data
=============================================================================
