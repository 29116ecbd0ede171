------------------------------ MODULE MCCipher ------------------------------
(***************************************************************************)
(* Values for the constants of Cipher.                                     *)
(***************************************************************************)
EXTENDS Cipher

KeyOf(size, byte) == [n \in 1..size |-> byte]
SomeKeys == {KeyOf(16, 1), KeyOf(16, 2), KeyOf(8, 1)}
OneKey   == {KeyOf(16, 1)}

DataOf(size) == [n \in 1..size |-> n]
ShortDatas == {DataOf(n) : n \in 0..17}   \* up to two blocks and a byte

EightBytes == {DataOf(8)}      \* 1234567891011127, in a disabled example
Example    == {DataOf(20)}     \* byte[] data = new byte[20] in onCreate

SomeJunk == {0, 255}
=============================================================================
