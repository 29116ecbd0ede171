--------------------------- MODULE MCTransaction ---------------------------
(***************************************************************************)
(* Values for the constants of Transaction.                                *)
(***************************************************************************)
EXTENDS Transaction, TLC

OneRouble == <<159, 2, 6, 0, 0, 0, 0, 1, 0>>
NotBcd    == <<159, 2, 6, 0, 0, 0, 0, 1, 10>>   \* last digit is 0xA
WrongTag  == <<159, 3, 6, 0, 0, 0, 0, 1, 0>>
TooShort  == <<159, 2, 6>>

GoodTrds == {OneRouble}
AllTrds  == {OneRouble, NotBcd, WrongTag, TooShort}

Symmetry == Permutations(Txn)
=============================================================================
