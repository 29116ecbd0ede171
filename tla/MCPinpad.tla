------------------------------ MODULE MCPinpad ------------------------------
(***************************************************************************)
(* Values for the constants of Pinpad.  Four bytes give every index of     *)
(* three keys, with and without a sign.                                    *)
(***************************************************************************)
EXTENDS Pinpad

SignedBytes == {-128, -1, 0, 1}
=============================================================================
