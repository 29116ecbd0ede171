---------------------------- MODULE MCLifeCycle ----------------------------
(***************************************************************************)
(* Values for the constants of LifeCycle.                                  *)
(***************************************************************************)
EXTENDS LifeCycle

OneRouble == <<159, 2, 6, 0, 0, 0, 0, 1, 0>>
NotBcd    == <<159, 2, 6, 0, 0, 0, 0, 1, 10>>   \* last digit is 0xA

SomeTrds == {OneRouble, NotBcd}
=============================================================================
