-------------------------- MODULE MCSpendAccounting --------------------------
(***************************************************************************)
(* Small instances of SpendAccounting for TLC.                             *)
(***************************************************************************)
EXTENDS SpendAccounting
==============================================================================
