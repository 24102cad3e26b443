------------------------------ MODULE MCBalance ------------------------------
(***************************************************************************)
(* Small instances of Balance for TLC.                                     *)
(***************************************************************************)
EXTENDS Balance, TLC

\* User 1 has a balance row, user 2 only an account, user 3 does not exist.
MCUsers == 1 .. 3
MCAccounts == {1, 2}
MCHasRow == {1}
MCOpening == [u \in MCUsers |-> 2]
MCAmounts == {-1, 2}
=============================================================================
