----------------------------- MODULE MCRedlock -----------------------------
(***************************************************************************)
(* Small instances of Redlock for TLC.                                     *)
(***************************************************************************)
EXTENDS Redlock, TLC

Perms == Permutations(Servers) \union Permutations(Callers)
=============================================================================
