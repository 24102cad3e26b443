------------------------------- MODULE Ledger -------------------------------
(***************************************************************************)
(* What a user's balance account promises to the rest of the shop: an      *)
(* account is credited or debited in one indivisible step, a debit never   *)
(* takes more than is there, and every movement leaves one history entry   *)
(* that records the balance it produced.                                   *)
(*                                                                         *)
(* Balance.tla, the row-locking transactions of BalanceRepositoryPrisma,   *)
(* is shown to implement this module.                                      *)
(***************************************************************************)
EXTENDS Integers, Sequences

CONSTANTS
    Users,      \* account owners
    Amounts,    \* amounts a movement may have
    Opening     \* balance of each user before the first movement

VARIABLES
    balance,    \* balance[u]: the committed balance of u
    history     \* history[u]: the committed movements of u, oldest first

ledgerVars == <<balance, history>>

\* enum BalanceType of the schema; the repository writes REFUND for every
\* increment and USE for every decrement.
MovementType == {"REFUND", "USE"}

Entry == [type: MovementType, amount: Amounts, after: Int]

\* The effect of an entry on the balance.
Signed(e) == IF e.type = "USE" THEN 0 - e.amount ELSE e.amount

LedgerInit ==
    /\ balance = Opening
    /\ history = [u \in Users |-> <<>>]

Move(u, type, a) ==
    LET after == balance[u] + Signed([type |-> type, amount |-> a]) IN
    /\ balance' = [balance EXCEPT ![u] = after]
    /\ history' = [history EXCEPT ![u] =
                     Append(@, [type |-> type, amount |-> a, after |-> after])]

Credit(u, a) == Move(u, "REFUND", a)

Debit(u, a) ==
    /\ balance[u] >= a
    /\ Move(u, "USE", a)

LedgerNext == \E u \in Users, a \in Amounts : Credit(u, a) \/ Debit(u, a)

LedgerSpec == LedgerInit /\ [][LedgerNext]_ledgerVars
=============================================================================
