------------------------------- MODULE Checkout -------------------------------
(***************************************************************************)
(* What paying for an order and cancelling a payment promise to the rest   *)
(* of the shop: stock, money, order and payment change together or not at  *)
(* all, in one indivisible step.                                           *)
(*                                                                         *)
(* Payment.tla, the transactions of PaymentRepositoryPrisma with their     *)
(* locks, is shown to implement this module.                               *)
(***************************************************************************)
EXTENDS Integers, Sequences

CONSTANTS
    Users, Orders, Variants,
    Placed, Owner, Price,   \* the orders that exist, who placed them and what they cost
    Need,                   \* Need[o][v]: the pieces of v in order o
    Stock0, Balance0,
    PatchStatuses

VARIABLES stock, balance, orderStatus, payments

checkoutVars == <<stock, balance, orderStatus, payments>>

CheckoutInit ==
    /\ stock = Stock0
    /\ balance = Balance0
    /\ orderStatus = [o \in Orders |-> "PENDING"]
    /\ payments = <<>>

Pay(o) ==
    /\ o \in Placed /\ orderStatus[o] \notin {"PAID", "CANCELLED"}
    /\ \A v \in Variants : stock[v] >= Need[o][v]
    /\ balance[Owner[o]] >= Price[o]
    /\ stock' = [v \in Variants |-> stock[v] - Need[o][v]]
    /\ balance' = [balance EXCEPT ![Owner[o]] = @ - Price[o]]
    /\ orderStatus' = [orderStatus EXCEPT ![o] = "PAID"]
    /\ payments' = Append(payments, [order |-> o, user |-> Owner[o],
                                     amount |-> Price[o], status |-> "COMPLETED"])

Cancel(p) ==
    /\ payments[p].status = "COMPLETED"
    /\ stock' = [v \in Variants |-> stock[v] + Need[payments[p].order][v]]
    /\ balance' = [balance EXCEPT ![payments[p].user] = @ + payments[p].amount]
    /\ orderStatus' = [orderStatus EXCEPT ![payments[p].order] = "CANCELLED"]
    /\ payments' = [payments EXCEPT ![p].status = "CANCELLED"]

Patch(o, s) ==
    /\ o \in Placed
    /\ orderStatus' = [orderStatus EXCEPT ![o] = s]
    /\ UNCHANGED <<stock, balance, payments>>

CheckoutNext ==
    \/ \E o \in Orders : Pay(o)
    \/ \E p \in DOMAIN payments : Cancel(p)
    \/ \E o \in Orders, s \in PatchStatuses : Patch(o, s)

CheckoutSpec == CheckoutInit /\ [][CheckoutNext]_checkoutVars
=============================================================================
