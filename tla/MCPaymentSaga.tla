---------------------------- MODULE MCPaymentSaga ----------------------------
(***************************************************************************)
(* Small instances of PaymentSaga for TLC.                                 *)
(***************************************************************************)
EXTENDS PaymentSaga, TLC

CONSTANTS alice, bob, o1, o2, v1, r1, r2, r3

MCUsers == {alice, bob}
MCOrders == {o1, o2}
MCVariants == {v1}
MCOwner == o1 :> alice @@ o2 :> bob
MCPrice == [o \in MCOrders |-> 1]
MCQuantity == [o \in MCOrders |-> v1 :> 1]
\* Alice can be charged twice for her order, Bob once.
MCBalance == alice :> 2 @@ bob :> 1
MCStock == v1 :> 2

\* Two of the requests are sent: both for Alice's order, or one for each order.
\* Every request is the owner's.
Mixed == r1 :> o1 @@ r2 :> o2 @@ r3 :> o1
AllRequests == DOMAIN Mixed
ByMixed == [r \in AllRequests |-> MCOwner[Mixed[r]]]
=============================================================================
