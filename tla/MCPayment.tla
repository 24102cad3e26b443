------------------------------ MODULE MCPayment ------------------------------
(***************************************************************************)
(* Small instances of Payment for TLC.                                     *)
(***************************************************************************)
EXTENDS Payment, TLC

CONSTANTS alice, bob, o1, o2, o3, v1, v2, v3

MCUsers == {alice, bob}
MCOrders == {o1, o2, o3}
MCVariants == {v1, v2, v3}

\* All orders are Alice's.  Two list the same variants in opposite orders and
\* compete for the one piece of v2; the third lists a variant of its own twice,
\* so that only the balance orders it and the others.
MCOwner == [o \in MCOrders |-> alice]
Of(v, q) == [variant |-> v, quantity |-> q]
MCItems == o1 :> <<Of(v1, 1), Of(v2, 1)>> @@ o2 :> <<Of(v2, 1), Of(v1, 1)>>
             @@ o3 :> <<Of(v3, 1), Of(v3, 1)>>
MCStock == v1 :> 2 @@ v2 :> 1 @@ v3 :> 2

\* Alice can pay the first order or the third.  A fixed-amount coupon has brought
\* the second below zero.
MCPrice == o1 :> 1 @@ o2 :> -1 @@ o3 :> 2
MCBalance == alice :> 2 @@ bob :> 0

\* The same with Alice and the first two orders only, for two calls.
MCOneUser == {alice}
MCTwoOrders == {o1, o2}
MCTwoVariants == {v1, v2}
MCTwoOwner == [o \in MCTwoOrders |-> alice]
MCTwoItems == [o \in MCTwoOrders |-> MCItems[o]]
MCTwoStock == [v \in MCTwoVariants |-> 2]
MCOneBalance == alice :> 2
MCTwoPrice == o1 :> 2 @@ o2 :> 1

CallSymmetry == Permutations(Calls)
=============================================================================
