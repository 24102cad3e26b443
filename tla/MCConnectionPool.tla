-------------------------- MODULE MCConnectionPool --------------------------
(***************************************************************************)
(* Small instances of ConnectionPool for TLC.                              *)
(***************************************************************************)
EXTENDS ConnectionPool, TLC

\* Handlers that need a second connection, and updateOrderStatus, which needs
\* one only after its own transaction's.
MCKindOf == ("h1" :> "updateOrderStatus") @@ ("h2" :> "createOrder") @@
            ("h3" :> "paymentCompletion") @@ ("h4" :> "balanceEvent") @@
            ("h5" :> "cancelPayment") @@ ("h6" :> "processPayment")
=============================================================================
