---------------------------- MODULE PaymentProofs ----------------------------
(***************************************************************************)
(* Payment.tla proved for any orders, variants, users and number of calls. *)
(***************************************************************************)
EXTENDS Payment, Sums, SequenceTheorems, TLAPS

\* The arguments of a call and what they name.
LEMMA CallTypes ==
    ASSUME TypeOK, NEW c \in Calls
    PROVE  /\ call[c].user \in Users /\ call[c].user \in Row
           /\ call[c].target \in Resource
           /\ IsPay(c) => call[c].target \in Orders /\ OrderOf(c) = call[c].target
           /\ ~IsPay(c) => call[c].target \in PaymentId
                           /\ OrderOf(c) = payments[call[c].target].order
           /\ IsPay(c) \in BOOLEAN
BY DEF TypeOK, PayCall, CancelCall, IsPay, OrderOf, Resource, Row

\* What a call does, and how it leaves its transaction without a COMMIT.
Acts(c) == Work(c) \/ Fail(c) \/ Hang(c) \/ Crash(c)
Ends(c) == GiveUp(c) \/ Undo(c) \/ TimeOut(c) \/ Fail(c) \/ Crash(c)
Ending == {"cut", "aborted", "failed", "crashed", "hung"}

LEMMA EndsInRollBack ==
    ASSUME NEW c \in Calls, Ends(c)
    PROVE  \E s \in Ending : /\ RollBack(c, s)
                             /\ s \in {"cut", "aborted"} => pc[c] \in InTx
                             /\ s = "cut" => pc[c] \in {"stock", "money"}
<1>1. CASE GiveUp(c) \/ (pc[c] \in Reading \union Writing /\ BreakOff(c))
  BY <1>1 DEF GiveUp, BreakOff, WaitsInTx, Ending, InTx, Reading, Writing
<1>2. QED
  BY <1>1 DEF Ends, Undo, TimeOut, Fail, Crash, Ending, InTx, Leaving

\* A release is about one key, which is free afterwards or still the call's.
LEMMA ReleaseIs ==
    ASSUME TypeOK, NEW c \in Calls, NEW k, NEW s \in Step, NEW t \in Step, Release(c, k, s, t)
    PROVE  /\ pc' = [pc EXCEPT ![c] = s] \/ pc' = [pc EXCEPT ![c] = t]
           /\ pc'[c] \in {s, t} /\ \A d \in Calls \ {c} : pc'[d] = pc[d]
           /\ pc' \in [Calls -> Step]
           /\ \A r \in Resource \ {k} : red'[r] = red[r]
           /\ red' \in [Resource -> Calls \union {NoOne}]
           /\ faults' \in 0 .. MaxFaults
<1>1. /\ pc' = [pc EXCEPT ![c] = s] \/ pc' = [pc EXCEPT ![c] = t]
      /\ red' = [red EXCEPT ![k] = NoOne] \/ red' = [red EXCEPT ![k] = c]
      /\ faults' \in 0 .. MaxFaults
  BY BoundsAssumption DEF Release, Fault, Goto, TypeOK
<1>2. pc \in [Calls -> Step] /\ red \in [Resource -> Calls \union {NoOne}]
  BY DEF TypeOK
<1> HIDE DEF Step, Resource
<1>3. pc'[c] \in {s, t} /\ pc' \in [Calls -> Step] /\ \A d \in Calls \ {c} : pc'[d] = pc[d]
  BY <1>1, <1>2
<1>4. /\ \A r \in Resource \ {k} : red'[r] = red[r]
      /\ red' \in [Resource -> Calls \union {NoOne}]
  BY <1>1, <1>2
<1> QED BY <1>1, <1>3, <1>4

LEMMA HangIs ==
    ASSUME TypeOK, NEW c \in Calls, Hang(c)
    PROVE  /\ \/ pc[c] = "new" /\ pc' = [pc EXCEPT ![c] = "hung"]
              \/ pc[c] = "item" /\ pc' = [pc EXCEPT ![c] = "hanging"]
           /\ pc' \in [Calls -> Step] /\ \A d \in Calls \ {c} : pc'[d] = pc[d]
           /\ \A r \in Resource : red[r] # NoOne => red'[r] = red[r]
           /\ red' \in [Resource -> Calls \union {NoOne}]
           /\ faults' \in 0 .. MaxFaults
           /\ UNCHANGED <<db, rowLocks, call, item, delta>>
<1>1. /\ \/ pc[c] = "new" /\ pc' = [pc EXCEPT ![c] = "hung"]
         \/ pc[c] = "item" /\ pc' = [pc EXCEPT ![c] = "hanging"]
      /\ faults' \in 0 .. MaxFaults
      /\ UNCHANGED <<db, rowLocks, call, item, delta>>
  BY BoundsAssumption DEF Hang, Fault, Goto, TypeOK
<1>2. PICK k \in Resource : red' = red \/ (red[k] = NoOne /\ red' = [red EXCEPT ![k] = c])
  BY DEF Hang
<1>3. pc \in [Calls -> Step] /\ red \in [Resource -> Calls \union {NoOne}]
  BY DEF TypeOK
<1>4. "hung" \in Step /\ "hanging" \in Step
  BY DEF Step, InTx, Leaving, Over
<1> HIDE DEF Step, Resource
<1>5. pc' \in [Calls -> Step] /\ \A d \in Calls \ {c} : pc'[d] = pc[d]
  BY <1>1, <1>3, <1>4
<1>6. /\ \A r \in Resource : red[r] # NoOne => red'[r] = red[r]
      /\ red' \in [Resource -> Calls \union {NoOne}]
  BY <1>2, <1>3
<1> QED BY <1>1, <1>5, <1>6

\* Only a COMMIT and PATCH write what others see.
LEMMA OnlyCommitWrites ==
    ASSUME NEW c \in Calls, Acts(c), ~Commit(c)
    PROVE  UNCHANGED db /\ UNCHANGED call
<1>1. ASSUME Ends(c) PROVE UNCHANGED db /\ UNCHANGED call
  BY <1>1, EndsInRollBack DEF RollBack, db
<1>2. CASE ReadOrder(c) \/ ReadPayment(c)
  BY <1>2 DEF ReadOrder, ReadPayment, RollBack, db
<1>3. CASE LockTarget(c) \/ ReadItems(c) \/ LockVariant(c) \/ ChangeStock(c) \/ LockBalance(c)
  BY <1>3 DEF LockTarget, ReadItems, LockVariant, ChangeStock, LockBalance, db
<1>4. CASE ChangeBalance(c) \/ MarkOrder(c) \/ Finally(c) \/ Unlock(c) \/ TargetBusy(c) \/ Hang(c)
  BY <1>4 DEF ChangeBalance, MarkOrder, Finally, Unlock, TargetBusy, Hang, db
<1>5. QED
  BY <1>1, <1>2, <1>3, <1>4 DEF Acts, Ends, Work

\* A call past its first read is about an existing order.
LEMMA OrderTypes ==
    ASSUME TypeOK, NEW c \in Calls, StaysTrue(c), pc[c] \in {"items", "cut"} \union Writing
    PROVE  /\ OrderOf(c) \in Orders /\ OrderOf(c) \in Row
           /\ Price[OrderOf(c)] \in Int
           /\ ~IsPay(c) => payments[call[c].target] \in PaymentRow
<1>1. CASE IsPay(c)
  BY <1>1, CallTypes, OrdersAssumption DEF Row
<1>2. CASE ~IsPay(c)
  <2>1. call[c].target \in DOMAIN payments
    BY <1>2 DEF StaysTrue
  <2>2. payments[call[c].target] \in PaymentRow
    BY <2>1 DEF TypeOK
  <2>3. QED
    BY <1>2, <2>2, CallTypes, OrdersAssumption DEF PaymentRow, Row
<1>3. QED
  BY <1>1, <1>2

\* The variants of an order are rows.
LEMMA VariantsAreRows == \A o \in Orders : VariantsOf(o) \in SUBSET Variants
                                           /\ VariantsOf(o) \in SUBSET Row
<1> SUFFICES ASSUME NEW o \in Orders, NEW i \in 1 .. Len(Items[o])
             PROVE  Items[o][i].variant \in Variants
  BY DEF VariantsOf, Row
<1>1. Items[o] \in Seq([variant : Variants, quantity : Nat \ {0}])
  BY OrdersAssumption
<1>2. Items[o][i] \in [variant : Variants, quantity : Nat \ {0}]
  BY <1>1, ElementOfSeq
<1>3. QED
  BY <1>2

\* The item a call is at names a variant of its order.
LEMMA ItemTypes ==
    ASSUME TypeOK, NEW c \in Calls, StaysTrue(c), pc[c] \in {"cut"} \union Writing,
           item[c] <= Len(ItemsOf(c))
    PROVE  /\ CurrentItem(c).variant \in Variants
           /\ CurrentItem(c).variant \in VariantsOf(OrderOf(c))
           /\ CurrentItem(c).variant \in Row
           /\ CurrentItem(c).quantity \in Nat \ {0}
<1>1. OrderOf(c) \in Orders
  BY OrderTypes
<1>2. Items[OrderOf(c)] \in Seq([variant : Variants, quantity : Nat \ {0}])
  BY <1>1, OrdersAssumption
<1>3. item[c] \in 1 .. Len(Items[OrderOf(c)])
  BY <1>2 DEF TypeOK, ItemsOf
<1>4. CurrentItem(c) = Items[OrderOf(c)][item[c]]
  BY DEF CurrentItem, ItemsOf
<1>5. CurrentItem(c) \in [variant : Variants, quantity : Nat \ {0}]
  <2>1. PICK s \in Seq([variant : Variants, quantity : Nat \ {0}]) : s = Items[OrderOf(c)]
    BY <1>2
  <2>2. s[item[c]] \in [variant : Variants, quantity : Nat \ {0}]
    <3>1. item[c] \in 1 .. Len(s)
      BY <1>3, <2>1
    <3>2. QED
      BY <3>1, ElementOfSeq
  <2>3. QED
    BY <1>4, <2>1, <2>2
<1>6. QED
  BY <1>3, <1>4, <1>5 DEF VariantsOf, Row

\* What a call locks inside its transaction is no order and no payment.
LEMMA InnerTypes ==
    ASSUME TypeOK, NEW c \in Calls, StaysTrue(c), pc[c] \in {"cut"} \union Writing
    PROVE  Inner(c) \in Variants \union Users
BY ItemTypes, CallTypes DEF Inner

\* TypeOK is preserved; only the amounts moved need ChecksStayTrue.
LEMMA TypeStep == TypeOK /\ ChecksStayTrue /\ [Next]_vars => TypeOK'
<1> SUFFICES ASSUME TypeOK, ChecksStayTrue, [Next]_vars PROVE TypeOK'
  OBVIOUS
<1> USE DEF Goto, db, rowLocks, Step, InTx, Reading, Writing, Leaving, After, Over
<1>1. ASSUME NEW c \in Calls, NEW s \in Ending, RollBack(c, s)
      PROVE  TypeOK'
  BY <1>1 DEF TypeOK, RollBack, EndTx, NoDelta, Ending
<1>2. ASSUME NEW c \in Calls, LockTarget(c) PROVE TypeOK'
  BY <1>2 DEF TypeOK, LockTarget
<1>3. ASSUME NEW c \in Calls, ReadOrder(c) PROVE TypeOK'
  <2>1. CASE Payable(c, call[c].target)
    <3>1. /\ Share(c, {call[c].target})
          /\ pc' = [pc EXCEPT ![c] = "items"]
          /\ UNCHANGED <<db, red, excl, call, item, delta, faults>>
      BY <1>3, <2>1 DEF ReadOrder
    <3>2. QED
      BY <3>1 DEF TypeOK, Share
  <2>2. CASE ~Payable(c, call[c].target)
    BY <1>1, <1>3, <2>2 DEF ReadOrder, Ending
  <2>3. QED
    BY <2>1, <2>2
<1>4. ASSUME NEW c \in Calls, ReadPayment(c) PROVE TypeOK'
  <2>1. CASE RollBack(c, "aborted")
    BY <1>1, <2>1 DEF Ending
  <2>2. CASE ~RollBack(c, "aborted")
    <3>1. pc' = [pc EXCEPT ![c] = "items"]
          /\ UNCHANGED <<db, red, rowLocks, call, item, delta, faults>>
      BY <1>4, <2>2 DEF ReadPayment
    <3>2. QED
      BY <3>1 DEF TypeOK
  <2>3. QED
    BY <2>1, <2>2
<1>5. ASSUME NEW c \in Calls, ReadItems(c) PROVE TypeOK'
  BY <1>5 DEF TypeOK, ReadItems, Share
<1>6. ASSUME NEW c \in Calls, LockVariant(c) PROVE TypeOK'
  <2>1. /\ pc' \in [Calls -> Step] /\ red' \in [Resource -> Calls \union {NoOne}]
        /\ faults' \in 0 .. MaxFaults
    <3>1. CASE Release(c, CurrentItem(c).variant, "throw", "hanging")
      BY <3>1, ReleaseIs
    <3>2. CASE ~Release(c, CurrentItem(c).variant, "throw", "hanging")
      <4>1. /\ red' = [red EXCEPT ![CurrentItem(c).variant] = c]
            /\ pc' = [pc EXCEPT ![c] = "stock"] /\ UNCHANGED faults
        BY <1>6, <3>2 DEF LockVariant
      <4>2. QED
        BY <4>1 DEF TypeOK
    <3>3. QED
      BY <3>1, <3>2
  <2>2. QED
    BY <1>6, <2>1 DEF TypeOK, LockVariant
<1>7. ASSUME NEW c \in Calls, ChangeStock(c) PROVE TypeOK'
  <2> DEFINE v == CurrentItem(c).variant
  <2>1. item[c] <= Len(ItemsOf(c)) /\ StaysTrue(c) /\ pc[c] \in Writing
    BY <1>7 DEF ChangeStock, ChecksStayTrue, StaysTrue, ItemsOf
  <2>2. v \in Variants /\ Pieces(c) \in Int
    BY <2>1, ItemTypes DEF Pieces
  <2> HIDE DEF v
  <2>3. delta' = [delta EXCEPT ![c][v] = @ + Pieces(c)]
    BY <1>7 DEF ChangeStock, v
  <2>4. delta' \in [Calls -> [Variants -> Int]]
    BY <2>2, <2>3 DEF TypeOK
  <2>5. item' \in [Calls -> Nat \ {0}]
    BY <1>7 DEF ChangeStock, TypeOK
  <2>6. /\ pc' \in [Calls -> Step] /\ red' \in [Resource -> Calls \union {NoOne}]
        /\ faults' \in 0 .. MaxFaults
    <3>1. Release(c, CurrentItem(c).variant, "item", "hanging")
      BY <1>7 DEF ChangeStock
    <3>2. QED
      BY <3>1, ReleaseIs
  <2>7. QED
    BY <1>7, <2>4, <2>5, <2>6 DEF TypeOK, ChangeStock, Own
<1>8. ASSUME NEW c \in Calls, LockBalance(c) PROVE TypeOK'
  BY <1>8 DEF TypeOK, LockBalance
<1>9. ASSUME NEW c \in Calls, ChangeBalance(c) PROVE TypeOK'
  <2>1. PICK s \in {"mark", "throw"} : Release(c, call[c].user, s, "hanging")
    BY <1>9 DEF ChangeBalance
  <2>2. /\ pc' \in [Calls -> Step] /\ red' \in [Resource -> Calls \union {NoOne}]
        /\ faults' \in 0 .. MaxFaults
    BY <2>1, ReleaseIs
  <2>3. QED
    BY <1>9, <2>2 DEF TypeOK, ChangeBalance, Own
<1>10. ASSUME NEW c \in Calls, MarkOrder(c) PROVE TypeOK'
  BY <1>10 DEF TypeOK, MarkOrder, Own
<1>11. ASSUME NEW c \in Calls, Commit(c) PROVE TypeOK'
  <2>1. StaysTrue(c) /\ pc[c] \in Writing
    BY <1>11 DEF Commit, ChecksStayTrue
  <2>2. Money(c) \in Int
    BY <2>1, OrderTypes DEF Money, PaymentRow
  <2>3. stock' \in [Variants -> Int] /\ balance' \in [Users -> Int]
    <3>1. /\ stock' = [v \in Variants |-> stock[v] + delta[c][v]]
          /\ balance' = [balance EXCEPT ![call[c].user] = balance[call[c].user] + Money(c)]
      BY <1>11 DEF Commit
    <3>2. stock \in [Variants -> Int] /\ delta[c] \in [Variants -> Int]
          /\ balance \in [Users -> Int] /\ call[c].user \in Users
      BY CallTypes DEF TypeOK
    <3>3. stock' \in [Variants -> Int]
      BY <3>1, <3>2
    <3>4. balance' \in [Users -> Int]
      BY <2>2, <3>1, <3>2
    <3>5. QED
      BY <3>3, <3>4
  <2>4. orderStatus' \in [Orders -> OrderStatus]
    BY <1>11 DEF Commit, TypeOK, NewStatus, OrderStatus
  <2>5. payments' \in Seq(PaymentRow)
    <3>1. CASE IsPay(c)
      <4>1. NewPayment(c) \in PaymentRow
        BY <2>1, OrderTypes, CallTypes DEF NewPayment, PaymentRow
      <4>2. QED
        BY <1>11, <3>1, <4>1 DEF Commit, TypeOK
    <3>2. CASE ~IsPay(c)
      <4>1. payments' = [payments EXCEPT ![call[c].target].status = "CANCELLED"]
        BY <1>11, <3>2 DEF Commit, CancelPayment
      <4>2. call[c].target \in DOMAIN payments
        BY <2>1, <3>2 DEF StaysTrue
      <4>3. [payments[call[c].target] EXCEPT !.status = "CANCELLED"] \in PaymentRow
        <5>1. payments[call[c].target] \in PaymentRow
          BY <2>1, <3>2, OrderTypes
        <5>2. QED
          BY <5>1 DEF PaymentRow
      <4>4. QED
        BY <4>1, <4>2, <4>3 DEF TypeOK
    <3>3. QED
      BY <3>1, <3>2
  <2>6. QED
    BY <1>11, <2>3, <2>4, <2>5 DEF TypeOK, Commit, EndTx, NoDelta
<1>12. ASSUME NEW c \in Calls, Finally(c) \/ Unlock(c) PROVE TypeOK'
  <2>1. /\ \E k : \E s \in Step : Release(c, k, s, "hung")
        /\ UNCHANGED <<db, rowLocks, call, item, delta>>
    BY <1>12 DEF Finally, Unlock
  <2>2. /\ pc' \in [Calls -> Step] /\ red' \in [Resource -> Calls \union {NoOne}]
        /\ faults' \in 0 .. MaxFaults
    BY <2>1, ReleaseIs
  <2>3. QED
    BY <2>1, <2>2 DEF TypeOK
<1>13. ASSUME NEW c \in Calls, TargetBusy(c) PROVE TypeOK'
  BY <1>13 DEF TypeOK, TargetBusy
<1>14. ASSUME NEW k \in Resource, Expire(k) PROVE TypeOK'
  BY <1>14 DEF TypeOK, Expire
<1>15. ASSUME NEW o \in Orders, NEW s \in PatchStatuses, SetStatus(o, s) PROVE TypeOK'
  BY <1>15, BoundsAssumption DEF TypeOK, SetStatus
<1>16. CASE UNCHANGED vars
  BY <1>16 DEF TypeOK, vars
<1>17. ASSUME NEW c \in Calls, Ends(c) PROVE TypeOK'
  BY <1>1, <1>17, EndsInRollBack
<1>18. ASSUME NEW c \in Calls, Hang(c) PROVE TypeOK'
  BY <1>18, HangIs DEF TypeOK
<1>19. QED
  BY <1>2, <1>3, <1>4, <1>5, <1>6, <1>7, <1>8, <1>9, <1>10, <1>11, <1>12, <1>13,
     <1>14, <1>15, <1>16, <1>17, <1>18 DEF Next, Work, Ends, Idle

-----------------------------------------------------------------------------
\* Two transactions never hold conflicting row locks: every step preserves it.
LEMMA LockStep == TypeOK /\ ChecksStayTrue /\ [Next]_vars => LockTable'
<1> SUFFICES ASSUME TypeOK, LockTable, \A c \in Calls : StaysTrue(c), [Next]_vars
             PROVE  LockTable'
  BY DEF ChecksStayTrue
<1> USE NoOneAssumption DEF Goto, db, rowLocks, InTx, Reading, Writing, Leaving, After, Over
<1> DEFINE Same == UNCHANGED rowLocks
           Moved(c) == /\ \E s \in Step : pc' = [pc EXCEPT ![c] = s]
                       /\ pc[c] \in InTx => pc'[c] \in InTx
                       /\ pc[c] \in Writing \union Leaving => pc'[c] \in Writing \union Leaving
<1>1. ASSUME NEW c \in Calls, NEW s, Goto(c, s), EndTx(c) PROVE LockTable'
  BY <1>1 DEF TypeOK, LockTable, EndTx
<1>2. ASSUME NEW c \in Calls, Same, Moved(c) PROVE LockTable'
  BY <1>2 DEF TypeOK, LockTable
<1>3. ASSUME NEW c \in Calls, NEW w \in Row, MayOwn(c, w), Own(c, w), UNCHANGED shared,
             pc[c] \in Writing, Moved(c), pc'[c] \in Writing \union Leaving
      PROVE  LockTable'
  BY <1>3 DEF TypeOK, LockTable, MayOwn, Own
<1>4. ASSUME NEW c \in Calls, NEW W \in SUBSET Row, \A w \in W : MayShare(c, w),
             Share(c, W), UNCHANGED excl, pc[c] \in Reading, Moved(c), pc'[c] \in InTx
      PROVE  LockTable'
  BY <1>4 DEF TypeOK, LockTable, MayShare, Share
<1>5. ASSUME NEW c \in Calls, NEW s, RollBack(c, s) PROVE LockTable'
  BY <1>1, <1>5 DEF RollBack
<1> USE DEF Step
<1>6. ASSUME NEW c \in Calls, Acts(c) PROVE LockTable'
  <2>1. ASSUME LockTarget(c) PROVE LockTable'
    BY <1>2, <2>1 DEF TypeOK, LockTarget
  <2>2. ASSUME ReadOrder(c) PROVE LockTable'
    <3>1. CASE Payable(c, call[c].target)
      <4>1. call[c].target \in Row
        BY <2>2, CallTypes DEF ReadOrder, Row
      <4>2. QED
        BY <1>4, <2>2, <3>1, <4>1 DEF TypeOK, ReadOrder
    <3>2. QED
      BY <1>5, <2>2, <3>1 DEF ReadOrder
  <2>3. ASSUME ReadPayment(c) PROVE LockTable'
    BY <1>2, <1>5, <2>3 DEF TypeOK, ReadPayment
  <2>4. ASSUME ReadItems(c) PROVE LockTable'
    <3>1. VariantsOf(OrderOf(c)) \in SUBSET Row
      BY <2>4, OrderTypes, VariantsAreRows DEF ReadItems
    <3>2. QED
      BY <1>4, <2>4, <3>1 DEF TypeOK, ReadItems
  <2>5. ASSUME LockVariant(c) PROVE LockTable'
    <3>1. /\ \E s \in {"stock", "throw", "hanging"} : pc' = [pc EXCEPT ![c] = s]
          /\ pc[c] = "item" /\ UNCHANGED rowLocks
      BY <2>5, ReleaseIs DEF LockVariant
    <3>2. Same /\ Moved(c)
      BY <3>1 DEF TypeOK
    <3>3. QED
      BY <1>2, <3>2
  <2>6. ASSUME ChangeStock(c) PROVE LockTable'
    <3>1. CurrentItem(c).variant \in Row
      BY <2>6, ItemTypes DEF ChangeStock, StaysTrue, ItemsOf
    <3>2. \E s \in {"item", "hanging"} : pc' = [pc EXCEPT ![c] = s]
      BY <2>6, ReleaseIs DEF ChangeStock
    <3>3. QED
      BY <1>3, <2>6, <3>1, <3>2 DEF TypeOK, ChangeStock
  <2>7. ASSUME LockBalance(c) PROVE LockTable'
    BY <1>2, <2>7 DEF TypeOK, LockBalance
  <2>8. ASSUME ChangeBalance(c) PROVE LockTable'
    <3>1. \E s \in {"mark", "throw", "hanging"} : pc' = [pc EXCEPT ![c] = s]
      BY <2>8, ReleaseIs DEF ChangeBalance
    <3>2. QED
      BY <1>3, <2>8, <3>1, CallTypes DEF TypeOK, ChangeBalance
  <2>9. ASSUME MarkOrder(c) PROVE LockTable'
    <3>1. OrderOf(c) \in Row
      BY <2>9, OrderTypes DEF MarkOrder
    <3>2. QED
      BY <1>3, <2>9, <3>1 DEF TypeOK, MarkOrder
  <2>10. ASSUME Commit(c) PROVE LockTable'
    BY <1>1, <2>10 DEF Commit
  <2>11. ASSUME Finally(c) \/ Unlock(c) \/ TargetBusy(c) \/ Hang(c) PROVE LockTable'
    <3>1. /\ \E s \in {"aborted", "done", "failed", "hung", "hanging"} :
                pc' = [pc EXCEPT ![c] = s] /\ (pc[c] = "item" => s = "hanging")
          /\ pc[c] \in {"new", "item"} \union After /\ UNCHANGED rowLocks
      <4>1. CASE Finally(c)
        BY <4>1, ReleaseIs DEF Finally
      <4>2. CASE Unlock(c)
        BY <4>2, ReleaseIs DEF Unlock
      <4>3. CASE TargetBusy(c) \/ Hang(c)
        BY <4>3, HangIs DEF TargetBusy, WaitsForTarget
      <4>4. QED
        BY <2>11, <4>1, <4>2, <4>3
    <3>2. Same /\ Moved(c)
      BY <3>1 DEF TypeOK
    <3>3. QED
      BY <1>2, <3>2
  <2>12. ASSUME Ends(c) PROVE LockTable'
    BY <1>5, <2>12, EndsInRollBack
  <2>13. QED
    BY <1>6, <2>1, <2>2, <2>3, <2>4, <2>5, <2>6, <2>7, <2>8, <2>9, <2>10, <2>11, <2>12
       DEF Acts, Work, Ends
<1>7. CASE UNCHANGED <<rowLocks, pc>>
  BY <1>7 DEF LockTable
<1>8. QED
  BY <1>6, <1>7 DEF Next, Acts, Expire, SetStatus, Idle, vars

-----------------------------------------------------------------------------
\* What a step of somebody else leaves to call c: its own state and its locks.
Live == InTx \union After
Keeps(c) ==
    /\ pc'[c] = pc[c] /\ call'[c] = call[c] /\ item'[c] = item[c]
    /\ delta'[c] = delta[c]
    /\ pc[c] \in Live /\ red[call[c].target] = c => red'[call[c].target] = c
    /\ \A w \in Row : /\ c \in shared[w] => c \in shared'[w]
                      /\ excl[w] = c => excl'[w] = c

\* A call that keeps its locks keeps its checks while nothing is committed.
LEMMA Kept ==
    ASSUME TypeOK, NEW c \in Calls, StaysTrue(c), Keeps(c), UNCHANGED db
    PROVE  StaysTrue(c)'
<1>1. OrderOf(c)' = OrderOf(c) /\ IsPay(c)' = IsPay(c)
  BY DEF Keeps, OrderOf, IsPay, db
<1>2. call[c].user \in Row
  BY CallTypes
<1>3. pc[c] \in {"items", "cut"} \union Writing =>
        /\ OrderOf(c) \in Row
        /\ \A v \in VariantsOf(OrderOf(c)) : v \in Row
  BY OrderTypes, VariantsAreRows
<1>4. \A v \in Variants : v \in Row
  BY DEF Row
<1>5. CurrentItem(c)' = CurrentItem(c)
  BY <1>1 DEF Keeps, CurrentItem, ItemsOf
<1> HIDE DEF Row
<1>6. QED
  BY <1>1, <1>2, <1>3, <1>4, <1>5 DEF StaysTrue, Keeps, Live, db, Writing, InTx, Reading, Leaving, After

\* Before its commit a step of a call is of no consequence to the others.
LEMMA OthersKept ==
    ASSUME TypeOK, NEW c \in Calls, NEW d \in Calls \ {c}, StaysTrue(d),
           Acts(d)
    PROVE  Keeps(c)
<1> USE NoOneAssumption DEF Keeps, Goto, db, rowLocks
<1>1. ASSUME NEW s, RollBack(d, s) PROVE Keeps(c)
  BY <1>1 DEF TypeOK, RollBack, EndTx
<1>2. call[c].target \in Resource /\ call[c].target \notin Variants \union Users
  BY CallTypes, KindsAssumption DEF PaymentId, Resource, Row
<1>s. {"item", "mark", "throw", "hanging", "hung", "aborted", "done", "failed"} \subseteq Step
  BY DEF Step, InTx, Writing, Leaving, After, Over
<1>3. CASE LockTarget(d)
  BY <1>3 DEF TypeOK, LockTarget
<1>4. CASE ReadOrder(d)
  <2>1. CASE RollBack(d, "aborted")
    BY <1>1, <2>1
  <2>2. CASE ~RollBack(d, "aborted")
    <3>1. /\ Share(d, {call[d].target})
          /\ pc' = [pc EXCEPT ![d] = "items"]
          /\ UNCHANGED <<db, red, excl, call, item, delta>>
      BY <1>4, <2>2 DEF ReadOrder
    <3>2. QED
      BY <3>1 DEF TypeOK, Share
  <2>3. QED
    BY <2>1, <2>2
<1>5. CASE ReadPayment(d)
  BY <1>1, <1>5 DEF TypeOK, ReadPayment
<1>6. CASE ReadItems(d)
  BY <1>6 DEF TypeOK, ReadItems, Share
<1>7. CASE LockVariant(d)
  <2>1. CurrentItem(d).variant \in Variants
    BY <1>7, ItemTypes DEF LockVariant, Writing
  <2>2. /\ pc'[c] = pc[c]
        /\ \A r \in Resource \ {CurrentItem(d).variant} : red'[r] = red[r]
    <3>1. CASE Release(d, CurrentItem(d).variant, "throw", "hanging")
      BY <1>s, <3>1, ReleaseIs
    <3>2. CASE ~Release(d, CurrentItem(d).variant, "throw", "hanging")
      BY <1>7, <3>2 DEF LockVariant, TypeOK
    <3>3. QED
      BY <3>1, <3>2
  <2>3. QED
    BY <1>2, <1>7, <2>1, <2>2 DEF LockVariant
<1>8. CASE ChangeStock(d)
  <2>1. PICK v \in Variants : v = CurrentItem(d).variant
    BY <1>8, ItemTypes DEF ChangeStock, StaysTrue, ItemsOf, Writing
  <2>2. /\ MayOwn(d, v) /\ Own(d, v)
        /\ delta' = [delta EXCEPT ![d][v] = @ + Pieces(d)]
        /\ Release(d, v, "item", "hanging")
        /\ item' = [item EXCEPT ![d] = @ + 1]
        /\ UNCHANGED <<db, shared, call>>
    BY <1>8, <2>1 DEF ChangeStock
  <2>3. delta'[c] = delta[c]
    <3>1. delta \in [Calls -> [Variants -> Int]] /\ delta' = [delta EXCEPT ![d][v] = @ + Pieces(d)]
      BY <2>2 DEF TypeOK
    <3>2. QED
      BY <3>1
  <2>4. pc'[c] = pc[c] /\ \A r \in Resource \ {v} : red'[r] = red[r]
    BY <1>s, <2>2, ReleaseIs
  <2>5. call'[c] = call[c] /\ item'[c] = item[c]
    BY <2>2 DEF TypeOK
  <2>6. red'[call[c].target] = red[call[c].target]
    BY <1>2, <2>4
  <2>7. \A w \in Row : (c \in shared[w] => c \in shared'[w]) /\ (excl[w] = c => excl'[w] = c)
    BY <2>2 DEF TypeOK, Own, MayOwn
  <2>8. QED
    BY <2>3, <2>4, <2>5, <2>6, <2>7
<1>9. CASE LockBalance(d)
  BY <1>9 DEF TypeOK, LockBalance
<1>10. CASE ChangeBalance(d)
  <2>1. PICK s \in {"mark", "throw"} : Release(d, call[d].user, s, "hanging")
    BY <1>10 DEF ChangeBalance
  <2>a. s \in Step /\ "hanging" \in Step
    BY <1>s
  <2>2. pc'[c] = pc[c] /\ \A r \in Resource \ {call[d].user} : red'[r] = red[r]
    BY <2>1, <2>a, ReleaseIs
  <2>3. QED
    BY <1>2, <1>10, <2>2, CallTypes DEF TypeOK, ChangeBalance, Own, MayOwn
<1>11. CASE MarkOrder(d)
  BY <1>11 DEF TypeOK, MarkOrder, Own, MayOwn
<1>12. CASE Commit(d)
  BY <1>12 DEF TypeOK, Commit, EndTx
<1>13. CASE Finally(d) \/ Unlock(d) \/ TargetBusy(d)
  <2>1. CASE Finally(d)
    <3>1. pc'[c] = pc[c] /\ \A r \in Resource \ {Inner(d)} : red'[r] = red[r]
      BY <1>s, <2>1, ReleaseIs DEF Finally
    <3>2. Inner(d) # call[c].target
      BY <1>2, <2>1, InnerTypes DEF Finally
    <3>3. QED
      BY <1>2, <2>1, <3>1, <3>2 DEF Finally
  <2>2. CASE Unlock(d)
    <3>1. PICK s \in {"done", "failed"} : Release(d, call[d].target, s, "hung")
      BY <2>2 DEF Unlock
    <3>2. pc'[c] = pc[c] /\ \A r \in Resource \ {call[d].target} : red'[r] = red[r]
      BY <1>s, <3>1, ReleaseIs
    <3>3. red[call[d].target] = d
      BY <2>2 DEF Unlock, StaysTrue, After
    <3>4. QED
      BY <1>2, <2>2, <3>2, <3>3 DEF Unlock
  <2>3. CASE TargetBusy(d)
    BY <2>3 DEF TargetBusy, TypeOK
  <2>4. QED
    BY <1>13, <2>1, <2>2, <2>3
<1>14. CASE Ends(d)
  BY <1>1, <1>14, EndsInRollBack
<1>15. CASE Hang(d)
  BY <1>2, <1>15, HangIs
<1>16. QED
  BY <1>3, <1>4, <1>5, <1>6, <1>7, <1>8, <1>9, <1>10, <1>11, <1>12, <1>13, <1>14, <1>15
     DEF Acts, Work, Ends

\* A commit brings no stock below zero.
LEMMA CommitStock ==
    ASSUME TypeOK, NeverOversold, NEW d \in Calls, StaysTrue(d), Commit(d)
    PROVE  /\ \A v \in Variants : stock'[v] = stock[v] + delta[d][v]
           /\ NeverOversold'
<1>1. \A v \in Variants : stock'[v] = stock[v] + delta[d][v]
  BY DEF Commit
<1>2. \A v \in Variants : stock[v] \in Int /\ delta[d][v] \in Int
  BY DEF TypeOK
<1>3. \A v \in Variants : stock[v] + delta[d][v] >= 0
  BY <1>2 DEF StaysTrue, NeverOversold
<1>4. QED
  BY <1>1, <1>3 DEF NeverOversold

\* A commit keeps every payment row; it changes at most the one it cancels.
LEMMA CommitPayments ==
    ASSUME TypeOK, NEW d \in Calls, StaysTrue(d), Commit(d),
           NEW p \in DOMAIN payments
    PROVE  /\ p \in DOMAIN payments'
           /\ payments'[p].order = payments[p].order
           /\ IsPay(d) \/ p # call[d].target => payments'[p] = payments[p]
<1>0. payments \in Seq(PaymentRow) /\ payments[p] \in PaymentRow
  BY DEF TypeOK
<1>1. CASE IsPay(d)
  <2>1. payments' = Append(payments, NewPayment(d))
    BY <1>1 DEF Commit
  <2>2. QED
    BY <1>0, <1>1, <2>1
<1>2. CASE ~IsPay(d)
  <2>1. payments' = [payments EXCEPT ![call[d].target].status = "CANCELLED"]
    BY <1>2 DEF Commit, CancelPayment
  <2>2. QED
    BY <1>0, <1>2, <2>1 DEF PaymentRow
<1>3. QED
  BY <1>1, <1>2

\* A commit writes only what the call has locked, so the checks of the others
\* stay true.
LEMMA OthersSurviveCommit ==
    ASSUME TypeOK, ChecksStayTrue, NeverOversold,
           NEW c \in Calls, NEW d \in Calls \ {c}, Commit(d)
    PROVE  StaysTrue(c)'
<1>1. StaysTrue(c) /\ StaysTrue(d) /\ LockTable
  BY DEF ChecksStayTrue
<1>2. Keeps(c)
  BY <1>1, OthersKept DEF Acts, Work
<1>3. ASSUME NEW v \in Variants, c \in shared[v] \/ delta[c][v] # 0
      PROVE  stock'[v] = stock[v]
  <2>1. v \in Row
    BY DEF Row
  <2>2. delta[d][v] = 0
    BY <1>1, <1>3, <2>1, NoOneAssumption DEF StaysTrue, LockTable
  <2>3. QED
    BY <1>1, <2>2, CommitStock DEF TypeOK
<1>4. \A v \in Variants : stock'[v] \in Int /\ stock'[v] >= 0 /\ delta[c][v] \in Int
  BY <1>1, CommitStock DEF NeverOversold, TypeOK
<1>5. ASSUME NEW o \in Orders, c \in shared[o] PROVE orderStatus'[o] = orderStatus[o]
  <2>1. OrderOf(d) \in Row /\ excl[OrderOf(d)] = d
    BY <1>1, OrderTypes DEF StaysTrue, Commit, Writing
  <2>2. o # OrderOf(d)
    BY <1>1, <1>5, <2>1, NoOneAssumption DEF LockTable
  <2>3. orderStatus' = [orderStatus EXCEPT ![OrderOf(d)] = NewStatus(d)]
    BY DEF Commit
  <2>4. QED
    BY <2>2, <2>3 DEF TypeOK
<1>6. excl[call[c].user] = c => balance'[call[c].user] = balance[call[c].user]
  <2>1. excl[call[d].user] = d
    BY <1>1 DEF StaysTrue, Commit
  <2>2. balance' = [balance EXCEPT ![call[d].user] = balance[call[d].user] + Money(d)]
    BY DEF Commit
  <2>3. QED
    BY <2>1, <2>2 DEF TypeOK
<1>7. ASSUME NEW q \in DOMAIN payments, q = call[c].target, red[call[c].target] = c, ~IsPay(c)
      PROVE  payments'[q] = payments[q] /\ q \in DOMAIN payments'
  <2>1. red[call[d].target] = d
    BY <1>1 DEF StaysTrue, Commit, InTx, Writing
  <2>2. q # call[d].target
    BY <1>7, <2>1
  <2>3. QED
    BY <1>1, <2>2, CommitPayments
<1>8. IsPay(c)' = IsPay(c)
  BY <1>2 DEF Keeps, IsPay
<1>9. pc[c] \in {"items", "cut"} \union Writing => OrderOf(c)' = OrderOf(c)
  <2>1. ASSUME pc[c] \in {"items", "cut"} \union Writing, ~IsPay(c)
        PROVE  /\ call[c].target \in DOMAIN payments
               /\ red[call[c].target] = c
    BY <1>1, <2>1 DEF StaysTrue, InTx, Reading, After
  <2>2. call'[c] = call[c]
    BY <1>2 DEF Keeps
  <2>3. QED
    BY <1>7, <1>8, <2>1, <2>2 DEF OrderOf
<1>10. pc[c] \in {"items"} \union Writing =>
         /\ OrderOf(c) \in Orders /\ OrderOf(c) \in Row
         /\ \A v \in VariantsOf(OrderOf(c)) : v \in Row
  BY <1>1, OrderTypes, VariantsAreRows
<1>11. call[c].user \in Row /\ \A v \in Variants : v \in Row
  BY CallTypes DEF Row
<1>12. pc[c] = "stock" => /\ CurrentItem(c)' = CurrentItem(c)
                          /\ CurrentItem(c).variant \in Variants
                          /\ c \in shared[CurrentItem(c).variant]
  <2>1. pc[c] = "stock" => item[c] <= Len(ItemsOf(c))
    BY <1>1 DEF StaysTrue, ItemsOf
  <2>2. pc[c] = "stock" => /\ CurrentItem(c).variant \in Variants
                           /\ c \in shared[CurrentItem(c).variant]
    BY <1>1, <2>1, ItemTypes DEF StaysTrue, Writing
  <2>3. QED
    BY <1>2, <1>9, <2>2 DEF Keeps, CurrentItem, ItemsOf, Writing
<1> HIDE DEF Row
<1>13. IsPay(c) => \A v \in Variants : stock'[v] + delta'[c][v] >= 0
  <2>1. ASSUME IsPay(c), NEW v \in Variants PROVE stock'[v] + delta[c][v] >= 0
    <3>1. stock[v] + delta[c][v] >= 0
      BY <1>1, <2>1 DEF StaysTrue
    <3>2. CASE delta[c][v] = 0
      BY <1>4, <3>2
    <3>3. CASE delta[c][v] # 0
      BY <1>3, <3>1, <3>3
    <3>4. QED
      BY <3>2, <3>3
  <2>2. delta'[c] = delta[c]
    BY <1>2 DEF Keeps
  <2>3. QED
    BY <2>1, <2>2
<1>14. QED
  BY <1>1, <1>2, <1>3, <1>5, <1>6, <1>7, <1>8, <1>9, <1>10, <1>11, <1>12, <1>13
     DEF StaysTrue, Keeps, Live, InTx, Reading, Writing, Leaving, After

\* A status update passes by every order a running payment has read.
LEMMA AllSurviveSetStatus ==
    ASSUME TypeOK, ChecksStayTrue, NEW o \in Orders, NEW s, SetStatus(o, s),
           NEW c \in Calls
    PROVE  StaysTrue(c)'
<1>1. StaysTrue(c)
  BY DEF ChecksStayTrue
<1>2. IsPay(c)' = IsPay(c) /\ OrderOf(c)' = OrderOf(c) /\ CurrentItem(c)' = CurrentItem(c)
  BY DEF SetStatus, IsPay, OrderOf, CurrentItem, ItemsOf
<1>3. pc[c] \in {"items"} \union Writing /\ IsPay(c) =>
        orderStatus'[OrderOf(c)] = orderStatus[OrderOf(c)]
  BY <1>1 DEF StaysTrue, SetStatus, TypeOK
<1>4. QED
  BY <1>1, <1>2, <1>3 DEF StaysTrue, SetStatus, rowLocks

\* What a call has just checked, or locked, is true after its own step.
LEMMA OwnStep ==
    ASSUME TypeOK, ChecksStayTrue, NeverOversold, NEW c \in Calls,
           Acts(c)
    PROVE  StaysTrue(c)'
<1>1. StaysTrue(c) /\ NoOne \notin Calls
  BY NoOneAssumption DEF ChecksStayTrue
<1>2. call' = call
  BY OnlyCommitWrites DEF Commit
<1>3. IsPay(c)' = IsPay(c)
  BY <1>2 DEF IsPay
<1>4. payments' = payments => /\ OrderOf(c)' = OrderOf(c)
                              /\ item' = item => CurrentItem(c)' = CurrentItem(c)
  BY <1>2, <1>3 DEF OrderOf, CurrentItem, ItemsOf
<1>5. \A v \in Variants : stock[v] \in Int /\ stock[v] >= 0
  BY DEF NeverOversold, TypeOK
<1>6. call[c].target \in Resource /\ call[c].target \notin Variants \union Users
  BY CallTypes, KindsAssumption DEF PaymentId, Resource, Row
<1>7. /\ \A v \in Variants : v \in Row
      /\ call[c].user \in Row
      /\ pc[c] \in {"items", "cut"} \union Writing =>
           /\ OrderOf(c) \in Orders /\ OrderOf(c) \in Row
           /\ \A v \in VariantsOf(OrderOf(c)) : v \in Row
  BY <1>1, CallTypes, OrderTypes, VariantsAreRows DEF Row
<1> USE DEF Goto, db, rowLocks, InTx, Reading, Writing, Leaving, After, Over
<1>8. ASSUME NEW s \in Ending, RollBack(c, s),
             s \in {"cut", "aborted"} => pc[c] \in InTx,
             s = "cut" => pc[c] \in {"stock", "money"}
      PROVE  StaysTrue(c)'
  <2>1. /\ pc'[c] = s
        /\ delta'[c] = NoDelta
        /\ UNCHANGED <<db, red, call, item>>
    BY <1>8 DEF RollBack, EndTx, TypeOK
  <2>2. \A v \in Variants : delta'[c][v] = 0
    BY <2>1 DEF NoDelta
  <2>3. \A v \in Variants : stock'[v] + delta'[c][v] >= 0
    BY <1>5, <2>1, <2>2
  <2>4. s \in {"cut", "aborted"} => red'[call'[c].target] = c
    BY <1>1, <1>8, <2>1 DEF StaysTrue
  <2>5. s = "cut" /\ ~IsPay(c) =>
          /\ call'[c].target \in DOMAIN payments'
          /\ payments'[call'[c].target].user = call'[c].user
          /\ payments'[call'[c].target].status = "COMPLETED"
    BY <1>1, <1>8, <2>1 DEF StaysTrue
  <2>6. QED
    BY <1>3, <1>8, <2>1, <2>2, <2>3, <2>4, <2>5 DEF StaysTrue, Ending
<1>s. {"item", "mark", "throw", "hanging", "hung", "aborted", "done", "failed"} \subseteq Step
  BY DEF Step
<1>9. CASE LockTarget(c)
  <2>1. /\ pc'[c] = "begin" /\ red'[call[c].target] = c
        /\ UNCHANGED <<db, rowLocks, call, item, delta>>
    BY <1>6, <1>9 DEF LockTarget, TypeOK
  <2>2. QED
    BY <1>1, <1>3, <2>1 DEF StaysTrue
<1>10. CASE ReadOrder(c)
  <2>1. CASE RollBack(c, "aborted")
    BY <1>8, <1>10, <2>1 DEF ReadOrder, Ending
  <2>2. CASE ~RollBack(c, "aborted")
    <3>1. /\ Payable(c, call[c].target) /\ IsPay(c) /\ pc[c] = "begin"
          /\ Share(c, {call[c].target})
          /\ pc' = [pc EXCEPT ![c] = "items"]
          /\ UNCHANGED <<db, red, excl, call, item, delta>>
      BY <1>10, <2>2 DEF ReadOrder
    <3>2. /\ pc'[c] = "items" /\ c \in shared'[call[c].target]
          /\ OrderOf(c) = call[c].target
      BY <3>1, CallTypes DEF Share, TypeOK, Row
    <3>3. QED
      BY <1>1, <1>3, <1>4, <3>1, <3>2 DEF StaysTrue, Payable
  <2>3. QED
    BY <2>1, <2>2
<1>11. CASE ReadPayment(c)
  <2>1. CASE RollBack(c, "aborted")
    BY <1>8, <1>11, <2>1 DEF ReadPayment, Ending
  <2>2. CASE ~RollBack(c, "aborted")
    <3>1. /\ pc'[c] = "items" /\ pc[c] = "begin" /\ ~IsPay(c)
          /\ call[c].target \in DOMAIN payments
          /\ payments[call[c].target].user = call[c].user
          /\ payments[call[c].target].status = "COMPLETED"
          /\ UNCHANGED <<db, red, rowLocks, call, item, delta>>
      BY <1>11, <2>2 DEF ReadPayment, TypeOK
    <3>2. QED
      BY <1>1, <1>3, <3>1 DEF StaysTrue
  <2>3. QED
    BY <2>1, <2>2
<1>12. CASE ReadItems(c)
  <2>1. /\ pc[c] = "items" /\ pc'[c] = "item"
        /\ \A v \in VariantsOf(OrderOf(c)) : c \in shared'[v]
        /\ \A w \in Row : c \in shared[w] => c \in shared'[w]
        /\ UNCHANGED <<db, red, excl, call, item, delta>>
    BY <1>7, <1>12 DEF ReadItems, Share, TypeOK
  <2>2. QED
    BY <1>1, <1>3, <1>4, <1>7, <2>1 DEF StaysTrue
<1>13. CASE LockVariant(c)
  <2> DEFINE v == CurrentItem(c).variant
  <2>1. /\ pc[c] = "item" /\ item[c] <= Len(ItemsOf(c))
        /\ v \in Variants /\ CurrentItem(c).quantity \in Nat
    BY <1>1, <1>13, ItemTypes DEF LockVariant
  <2>2. /\ \/ pc'[c] \in Leaving
           \/ pc'[c] = "stock" /\ ~(IsPay(c) /\ stock[v] + delta[c][v] < CurrentItem(c).quantity)
        /\ \A r \in Resource \ {v} : red'[r] = red[r]
        /\ UNCHANGED <<db, rowLocks, call, item, delta>>
    <3>1. CASE Release(c, v, "throw", "hanging")
      BY <1>s, <1>13, <3>1, ReleaseIs DEF LockVariant
    <3>2. CASE ~Release(c, v, "throw", "hanging")
      BY <1>13, <3>2 DEF LockVariant, TypeOK
    <3>3. QED
      BY <3>1, <3>2
  <2>3. red'[call[c].target] = c
    BY <1>1, <1>6, <2>1, <2>2 DEF StaysTrue, TypeOK
  <2>4. pc'[c] = "stock" /\ IsPay(c) => stock[v] + delta[c][v] >= CurrentItem(c).quantity
    BY <2>1, <2>2 DEF TypeOK
  <2> HIDE DEF v
  <2>5. pc'[c] = "stock" => item'[c] <= Len(Items[OrderOf(c)'])
    BY <1>4, <2>1, <2>2 DEF ItemsOf
  <2>6. QED
    BY <1>1, <1>3, <1>4, <2>1, <2>2, <2>3, <2>4, <2>5 DEF StaysTrue, v
<1>14. CASE ChangeStock(c)
  <2>1. item[c] <= Len(ItemsOf(c)) /\ pc[c] = "stock"
    BY <1>1, <1>14 DEF ChangeStock, StaysTrue, ItemsOf
  <2>2. PICK v \in Variants : v = CurrentItem(c).variant
    BY <1>1, <2>1, ItemTypes
  <2>3. PICK q \in Nat : q = CurrentItem(c).quantity
    BY <1>1, <2>1, ItemTypes
  <2>4. /\ excl' = [excl EXCEPT ![v] = c]
        /\ delta' = [delta EXCEPT ![c][v] = @ + (IF IsPay(c) THEN 0 - q ELSE q)]
        /\ Release(c, v, "item", "hanging")
        /\ UNCHANGED <<db, shared, call>>
    BY <1>14, <2>2, <2>3 DEF ChangeStock, Own, Pieces, TypeOK
  <2>a. pc'[c] \in {"item", "hanging"} /\ \A r \in Resource \ {v} : red'[r] = red[r]
    BY <1>s, <2>4, ReleaseIs
  <2>5. \A w \in Variants \ {v} : delta'[c][w] = delta[c][w]
    BY <2>4 DEF TypeOK
  <2>6. delta'[c][v] = delta[c][v] + (IF IsPay(c) THEN 0 - q ELSE q)
    BY <2>4 DEF TypeOK
  <2>7. /\ red'[call[c].target] = c
        /\ excl'[v] = c
        /\ \A w \in Row : excl[w] = c => excl'[w] = c
    BY <1>1, <1>6, <1>7, <2>1, <2>4, <2>a DEF StaysTrue, TypeOK
  <2>8. IsPay(c) => \A w \in Variants : stock[w] + delta'[c][w] >= 0
    <3>1. SUFFICES ASSUME IsPay(c), NEW w \in Variants
                   PROVE  stock[w] + delta'[c][w] >= 0
      OBVIOUS
    <3>2. /\ stock[w] \in Int /\ delta[c][w] \in Int /\ stock[w] + delta[c][w] >= 0
          /\ stock[v] + delta[c][v] >= q
      BY <1>1, <2>1, <2>2, <2>3, <3>1 DEF StaysTrue, TypeOK
    <3>3. QED
      BY <2>5, <2>6, <3>1, <3>2
  <2>9. ~IsPay(c) => \A w \in Variants : delta'[c][w] >= 0
    <3>1. SUFFICES ASSUME ~IsPay(c), NEW w \in Variants PROVE delta'[c][w] >= 0
      OBVIOUS
    <3>2. \A x \in Variants : delta[c][x] \in Int /\ delta[c][x] >= 0
      BY <1>1, <3>1 DEF StaysTrue, TypeOK
    <3>3. QED
      BY <2>5, <2>6, <3>1, <3>2
  <2>10. QED
    BY <1>1, <1>3, <1>4, <1>7, <2>1, <2>4, <2>a, <2>5, <2>7, <2>8, <2>9 DEF StaysTrue
<1>15. CASE LockBalance(c)
  <2>1. /\ pc[c] = "item" /\ pc'[c] = "money"
        /\ red'[call[c].target] = c
        /\ UNCHANGED <<db, rowLocks, call, item, delta>>
    BY <1>1, <1>15 DEF LockBalance, StaysTrue, TypeOK
  <2>2. QED
    BY <1>1, <1>3, <1>4, <2>1 DEF StaysTrue
<1>16. CASE ChangeBalance(c)
  <2>1. /\ pc[c] = "money"
        /\ \/ pc'[c] \in Leaving
           \/ pc'[c] = "mark" /\ ~(IsPay(c) /\ balance[call[c].user] < Price[OrderOf(c)])
        /\ excl' = [excl EXCEPT ![call[c].user] = c]
        /\ \A r \in Resource \ {call[c].user} : red'[r] = red[r]
        /\ UNCHANGED <<db, shared, call, item, delta>>
    <3>1. PICK s \in {"mark", "throw"} :
            /\ Release(c, call[c].user, s, "hanging")
            /\ s = IF IsPay(c) /\ balance[call[c].user] < Price[OrderOf(c)] THEN "throw" ELSE "mark"
      BY <1>16 DEF ChangeBalance
    <3>2. pc'[c] \in {s, "hanging"} /\ \A r \in Resource \ {call[c].user} : red'[r] = red[r]
      BY <1>s, <3>1, ReleaseIs
    <3>3. QED
      BY <1>16, <3>1, <3>2 DEF ChangeBalance, Own, Leaving
  <2>2. Price[OrderOf(c)] \in Int /\ balance[call[c].user] \in Int
    BY <1>1, <2>1, OrderTypes, CallTypes DEF TypeOK
  <2>3. /\ red'[call[c].target] = c
        /\ excl'[call[c].user] = c
        /\ \A w \in Row : excl[w] = c => excl'[w] = c
    BY <1>1, <1>6, <1>7, <2>1, CallTypes DEF StaysTrue, TypeOK
  <2>4. pc'[c] = "mark" /\ IsPay(c) => balance[call[c].user] >= Price[OrderOf(c)]
    BY <2>1, <2>2
  <2>5. QED
    BY <1>1, <1>3, <1>4, <1>7, <2>1, <2>3, <2>4 DEF StaysTrue
<1>17. CASE MarkOrder(c)
  <2>1. /\ pc[c] = "mark" /\ pc'[c] = "commit"
        /\ excl' = [excl EXCEPT ![OrderOf(c)] = c]
        /\ UNCHANGED <<db, red, shared, call, item, delta>>
    BY <1>17 DEF MarkOrder, Own, TypeOK
  <2>2. /\ excl'[OrderOf(c)] = c
        /\ \A w \in Row : excl[w] = c => excl'[w] = c
    BY <1>7, <2>1 DEF TypeOK
  <2>3. QED
    BY <1>1, <1>3, <1>4, <1>7, <2>1, <2>2 DEF StaysTrue
<1>18. CASE Commit(c)
  <2>1. /\ pc[c] = "commit" /\ pc'[c] \in {"committed", "aborted"} /\ delta'[c] = NoDelta
        /\ UNCHANGED <<red, call, item>>
    BY <1>18 DEF Commit, EndTx, TypeOK
  <2>2. \A v \in Variants : delta'[c][v] = 0 /\ stock'[v] \in Int /\ stock'[v] >= 0
    BY <1>1, <1>5, <1>18, <2>1, CommitStock DEF NoDelta, NeverOversold, TypeOK
  <2>3. QED
    BY <1>1, <2>1, <2>2 DEF StaysTrue
<1>19. CASE Finally(c)
  <2>1. /\ pc[c] = "cut" /\ pc'[c] \in {"aborted", "hung"}
        /\ \A r \in Resource \ {Inner(c)} : red'[r] = red[r]
        /\ UNCHANGED <<db, rowLocks, call, item, delta>>
    BY <1>s, <1>19, ReleaseIs DEF Finally
  <2>2. red'[call[c].target] = c
    BY <1>1, <1>6, <2>1, InnerTypes DEF StaysTrue, TypeOK
  <2>3. QED
    BY <1>1, <1>3, <2>1, <2>2 DEF StaysTrue
<1>20. CASE Unlock(c) \/ TargetBusy(c)
  <2>1. /\ pc'[c] \in {"done", "failed", "hung"}
        /\ UNCHANGED <<db, rowLocks, call, item, delta>>
    <3>1. CASE Unlock(c)
      <4>1. PICK s \in {"done", "failed"} : Release(c, call[c].target, s, "hung")
        BY <3>1 DEF Unlock
      <4>2. pc'[c] \in {s, "hung"}
        <5>1. s \in Step /\ "hung" \in Step
          BY <1>s
        <5>2. QED
          BY <4>1, <5>1, ReleaseIs
      <4>3. QED
        BY <3>1, <4>1, <4>2 DEF Unlock
    <3>2. CASE TargetBusy(c)
      BY <3>2 DEF TargetBusy, TypeOK
    <3>3. QED
      BY <1>20, <3>1, <3>2
  <2>2. QED
    BY <1>1, <1>3, <2>1 DEF StaysTrue
<1>21. CASE Hang(c)
  <2>1. /\ \/ pc[c] = "new" /\ pc'[c] = "hung"
           \/ pc[c] = "item" /\ pc'[c] = "hanging"
        /\ \A r \in Resource : red[r] # NoOne => red'[r] = red[r]
        /\ UNCHANGED <<db, rowLocks, call, item, delta>>
    BY <1>21, HangIs DEF TypeOK
  <2>2. pc[c] = "item" => red'[call[c].target] = c
    BY <1>1, <1>6, <2>1 DEF StaysTrue
  <2>3. QED
    BY <1>1, <1>3, <2>1, <2>2 DEF StaysTrue
<1>22. CASE Ends(c)
  BY <1>8, <1>22, EndsInRollBack
<1>23. QED
  BY <1>9, <1>10, <1>11, <1>12, <1>13, <1>14, <1>15, <1>16, <1>17, <1>18, <1>19, <1>20,
     <1>21, <1>22 DEF Acts, Work, Ends

-----------------------------------------------------------------------------
(***************************************************************************)
(* The inductive invariant.  NeverOversold is part of it: a call that is   *)
(* rolled back relies on the committed stock alone.                        *)
(***************************************************************************)
IInv == TypeOK /\ ChecksStayTrue /\ NeverOversold

LEMMA IInvInit == Init => IInv
<1> SUFFICES ASSUME Init PROVE IInv
  OBVIOUS
<1>1. TypeOK
  BY StartAssumption, NoOneAssumption, BoundsAssumption DEF Init, TypeOK, OrderStatus, Step, NoDelta
<1>2. NeverOversold
  BY StartAssumption DEF Init, NeverOversold
<1>3. LockTable
  BY DEF Init, LockTable
<1>4. ASSUME NEW c \in Calls PROVE StaysTrue(c)
  <2>1. pc[c] = "new" /\ delta[c] = NoDelta
    BY DEF Init
  <2>2. \A v \in Variants : delta[c][v] = 0 /\ stock[v] + delta[c][v] >= 0
    BY <2>1, StartAssumption DEF Init, NoDelta
  <2>3. QED
    BY <2>1, <2>2 DEF StaysTrue, InTx, Reading, Writing, Leaving, After
<1>5. QED
  BY <1>1, <1>2, <1>3, <1>4 DEF IInv, ChecksStayTrue

LEMMA IInvNext == IInv /\ [Next]_vars => IInv'
<1> SUFFICES ASSUME IInv, [Next]_vars PROVE IInv'
  OBVIOUS
<1>0. TypeOK /\ ChecksStayTrue /\ NeverOversold /\ \A c \in Calls : StaysTrue(c)
  BY DEF IInv, ChecksStayTrue
<1>1. TypeOK' /\ LockTable'
  BY <1>0, TypeStep, LockStep
<1>2. ASSUME NEW c \in Calls, NEW d \in Calls, Acts(d)
      PROVE  StaysTrue(c)'
  <2>1. CASE c = d
    BY <1>0, <1>2, <2>1, OwnStep
  <2>2. CASE c # d /\ Commit(d)
    BY <1>0, <2>2, OthersSurviveCommit
  <2>3. CASE c # d /\ ~Commit(d)
    <3>1. UNCHANGED db
      BY <1>2, <2>3, OnlyCommitWrites
    <3>2. QED
      BY <1>0, <1>2, <2>3, <3>1, OthersKept, Kept
  <2>4. QED
    BY <2>1, <2>2, <2>3
<1>3. ASSUME NEW c \in Calls, NEW k \in Resource, Expire(k) PROVE StaysTrue(c)'
  <2>1. Keeps(c) /\ UNCHANGED db
    BY <1>0, <1>3 DEF Expire, Keeps, TypeOK, db, rowLocks, Live, InTx, Reading,
       Writing, Leaving, After, Over
  <2>2. QED
    BY <1>0, <2>1, Kept
<1>4. ASSUME NEW c \in Calls, UNCHANGED vars PROVE StaysTrue(c)'
  <2>1. Keeps(c) /\ UNCHANGED db
    BY <1>4 DEF Keeps, db, vars
  <2>2. QED
    BY <1>0, <2>1, Kept
<1>5. \A c \in Calls : StaysTrue(c)'
  BY <1>0, <1>2, <1>3, <1>4, AllSurviveSetStatus DEF Next, Acts, Idle
<1>6. NeverOversold'
  <2>1. CASE \E d \in Calls : Commit(d)
    BY <1>0, <2>1, CommitStock
  <2>2. CASE ~\E d \in Calls : Commit(d)
    <3>1. stock' = stock
      BY <2>2, OnlyCommitWrites DEF Next, Acts, vars, Idle, Expire, SetStatus, db
    <3>2. QED
      BY <1>0, <3>1 DEF NeverOversold
  <2>3. QED
    BY <2>1, <2>2
<1>7. QED
  BY <1>1, <1>5, <1>6 DEF IInv, ChecksStayTrue

LEMMA IInvAlways == Spec => []IInv
BY IInvInit, IInvNext, PTL DEF Spec

\* The variables of processPayment and cancelPayment keep their types.
THEOREM PaymentType == Spec => []TypeOK
<1>1. IInv => TypeOK
  BY DEF IInv
<1>2. QED
  BY <1>1, IInvAlways, PTL

\* Whatever a transaction checked (the order's status, the stock, the balance,
\* the payment's status) is still true when it acts on it and commits, although
\* the Redis locks on products and balances are released before (lines 52, 66).
THEOREM PaymentChecks == Spec => []ChecksStayTrue
<1>1. IInv => ChecksStayTrue
  BY DEF IInv
<1>2. QED
  BY <1>1, IInvAlways, PTL

\* No variant is ever oversold, for any number of concurrent payments.
THEOREM PaymentNeverOversold == Spec => []NeverOversold
<1>1. IInv => NeverOversold
  BY DEF IInv
<1>2. QED
  BY <1>1, IInvAlways, PTL

-----------------------------------------------------------------------------
\* A commit overdraws a balance only when it takes back a negative payment.
LEMMA CommitBalance ==
    ASSUME TypeOK, OverdrawnByRefundOnly, NEW c \in Calls, StaysTrue(c), Commit(c)
    PROVE  OverdrawnByRefundOnly'
<1>1. /\ call[c].user \in Users
      /\ balance' = [balance EXCEPT ![call[c].user] = balance[call[c].user] + Money(c)]
      /\ pc[c] = "commit" /\ pc[c] \in Writing
  BY CallTypes DEF Commit, Writing
<1> DEFINE Excuse(u) == \E p \in DOMAIN payments : /\ payments[p].status # "COMPLETED"
                                                 /\ payments[p].user = u
                                                 /\ payments[p].amount < 0
<1>2. ASSUME NEW u \in Users, balance[u] < 0 PROVE Excuse(u)
  BY <1>2 DEF OverdrawnByRefundOnly, Completed
<1>3. CASE IsPay(c)
  <2>1. payments' = Append(payments, NewPayment(c)) /\ payments \in Seq(PaymentRow)
    BY <1>3 DEF Commit, TypeOK
  <2>2. \A p \in DOMAIN payments : p \in DOMAIN payments' /\ payments'[p] = payments[p]
    BY <2>1
  <2>3. \A u \in Users : Excuse(u) => Excuse(u)'
    BY <2>2
  <2>4. balance[call[c].user] + Money(c) >= 0
    <3>1. balance[call[c].user] >= Price[OrderOf(c)] /\ Price[OrderOf(c)] \in Int
      BY <1>1, <1>3, OrderTypes DEF StaysTrue
    <3>2. balance[call[c].user] \in Int /\ Money(c) = 0 - Price[OrderOf(c)]
      BY <1>1, <1>3 DEF TypeOK, Money
    <3>3. QED
      BY <3>1, <3>2
  <2>5. ASSUME NEW u \in Users, balance'[u] < 0 PROVE balance[u] < 0
    <3>1. balance \in [Users -> Int] /\ Money(c) \in Int
      BY <1>1, <1>3, OrderTypes DEF TypeOK, Money
    <3>2. QED
      BY <1>1, <2>4, <2>5, <3>1
  <2> HIDE DEF Excuse
  <2>6. \A u \in Users : balance'[u] < 0 => Excuse(u)'
    BY <1>2, <2>3, <2>5
  <2>7. QED
    BY <2>6 DEF OverdrawnByRefundOnly, Completed, Excuse
<1>4. CASE ~IsPay(c)
  <2> DEFINE q == call[c].target
  <2>1. /\ q \in DOMAIN payments /\ payments[q] \in PaymentRow
        /\ payments[q].user = call[c].user
        /\ payments' = [payments EXCEPT ![q].status = "CANCELLED"]
        /\ payments \in Seq(PaymentRow)
    BY <1>1, <1>4, OrderTypes DEF StaysTrue, Commit, CancelPayment, TypeOK
  <2>2. /\ DOMAIN payments' = DOMAIN payments
        /\ payments'[q].status = "CANCELLED" /\ payments'[q].user = payments[q].user
        /\ payments'[q].amount = payments[q].amount
        /\ \A p \in DOMAIN payments : p # q => payments'[p] = payments[p]
    BY <2>1 DEF PaymentRow
  <2>3. payments[q].amount \in Int /\ Money(c) = payments[q].amount
    BY <1>4, <2>1 DEF PaymentRow, Money
  <2> HIDE DEF q
  <2>4. \A u \in Users : Excuse(u) => Excuse(u)'
    BY <2>2
  <2>a. call' = call
    BY DEF Commit
  <2>5. payments[q].amount < 0 => Excuse(call[c].user)'
    BY <1>1, <2>1, <2>2, <2>a
  <2>6. ASSUME NEW u \in Users, balance'[u] < 0
        PROVE  balance[u] < 0 \/ (u = call[c].user /\ payments[q].amount < 0)
    BY <1>1, <2>3, <2>6 DEF TypeOK
  <2>7. \A u \in Users : balance'[u] < 0 => Excuse(u)'
    <3> SUFFICES ASSUME NEW u \in Users, balance'[u] < 0 PROVE Excuse(u)'
      OBVIOUS
    <3>1. CASE balance[u] < 0
      BY <1>2, <2>4, <3>1
    <3>2. CASE u = call[c].user /\ payments[q].amount < 0
      BY <2>5, <2>a, <3>2
    <3>3. QED
      BY <2>6, <3>1, <3>2
  <2>8. QED
    BY <2>7 DEF OverdrawnByRefundOnly, Completed
<1>5. QED
  BY <1>3, <1>4

\* For any number of payments and cancellations, prices below zero included, a
\* balance is overdrawn only by taking back a payment of a negative amount.
THEOREM PaymentOverdrawnByRefundOnly == Spec => []OverdrawnByRefundOnly
<1>1. Init => OverdrawnByRefundOnly
  BY StartAssumption DEF Init, OverdrawnByRefundOnly
<1>2. IInv /\ OverdrawnByRefundOnly /\ [Next]_vars => OverdrawnByRefundOnly'
  <2> SUFFICES ASSUME IInv, OverdrawnByRefundOnly, [Next]_vars PROVE OverdrawnByRefundOnly'
    OBVIOUS
  <2>1. CASE \E c \in Calls : Commit(c)
    BY <2>1, CommitBalance DEF IInv, ChecksStayTrue
  <2>2. CASE ~\E c \in Calls : Commit(c)
    <3>1. UNCHANGED <<balance, payments>>
      BY <2>2, OnlyCommitWrites DEF Next, Acts, vars, Idle, Expire, SetStatus, db
    <3>2. QED
      BY <3>1 DEF OverdrawnByRefundOnly, Completed
  <2>3. QED
    BY <2>1, <2>2
<1>3. QED
  BY <1>1, <1>2, IInvAlways, PTL DEF Spec

\* An order whose status lets it be paid has no payment yet.
NoneIfPayable ==
    \A p \in DOMAIN payments : orderStatus[payments[p].order] \in {"PAID", "CANCELLED"}

\* A commit pays for an order that had no payment, and marks it.
LEMMA CommitOnce ==
    ASSUME TypeOK, PaidOnce, NoneIfPayable, NEW c \in Calls, StaysTrue(c), Commit(c)
    PROVE  PaidOnce' /\ NoneIfPayable'
<1>1. /\ OrderOf(c) \in Orders
      /\ orderStatus' = [orderStatus EXCEPT ![OrderOf(c)] = NewStatus(c)]
      /\ payments \in Seq(PaymentRow) /\ orderStatus \in [Orders -> OrderStatus]
  BY OrderTypes DEF Commit, Writing, TypeOK
<1>2. orderStatus'[OrderOf(c)] \in {"PAID", "CANCELLED"}
  BY <1>1 DEF NewStatus
<1>3. \A p \in DOMAIN payments : /\ payments[p].order \in Orders
                                  /\ payments'[p].order = payments[p].order
  <2>1. ASSUME NEW p \in DOMAIN payments PROVE payments[p].order \in Orders
    <3>1. payments[p] \in PaymentRow
      BY <1>1, ElementOfSeq
    <3>2. QED
      BY <3>1 DEF PaymentRow
  <2>2. QED
    BY <2>1, CommitPayments
<1>4. \A p \in DOMAIN payments :
        orderStatus'[payments'[p].order] \in {"PAID", "CANCELLED"}
  BY <1>1, <1>2, <1>3 DEF NoneIfPayable
<1>5. CASE IsPay(c)
  <2>1. /\ payments' = Append(payments, NewPayment(c))
        /\ NewPayment(c).order = OrderOf(c)
    BY <1>5 DEF Commit, NewPayment
  <2>2. \A p \in DOMAIN payments : payments[p].order # OrderOf(c)
    BY <1>5 DEF StaysTrue, Commit, Writing, NoneIfPayable
  <2>3. /\ DOMAIN payments' = DOMAIN payments \union {Len(payments) + 1}
        /\ payments'[Len(payments) + 1].order = OrderOf(c)
    BY <1>1, <2>1
  <2>4. QED
    BY <1>2, <1>3, <1>4, <2>2, <2>3 DEF PaidOnce, NoneIfPayable
<1>6. CASE ~IsPay(c)
  <2>1. DOMAIN payments' = DOMAIN payments
    BY <1>6, <1>1 DEF Commit, CancelPayment
  <2>2. QED
    BY <1>3, <1>4, <2>1 DEF PaidOnce, NoneIfPayable
<1>7. QED
  BY <1>5, <1>6

\* PATCH opens an order again that was paid or cancelled.
Reopens == \E o \in Orders, s \in PatchStatuses :
    /\ SetStatus(o, s)
    /\ orderStatus[o] \in {"PAID", "CANCELLED"} /\ s \notin {"PAID", "CANCELLED"}

\* Unless PATCH opens a closed order again, no order is paid for twice, however
\* often payments and cancellations of it are sent at once, and whatever else PATCH
\* is used for meanwhile.
THEOREM PaymentPaidOnce == Spec /\ [][~Reopens]_vars => []PaidOnce
<1>1. Init => PaidOnce /\ NoneIfPayable
  BY DEF Init, PaidOnce, NoneIfPayable
<1>2. IInv /\ PaidOnce /\ NoneIfPayable /\ [Next]_vars /\ [~Reopens]_vars
        => PaidOnce' /\ NoneIfPayable'
  <2> SUFFICES ASSUME IInv, PaidOnce, NoneIfPayable, [Next]_vars, [~Reopens]_vars
               PROVE  PaidOnce' /\ NoneIfPayable'
    OBVIOUS
  <2>1. CASE \E c \in Calls : Commit(c)
    BY <2>1, CommitOnce DEF IInv, ChecksStayTrue
  <2>2. ASSUME NEW o \in Orders, NEW s \in PatchStatuses, SetStatus(o, s)
        PROVE  PaidOnce' /\ NoneIfPayable'
    <3>1. /\ orderStatus' = [orderStatus EXCEPT ![o] = s] /\ payments' = payments
          /\ orderStatus[o] # s
          /\ orderStatus \in [Orders -> OrderStatus]
      BY <2>2 DEF SetStatus, IInv, TypeOK
    <3>2. orderStatus'[o] = s /\ vars' # vars
      BY <3>1 DEF vars
    <3>3. orderStatus[o] \in {"PAID", "CANCELLED"} => s \in {"PAID", "CANCELLED"}
      BY <2>2, <3>2 DEF Reopens
    <3>4. QED
      BY <3>1, <3>3 DEF PaidOnce, NoneIfPayable
  <2>3. CASE /\ ~\E c \in Calls : Commit(c)
             /\ ~\E o \in Orders, s \in PatchStatuses : SetStatus(o, s)
    <3>1. payments' = payments /\ orderStatus' = orderStatus
      BY <2>3, OnlyCommitWrites DEF Next, Acts, vars, Idle, Expire, db
    <3>2. QED
      BY <3>1 DEF PaidOnce, NoneIfPayable
  <2>4. QED
    BY <2>1, <2>2, <2>3
<1>3. QED
  BY <1>1, <1>2, IInvAlways, PTL DEF Spec

-----------------------------------------------------------------------------
(***************************************************************************)
(* Payment implements Checkout: what a transaction has changed so far is   *)
(* what the items before its current one need.                             *)
(***************************************************************************)
DeltaIs(c, n) == \A v \in Variants :
    delta[c][v] = IF IsPay(c) THEN 0 - OrderedUpTo(OrderOf(c), n, v) ELSE OrderedUpTo(OrderOf(c), n, v)

Advanced(c) ==
    /\ pc[c] \in {"new", "begin", "items"} => item[c] = 1 /\ delta[c] = NoDelta
    /\ pc[c] \in Writing => item[c] <= Len(ItemsOf(c)) + 1 /\ DeltaIs(c, item[c] - 1)
    /\ pc[c] \in {"money", "mark", "commit"} => item[c] = Len(ItemsOf(c)) + 1
    /\ IsPay(c) /\ pc[c] \in {"items"} \union Writing =>
         OrderOf(c) \in Placed /\ Owner[OrderOf(c)] = call[c].user

\* The pieces needed grow from item to item.
LEMMA NeedGrows ==
    ASSUME NEW o \in Orders
    PROVE  /\ Len(Items[o]) \in Nat
           /\ \A n \in 0 .. Len(Items[o]), v \in Variants : OrderedUpTo(o, n, v) \in Nat
           /\ \A v \in Variants : OrderedUpTo(o, 0, v) = 0
           /\ \A n \in 1 .. Len(Items[o]), v \in Variants :
                OrderedUpTo(o, n, v) = OrderedUpTo(o, n - 1, v)
                  + IF v = Items[o][n].variant THEN Items[o][n].quantity ELSE 0
<1>1. /\ Len(Items[o]) \in Nat
      /\ \A i \in 1 .. Len(Items[o]) : Items[o][i].quantity \in Nat
  <2>1. Items[o] \in Seq([variant : Variants, quantity : Nat \ {0}])
    BY OrdersAssumption
  <2>2. \A i \in 1 .. Len(Items[o]) : Items[o][i] \in [variant : Variants, quantity : Nat \ {0}]
    BY <2>1, ElementOfSeq
  <2> QED BY <2>1, <2>2
<1> DEFINE At(n, v) == {j \in 1 .. n : Items[o][j].variant = v}
           F(n, v) == [i \in At(n, v) |-> Items[o][i].quantity]
<1>2. \A n, v : OrderedUpTo(o, n, v) = SumFunction(F(n, v)) /\ DOMAIN F(n, v) = At(n, v)
  BY DEF OrderedUpTo
<1>3. ASSUME NEW n \in 0 .. Len(Items[o]), NEW v \in Variants
      PROVE  IsFiniteSet(At(n, v)) /\ \A i \in At(n, v) : F(n, v)[i] \in Nat
  <2>1. IsFiniteSet(1 .. n)
    BY FS_Interval
  <2>2. IsFiniteSet(At(n, v))
    BY <2>1, FS_Subset
  <2> QED BY <1>1, <2>2
<1>4. ASSUME NEW n \in 0 .. Len(Items[o]), NEW v \in Variants
      PROVE  OrderedUpTo(o, n, v) \in Nat
  <2>1. PICK f : f = F(n, v)
    OBVIOUS
  <2>2. IsFiniteSet(DOMAIN f) /\ \A i \in DOMAIN f : f[i] \in Nat
    BY <1>2, <1>3, <2>1
  <2>3. SumFunction(f) \in Nat
    BY <2>2, TotalType
  <2> QED BY <1>2, <2>1, <2>3
<1>5. ASSUME NEW v \in Variants PROVE OrderedUpTo(o, 0, v) = 0
  <2>1. PICK f : f = F(0, v)
    OBVIOUS
  <2>2. DOMAIN f = {}
    BY <2>1
  <2>3. SumFunction(f) = 0
    BY <2>2, SumEmpty DEF SumFunction
  <2> HIDE DEF F
  <2> QED BY <1>2, <2>1, <2>3
<1>6. ASSUME NEW n \in 1 .. Len(Items[o]), NEW v \in Variants
      PROVE  OrderedUpTo(o, n, v) = OrderedUpTo(o, n - 1, v)
               + IF v = Items[o][n].variant THEN Items[o][n].quantity ELSE 0
  <2>1. n - 1 \in 0 .. Len(Items[o]) /\ n \notin 1 .. n - 1 /\ 1 .. n = (1 .. n - 1) \union {n}
    BY <1>1
  <2>2. CASE v = Items[o][n].variant
    <3>1. PICK f, g : f = F(n - 1, v) /\ g = F(n, v)
      OBVIOUS
    <3>2. IsFiniteSet(DOMAIN f) /\ \A i \in DOMAIN f : f[i] \in Nat
      BY <1>2, <1>3, <2>1, <3>1
    <3>3. DOMAIN f = At(n - 1, v) /\ DOMAIN g = At(n, v)
      BY <1>2, <3>1
    <3>4. n \notin At(n - 1, v) /\ At(n, v) = At(n - 1, v) \union {n}
      BY <2>1, <2>2
    <3>5. /\ n \notin DOMAIN f /\ DOMAIN g = DOMAIN f \union {n}
          /\ \A i \in DOMAIN f : f[i] \in Int /\ g[i] = f[i]
          /\ g[n] = Items[o][n].quantity /\ g[n] \in Int
      BY <1>1, <3>1, <3>2, <3>3, <3>4
    <3>6. SumFunction(g) = SumFunction(f) + g[n]
      BY <3>2, <3>5, TotalAdd
    <3> HIDE DEF F
    <3> QED BY <1>2, <2>2, <3>1, <3>5, <3>6
  <2>3. CASE v # Items[o][n].variant
    <3>1. At(n, v) = At(n - 1, v)
      BY <2>1, <2>3
    <3>2. F(n, v) = F(n - 1, v)
      BY <3>1
    <3>3. OrderedUpTo(o, n, v) = OrderedUpTo(o, n - 1, v)
      <4> HIDE DEF F
      <4> QED BY <1>2, <3>2
    <3>4. OrderedUpTo(o, n - 1, v) \in Nat
      BY <1>4, <2>1
    <3> QED BY <2>3, <3>3, <3>4
  <2> QED BY <2>2, <2>3
<1> HIDE DEF At, F
<1> QED BY <1>1, <1>4, <1>5, <1>6

\* Who keeps its own state and its order keeps its place in it.
LEMMA AdvancedKept ==
    ASSUME NEW c \in Calls, Advanced(c),
           pc'[c] = pc[c], call'[c] = call[c], item'[c] = item[c], delta'[c] = delta[c],
           pc[c] \in {"items"} \union Writing => OrderOf(c)' = OrderOf(c)
    PROVE  Advanced(c)'
<1>1. IsPay(c)' = IsPay(c)
  BY DEF IsPay
<1>2. QED
  BY <1>1 DEF Advanced, DeltaIs, ItemsOf, NoDelta, Writing

\* A step of somebody else, and the end of a call.
LEMMA AdvancedOthers ==
    ASSUME TypeOK, ChecksStayTrue, NEW c \in Calls, NEW d \in Calls \ {c}, Advanced(c),
           Acts(d)
    PROVE  Advanced(c)'
<1>1. StaysTrue(c) /\ StaysTrue(d)
  BY DEF ChecksStayTrue
<1>2. Keeps(c)
  BY <1>1, OthersKept
<1>3. IsPay(c)' = IsPay(c)
  BY <1>2 DEF Keeps, IsPay
<1>4. pc[c] \in {"items"} \union Writing => OrderOf(c)' = OrderOf(c)
  <2>1. CASE Commit(d)
    <3>1. pc[c] \in {"items"} \union Writing /\ ~IsPay(c) => call[c].target \in DOMAIN payments
      BY <1>1 DEF StaysTrue
    <3>2. \A p \in DOMAIN payments : payments'[p].order = payments[p].order
      BY <1>1, <2>1, CommitPayments
    <3>3. QED
      BY <1>2, <1>3, <3>1, <3>2 DEF Keeps, OrderOf
  <2>2. CASE ~Commit(d)
    <3>1. payments' = payments
      BY <2>2, OnlyCommitWrites DEF db
    <3>2. QED
      BY <1>2, <1>3, <3>1 DEF Keeps, OrderOf
  <2>3. QED
    BY <2>1, <2>2
<1>5. QED
  BY <1>2, <1>4, AdvancedKept DEF Keeps

LEMMA AdvancedOwn ==
    ASSUME TypeOK, ChecksStayTrue, NEW c \in Calls, Advanced(c), Acts(c)
    PROVE  Advanced(c)'
<1> USE DEF Goto, db, rowLocks, InTx, Reading, Writing, Leaving, After, Over, Ending
<1>1. StaysTrue(c)
  BY DEF ChecksStayTrue
<1>s. {"item", "mark", "throw", "hanging", "hung", "aborted", "done", "failed"} \subseteq Step
  BY DEF Step
<1>2. ASSUME NEW s \in After \union Over \union Leaving, pc'[c] = s
      PROVE  Advanced(c)'
  BY <1>2 DEF Advanced
<1>3. ASSUME NEW s \in Ending, RollBack(c, s) PROVE Advanced(c)'
  <2>1. pc'[c] = s
    BY <1>3 DEF RollBack, TypeOK
  <2>2. QED
    BY <1>2, <2>1
<1>4. ASSUME UNCHANGED <<payments, call>>
      PROVE  IsPay(c)' = IsPay(c) /\ OrderOf(c)' = OrderOf(c) /\ ItemsOf(c)' = ItemsOf(c)
  BY <1>4 DEF IsPay, OrderOf, ItemsOf
<1>5. CASE LockTarget(c)
  <2>1. pc'[c] = "begin" /\ UNCHANGED <<payments, call, item, delta>> /\ pc[c] = "new"
    BY <1>5 DEF LockTarget, TypeOK
  <2>2. QED
    BY <1>4, <2>1 DEF Advanced
<1>6. CASE ReadOrder(c)
  <2>1. CASE RollBack(c, "aborted")
    BY <1>3, <2>1
  <2>2. CASE ~RollBack(c, "aborted")
    <3>1. /\ pc'[c] = "items" /\ pc[c] = "begin" /\ IsPay(c)
          /\ Payable(c, call[c].target)
          /\ UNCHANGED <<payments, call, item, delta>>
      BY <1>6, <2>2 DEF ReadOrder, TypeOK
    <3>2. QED
      BY <1>4, <3>1, CallTypes DEF Advanced, Payable
  <2>3. QED
    BY <2>1, <2>2
<1>7. CASE ReadPayment(c)
  <2>1. CASE RollBack(c, "aborted")
    BY <1>3, <2>1
  <2>2. CASE ~RollBack(c, "aborted")
    <3>1. /\ pc'[c] = "items" /\ pc[c] = "begin" /\ ~IsPay(c)
          /\ UNCHANGED <<payments, call, item, delta>>
      BY <1>7, <2>2 DEF ReadPayment, TypeOK
    <3>2. QED
      BY <1>4, <3>1 DEF Advanced
  <2>3. QED
    BY <2>1, <2>2
<1>8. CASE ReadItems(c)
  <2>1. pc'[c] = "item" /\ pc[c] = "items" /\ UNCHANGED <<payments, call, item, delta>>
    BY <1>8 DEF ReadItems, TypeOK
  <2>2. OrderOf(c) \in Orders
    BY <1>1, <2>1, OrderTypes
  <2>3. item[c] = 1 /\ \A v \in Variants : delta[c][v] = 0
    BY <2>1 DEF Advanced, NoDelta
  <2>4. DeltaIs(c, 0)
    BY <2>2, <2>3, NeedGrows DEF DeltaIs
  <2>5. item[c] <= Len(ItemsOf(c)) + 1 /\ item[c] - 1 = 0
    BY <2>2, <2>3, NeedGrows DEF ItemsOf
  <2>6. DeltaIs(c, item[c] - 1)'
    BY <1>4, <2>1, <2>4, <2>5 DEF DeltaIs
  <2>7. QED
    BY <1>4, <2>1, <2>5, <2>6 DEF Advanced
<1>9. CASE LockVariant(c) \/ LockBalance(c) \/ ChangeBalance(c) \/ MarkOrder(c)
  <2>1. CASE pc'[c] \in Leaving
    BY <1>2, <2>1
  <2>2. CASE pc'[c] \notin Leaving
    <3>1. /\ UNCHANGED <<payments, call, item, delta>>
          /\ \/ pc[c] = "item" /\ pc'[c] = "stock"
             \/ pc[c] = "item" /\ pc'[c] = "money" /\ item[c] > Len(ItemsOf(c))
             \/ pc[c] = "money" /\ pc'[c] = "mark"
             \/ pc[c] = "mark" /\ pc'[c] = "commit"
      <4>1. CASE LockVariant(c)
        <5>1. CASE Release(c, CurrentItem(c).variant, "throw", "hanging")
          BY <1>s, <2>2, <5>1, ReleaseIs
        <5>2. CASE ~Release(c, CurrentItem(c).variant, "throw", "hanging")
          BY <4>1, <5>2 DEF LockVariant, TypeOK
        <5>3. QED
          BY <5>1, <5>2
      <4>2. CASE ChangeBalance(c)
        <5>1. PICK s \in {"mark", "throw"} : Release(c, call[c].user, s, "hanging")
          BY <4>2 DEF ChangeBalance
        <5>2. pc'[c] \in {s, "hanging"}
          <6>1. s \in Step /\ "hanging" \in Step
            BY <1>s
          <6>2. QED
            BY <5>1, <6>1, ReleaseIs
        <5>3. QED
          BY <2>2, <4>2, <5>2 DEF ChangeBalance
      <4>3. CASE LockBalance(c) \/ MarkOrder(c)
        BY <4>3 DEF LockBalance, MarkOrder, TypeOK
      <4>4. QED
        BY <1>9, <4>1, <4>2, <4>3
    <3>2. OrderOf(c) \in Orders
      BY <1>1, <3>1, OrderTypes
    <3>3. Len(ItemsOf(c)) \in Nat /\ item[c] \in Nat
      BY <3>2, NeedGrows DEF ItemsOf, TypeOK
    <3>4. DeltaIs(c, item[c] - 1)' /\ item'[c] <= Len(ItemsOf(c)') + 1
      BY <1>4, <3>1 DEF Advanced, DeltaIs
    <3>5. pc'[c] \in {"money", "mark", "commit"} => item'[c] = Len(ItemsOf(c)') + 1
      BY <1>4, <3>1, <3>3 DEF Advanced
    <3>6. QED
      BY <1>4, <3>1, <3>4, <3>5 DEF Advanced
  <2>3. QED
    BY <2>1, <2>2
<1>10. CASE ChangeStock(c)
  <2>1. item[c] <= Len(ItemsOf(c)) /\ pc[c] = "stock"
    BY <1>1, <1>10 DEF ChangeStock, StaysTrue, ItemsOf
  <2>2. PICK o \in Orders : o = OrderOf(c)
    BY <1>1, <2>1, OrderTypes
  <2>3. PICK n \in 1 .. Len(Items[o]) : n = item[c]
    BY <2>1, <2>2, NeedGrows DEF ItemsOf, TypeOK
  <2>4. /\ Items[o][n].variant \in Variants /\ Items[o][n].quantity \in Nat
        /\ CurrentItem(c) = Items[o][n]
    BY <1>1, <2>1, <2>2, <2>3, ItemTypes DEF CurrentItem, ItemsOf
  <2>5. /\ delta' = [delta EXCEPT ![c][Items[o][n].variant] = @ + Pieces(c)]
        /\ item'[c] = n + 1 /\ pc'[c] \in {"item", "hanging"}
        /\ UNCHANGED <<payments, call>>
    <3>1. Release(c, CurrentItem(c).variant, "item", "hanging")
      BY <1>10 DEF ChangeStock
    <3>2. pc'[c] \in {"item", "hanging"}
      BY <1>s, <3>1, ReleaseIs
    <3>3. QED
      BY <1>10, <2>3, <2>4, <3>2 DEF ChangeStock, TypeOK
  <2>6. Pieces(c) = IF IsPay(c) THEN 0 - Items[o][n].quantity ELSE Items[o][n].quantity
    BY <2>4 DEF Pieces
  <2>7. ASSUME NEW v \in Variants
        PROVE  delta'[c][v] = IF IsPay(c) THEN 0 - OrderedUpTo(o, n, v) ELSE OrderedUpTo(o, n, v)
    <3>1. delta[c][v] = IF IsPay(c) THEN 0 - OrderedUpTo(o, n - 1, v) ELSE OrderedUpTo(o, n - 1, v)
      BY <2>1, <2>2, <2>3 DEF Advanced, DeltaIs
    <3>2. OrderedUpTo(o, n, v) = OrderedUpTo(o, n - 1, v)
            + IF v = Items[o][n].variant THEN Items[o][n].quantity ELSE 0
      BY NeedGrows
    <3>3. OrderedUpTo(o, n - 1, v) \in Nat
      <4>1. n - 1 \in 0 .. Len(Items[o])
        BY NeedGrows
      <4>2. QED
        BY <4>1, NeedGrows
    <3>4. delta'[c][v] = IF v = Items[o][n].variant THEN delta[c][v] + Pieces(c) ELSE delta[c][v]
      BY <2>4, <2>5 DEF TypeOK
    <3>5. QED
      BY <2>4, <2>6, <3>1, <3>2, <3>3, <3>4
  <2>8. DeltaIs(c, item[c] - 1)'
    <3>1. (item[c] - 1)' = n /\ OrderOf(c)' = o /\ IsPay(c)' = IsPay(c)
      BY <1>4, <2>2, <2>5
    <3>2. QED
      BY <2>7, <3>1 DEF DeltaIs
  <2>9. (item[c] <= Len(ItemsOf(c)) + 1)'
    BY <1>4, <2>2, <2>3, <2>5, NeedGrows DEF ItemsOf
  <2>10. QED
    BY <1>4, <2>1, <2>5, <2>8, <2>9 DEF Advanced
<1>11. CASE Commit(c) \/ Finally(c) \/ Unlock(c) \/ TargetBusy(c) \/ Hang(c)
  <2>1. pc'[c] \in After \union Over \union Leaving
    <3>1. CASE Finally(c)
      <4>1. Release(c, Inner(c), "aborted", "hung")
        BY <3>1 DEF Finally
      <4>2. "aborted" \in Step /\ "hung" \in Step
        BY <1>s
      <4>3. pc'[c] \in {"aborted", "hung"}
        BY <4>1, <4>2, ReleaseIs
      <4>4. QED
        BY <4>3
    <3>2. CASE Unlock(c)
      <4>1. PICK s \in {"done", "failed"} : Release(c, call[c].target, s, "hung")
        BY <3>2 DEF Unlock
      <4>2. s \in Step /\ "hung" \in Step
        BY <1>s
      <4>3. pc'[c] \in {s, "hung"}
        BY <4>1, <4>2, ReleaseIs
      <4>4. QED
        BY <4>1, <4>3
    <3>3. CASE Commit(c) \/ TargetBusy(c) \/ Hang(c)
      BY <3>3, HangIs DEF Commit, TargetBusy, TypeOK
    <3>4. QED
      BY <1>11, <3>1, <3>2, <3>3
  <2>2. QED
    BY <1>2, <2>1
<1>12. CASE Ends(c)
  BY <1>3, <1>12, EndsInRollBack
<1>13. QED
  BY <1>5, <1>6, <1>7, <1>8, <1>9, <1>10, <1>11, <1>12 DEF Acts, Work, Ends

RInv == IInv /\ \A c \in Calls : Advanced(c)

LEMMA RInvAlways == Spec => []RInv
<1>1. Init => RInv
  <2> SUFFICES ASSUME Init PROVE RInv
    OBVIOUS
  <2>1. ASSUME NEW c \in Calls PROVE Advanced(c)
    BY DEF Init, Advanced, Writing
  <2>2. QED
    BY <2>1, IInvInit DEF RInv
<1>2. RInv /\ [Next]_vars => RInv'
  <2> SUFFICES ASSUME RInv, [Next]_vars PROVE RInv'
    OBVIOUS
  <2>1. IInv' /\ TypeOK /\ ChecksStayTrue /\ \A c \in Calls : Advanced(c)
    BY IInvNext DEF RInv, IInv
  <2>2. ASSUME NEW c \in Calls, NEW d \in Calls, Acts(d)
        PROVE  Advanced(c)'
    BY <2>1, <2>2, AdvancedOwn, AdvancedOthers
  <2>3. ASSUME NEW c \in Calls, UNCHANGED <<payments, pc, call, item, delta>>
        PROVE  Advanced(c)'
    <3>1. OrderOf(c)' = OrderOf(c)
      BY <2>3 DEF OrderOf, IsPay
    <3>2. QED
      BY <2>1, <2>3, <3>1, AdvancedKept
  <2>4. \A c \in Calls : Advanced(c)'
    BY <2>2, <2>3 DEF Next, Acts, Expire, SetStatus, Idle, db, vars
  <2>5. QED
    BY <2>1, <2>4 DEF RInv
<1>3. QED
  BY <1>1, <1>2, PTL DEF Spec

\* The commit of a payment pays, that of a cancellation cancels.
LEMMA CommitIsAtomic ==
    ASSUME RInv, NEW c \in Calls, Commit(c)
    PROVE  (\E o \in Orders : Atomic!Pay(o)) \/ (\E p \in DOMAIN payments : Atomic!Cancel(p))
<1>1. /\ TypeOK /\ StaysTrue(c) /\ Advanced(c)
      /\ pc[c] = "commit" /\ pc[c] \in Writing
  BY DEF RInv, IInv, ChecksStayTrue, Commit, Writing
<1>2. PICK o \in Orders : o = OrderOf(c)
  BY <1>1, OrderTypes
<1>3. \A v \in Variants : Need[o][v] = OrderedUpTo(o, Len(Items[o]), v)
  BY DEF Need, Ordered
<1>4. \A v \in Variants : Need[o][v] \in Nat
  <2>1. Len(Items[o]) \in 0 .. Len(Items[o])
    BY NeedGrows
  <2>2. QED
    BY <1>3, <2>1, NeedGrows
<1>5. item[c] - 1 = Len(Items[o])
  BY <1>1, <1>2, NeedGrows DEF Advanced, ItemsOf
<1>6. \A v \in Variants : delta[c][v] = IF IsPay(c) THEN 0 - Need[o][v] ELSE Need[o][v]
  BY <1>1, <1>2, <1>3, <1>5 DEF Advanced, DeltaIs
<1>7. \A v \in Variants : stock[v] \in Int
  BY <1>1 DEF TypeOK
<1>8. CASE IsPay(c)
  <2>1. o \in Placed /\ Owner[o] = call[c].user /\ orderStatus[o] \notin {"PAID", "CANCELLED"}
    BY <1>1, <1>2, <1>8 DEF Advanced, StaysTrue, Writing
  <2>2. \A v \in Variants : stock[v] >= Need[o][v]
    <3>1. \A v \in Variants : stock[v] + delta[c][v] >= 0
      BY <1>1, <1>8 DEF StaysTrue
    <3>2. QED
      BY <1>4, <1>6, <1>7, <1>8, <3>1
  <2>3. balance[Owner[o]] >= Price[o]
    BY <1>1, <1>2, <1>8, <2>1 DEF StaysTrue
  <2>4. stock' = [v \in Variants |-> stock[v] - Need[o][v]]
    <3>1. \A v \in Variants : stock[v] + delta[c][v] = stock[v] - Need[o][v]
      BY <1>4, <1>6, <1>7, <1>8
    <3>2. QED
      BY <3>1 DEF Commit
  <2>5. balance' = [balance EXCEPT ![Owner[o]] = @ - Price[o]]
    <3>1. balance' = [balance EXCEPT ![Owner[o]] = balance[Owner[o]] + (0 - Price[o])]
      BY <1>2, <1>8, <2>1 DEF Commit, Money
    <3>2. balance[Owner[o]] \in Int /\ Price[o] \in Int
      BY <1>1, <2>1, OrdersAssumption DEF TypeOK
    <3>3. balance[Owner[o]] + (0 - Price[o]) = balance[Owner[o]] - Price[o]
      BY <3>2
    <3>4. QED
      BY <3>1, <3>3
  <2>6. /\ orderStatus' = [orderStatus EXCEPT ![o] = "PAID"]
        /\ payments' = Append(payments, [order |-> o, user |-> Owner[o],
                                         amount |-> Price[o], status |-> "COMPLETED"])
    BY <1>2, <1>8, <2>1 DEF Commit, NewStatus, NewPayment
  <2>7. Atomic!Pay(o)
    BY <2>1, <2>2, <2>3, <2>4, <2>5, <2>6 DEF Atomic!Pay
  <2>8. QED
    BY <2>7
<1>9. CASE ~IsPay(c)
  <2> DEFINE p == call[c].target
  <2>1. /\ p \in DOMAIN payments /\ payments[p].user = call[c].user
        /\ payments[p].status = "COMPLETED" /\ payments[p].order = o
    BY <1>1, <1>2, <1>9 DEF StaysTrue, OrderOf
  <2>2. stock' = [v \in Variants |-> stock[v] + Need[payments[p].order][v]]
    BY <1>6, <1>9, <2>1 DEF Commit
  <2>3. balance' = [balance EXCEPT ![payments[p].user] = @ + payments[p].amount]
    BY <1>9, <2>1 DEF Commit, Money
  <2>4. /\ orderStatus' = [orderStatus EXCEPT ![payments[p].order] = "CANCELLED"]
        /\ payments' = [payments EXCEPT ![p].status = "CANCELLED"]
    BY <1>2, <1>9, <2>1 DEF Commit, NewStatus, CancelPayment
  <2>5. Atomic!Cancel(p)
    BY <2>1, <2>2, <2>3, <2>4 DEF Atomic!Cancel
  <2>6. QED
    BY <2>1, <2>5
<1>10. QED
  BY <1>8, <1>9

\* A step of a transaction that commits nothing changes nothing that Checkout
\* knows of.
LEMMA StepIsAtomic == RInv /\ [Next]_vars => [Atomic!CheckoutNext]_(Atomic!checkoutVars)
<1> SUFFICES ASSUME RInv, [Next]_vars PROVE Atomic!CheckoutNext \/ UNCHANGED Atomic!checkoutVars
  OBVIOUS
<1>1. CASE \E c \in Calls : Commit(c)
  BY <1>1, CommitIsAtomic DEF Atomic!CheckoutNext
<1>2. ASSUME NEW o \in Orders, NEW s \in PatchStatuses, SetStatus(o, s)
      PROVE  Atomic!CheckoutNext
  BY <1>2 DEF SetStatus, Atomic!CheckoutNext, Atomic!Patch
<1>3. CASE /\ ~\E c \in Calls : Commit(c)
           /\ ~\E o \in Orders, s \in PatchStatuses : SetStatus(o, s)
  <2>1. UNCHANGED db
    BY <1>3, OnlyCommitWrites DEF Next, Acts, vars, Idle, Expire, db
  <2>2. QED
    BY <2>1 DEF db, Atomic!checkoutVars
<1>4. QED
  BY <1>1, <1>2, <1>3

\* For any number of concurrent payments, cancellations and status updates,
\* whatever locks they wait for and wherever they fail, the shop only ever sees
\* whole payments and whole cancellations.
THEOREM PaymentImplementsCheckout == Spec => ImplementsCheckout
<1>1. Init => Atomic!CheckoutInit
  BY DEF Init, Atomic!CheckoutInit
<1>2. RInv /\ [Next]_vars => [Atomic!CheckoutNext]_(Atomic!checkoutVars)
  BY StepIsAtomic
<1>3. QED
  BY <1>1, <1>2, RInvAlways, PTL DEF Spec, ImplementsCheckout, Atomic!CheckoutSpec

\* What StatusTellsPayment says, payment by payment, and that there is but one.
StatusTells(o) ==
    /\ orderStatus[o] = "PAID" <=>
         \E p \in DOMAIN payments : payments[p].order = o /\ payments[p].status = "COMPLETED"
    /\ orderStatus[o] = "CANCELLED" <=>
         \E p \in DOMAIN payments : payments[p].order = o /\ payments[p].status # "COMPLETED"

OnePayment(o) ==
    \A p, q \in DOMAIN payments : payments[p].order = o /\ payments[q].order = o => p = q

LEMMA StatusPointwise ==
    ASSUME NEW o \in Orders, StatusTells(o)
    PROVE  StatusTellsPayment(o)
<1>1. /\ (PaymentsOf(o) \intersect Completed # {}) <=>
            \E p \in DOMAIN payments : payments[p].order = o /\ payments[p].status = "COMPLETED"
      /\ (PaymentsOf(o) \ Completed # {}) <=>
            \E p \in DOMAIN payments : payments[p].order = o /\ payments[p].status # "COMPLETED"
  BY DEF PaymentsOf, Completed
<1>2. QED
  BY <1>1 DEF StatusTells, StatusTellsPayment

LEMMA PayTells ==
    ASSUME TypeOK, NEW a \in Orders, Atomic!Pay(a),
           NEW o \in Orders, StatusTells(o), OnePayment(o)
    PROVE  StatusTells(o)' /\ OnePayment(o)'
<1>1. /\ payments \in Seq(PaymentRow) /\ orderStatus \in [Orders -> OrderStatus]
      /\ orderStatus' = [orderStatus EXCEPT ![a] = "PAID"]
      /\ orderStatus[a] \notin {"PAID", "CANCELLED"}
  BY DEF TypeOK, Atomic!Pay
<1>2. PICK row : /\ payments' = Append(payments, row)
                 /\ row.order = a /\ row.status = "COMPLETED"
  BY DEF Atomic!Pay
<1>3. /\ DOMAIN payments' = DOMAIN payments \union {Len(payments) + 1}
      /\ \A p \in DOMAIN payments : payments'[p] = payments[p]
      /\ payments'[Len(payments) + 1] = row
  BY <1>1, <1>2
<1>4. CASE o = a
  <2>1. \A p \in DOMAIN payments : payments[p].order # a
    BY <1>1, <1>4 DEF StatusTells
  <2>2. QED
    BY <1>1, <1>2, <1>3, <1>4, <2>1 DEF StatusTells, OnePayment
<1>5. CASE o # a
  BY <1>1, <1>2, <1>3, <1>5 DEF StatusTells, OnePayment
<1>6. QED
  BY <1>4, <1>5

LEMMA CancelTells ==
    ASSUME TypeOK, NEW q \in DOMAIN payments, Atomic!Cancel(q),
           NEW o \in Orders, StatusTells(o), OnePayment(o)
    PROVE  StatusTells(o)' /\ OnePayment(o)'
<1> DEFINE a == payments[q].order
<1>1. /\ payments \in Seq(PaymentRow) /\ orderStatus \in [Orders -> OrderStatus]
      /\ orderStatus' = [orderStatus EXCEPT ![a] = "CANCELLED"]
      /\ payments' = [payments EXCEPT ![q].status = "CANCELLED"]
  BY DEF TypeOK, Atomic!Cancel
<1>2. payments[q] \in PaymentRow
  BY <1>1, ElementOfSeq
<1>3. a \in Orders
  BY <1>2 DEF PaymentRow
<1>4. /\ DOMAIN payments' = DOMAIN payments
      /\ payments'[q].order = a /\ payments'[q].status = "CANCELLED"
      /\ \A p \in DOMAIN payments : p # q => payments'[p] = payments[p]
      /\ \A p \in DOMAIN payments : payments'[p].order = payments[p].order
  BY <1>1, <1>2 DEF PaymentRow
<1>5. OnePayment(o)'
  BY <1>4 DEF OnePayment
<1>6. CASE o = a
  <2>1. \A p \in DOMAIN payments : p # q => payments[p].order # o
    BY <1>6 DEF OnePayment
  <2> HIDE DEF a
  <2>2. StatusTells(o)'
    BY <1>1, <1>3, <1>4, <1>6, <2>1 DEF StatusTells
  <2>3. QED
    BY <1>5, <2>2
<1>7. CASE o # a
  <2> HIDE DEF a
  <2>1. StatusTells(o)'
    BY <1>1, <1>3, <1>4, <1>7 DEF StatusTells, a
  <2>2. QED
    BY <1>5, <2>1
<1>8. QED
  BY <1>6, <1>7

\* While PATCH leaves an order alone, its status tells what became of its payment,
\* for any number of payments and cancellations at once and whatever PATCH does to
\* other orders.
THEOREM PaymentStatusTells ==
    ASSUME NEW o \in Orders
    PROVE  Spec /\ [][\A s \in PatchStatuses : ~SetStatus(o, s)]_vars => []StatusTellsPayment(o)
<1> DEFINE Tells == StatusTells(o) /\ OnePayment(o)
           Patched == \E s \in PatchStatuses : SetStatus(o, s)
<1>1. Init => Tells
  BY DEF Init, StatusTells, OnePayment
<1>2. RInv /\ Tells /\ [Next]_vars /\ [\A s \in PatchStatuses : ~SetStatus(o, s)]_vars => Tells'
  <2> SUFFICES ASSUME RInv, Tells, [Next]_vars,
                      [\A s \in PatchStatuses : ~SetStatus(o, s)]_vars
               PROVE  Tells'
    OBVIOUS
  <2>1. TypeOK
    BY DEF RInv, IInv
  <2>2. CASE \E c \in Calls : Commit(c)
    BY <2>1, <2>2, CommitIsAtomic, PayTells, CancelTells
  <2>3. ASSUME NEW a \in Orders, NEW s \in PatchStatuses, SetStatus(a, s) PROVE Tells'
    <3>1. /\ orderStatus' = [orderStatus EXCEPT ![a] = s] /\ payments' = payments
          /\ orderStatus[a] # s /\ orderStatus \in [Orders -> OrderStatus]
      BY <2>1, <2>3 DEF SetStatus, TypeOK
    <3>2. vars' # vars
      BY <3>1 DEF vars
    <3>3. a # o
      BY <2>3, <3>2
    <3>4. QED
      BY <3>1, <3>3 DEF StatusTells, OnePayment
  <2>4. CASE /\ ~\E c \in Calls : Commit(c)
             /\ ~\E a \in Orders, s \in PatchStatuses : SetStatus(a, s)
    <3>1. payments' = payments /\ orderStatus' = orderStatus
      BY <2>4, OnlyCommitWrites DEF Next, Acts, vars, Idle, Expire, db
    <3>2. QED
      BY <3>1 DEF StatusTells, OnePayment
  <2>5. QED
    BY <2>2, <2>3, <2>4
<1>3. Tells => StatusTellsPayment(o)
  BY StatusPointwise
<1> HIDE DEF Tells
<1>4. QED
  BY <1>1, <1>2, <1>3, RInvAlways, PTL DEF Spec
-----------------------------------------------------------------------------
(***************************************************************************)
(* Where pieces and money are: in the stock and the balances, or in a      *)
(* completed payment.  Checkout's steps keep the two sums.                 *)
(***************************************************************************)
\* Pieces of v in completed payments, and the money of u in them.
SoldPieces(v) == SumFunction([p \in Completed |-> Ordered(payments[p].order, v)])

PaidBy(u) == {p \in Completed : payments[p].user = u}
Spent(u) == SumFunction([p \in PaidBy(u) |-> payments[p].amount])

\* What the sums range over.
LEMMA RowTypes ==
    ASSUME TypeOK
    PROVE  /\ Len(payments) \in Nat /\ DOMAIN payments = 1 .. Len(payments)
           /\ IsFiniteSet(Completed)
           /\ \A p \in DOMAIN payments : payments[p] \in PaymentRow
           /\ \A o \in Orders, v \in Variants : Ordered(o, v) \in Nat /\ Need[o][v] = Ordered(o, v)
<1>1. /\ Len(payments) \in Nat /\ DOMAIN payments = 1 .. Len(payments)
      /\ \A p \in DOMAIN payments : payments[p] \in PaymentRow
  BY ElementOfSeq DEF TypeOK
<1>2. IsFiniteSet(DOMAIN payments)
  BY <1>1, FS_Interval
<1>3. IsFiniteSet(Completed)
  BY <1>2, FS_Subset DEF Completed
<1>4. \A o \in Orders : Len(Items[o]) \in 0 .. Len(Items[o])
  BY NeedGrows
<1> QED BY <1>1, <1>3, <1>4, NeedGrows DEF Need, Ordered

\* The two sums are natural numbers.
LEMMA SumTypes ==
    ASSUME TypeOK
    PROVE  /\ \A v \in Variants : SoldPieces(v) \in Nat
           /\ \A u \in Users : Spent(u) \in Int
<1>1. ASSUME NEW v \in Variants PROVE SoldPieces(v) \in Nat
  <2>1. PICK f : f = [p \in Completed |-> Ordered(payments[p].order, v)]
    OBVIOUS
  <2>2. IsFiniteSet(DOMAIN f) /\ \A p \in DOMAIN f : f[p] \in Nat
    BY <2>1, RowTypes DEF Completed, PaymentRow
  <2>3. SumFunction(f) \in Nat
    BY <2>2, TotalType
  <2> QED BY <2>1, <2>3 DEF SoldPieces
<1>2. ASSUME NEW u \in Users PROVE Spent(u) \in Int
  <2>1. PICK f : f = [p \in PaidBy(u) |-> payments[p].amount]
    OBVIOUS
  <2>2. IsFiniteSet(DOMAIN f)
    BY <2>1, RowTypes, FS_Subset DEF PaidBy
  <2>3. \A p \in DOMAIN f : f[p] \in Int
    BY <2>1, RowTypes DEF PaidBy, Completed, PaymentRow
  <2>4. SumFunction(f) \in Int
    BY <2>2, <2>3, SumType DEF SumFunction
  <2> QED BY <2>1, <2>4 DEF Spent
<1> QED BY <1>1, <1>2

\* A payment moves the pieces of its order and its price into the sums.
LEMMA PayKeeps ==
    ASSUME TypeOK, TypeOK', NEW o \in Orders, Atomic!Pay(o)
    PROVE  /\ \A v \in Variants : stock'[v] + SoldPieces(v)' = stock[v] + SoldPieces(v)
           /\ \A u \in Users : balance'[u] + Spent(u)' = balance[u] + Spent(u)
<1> DEFINE q == Len(payments) + 1
<1>1. PICK row : /\ row.order = o /\ row.user = Owner[o] /\ row.amount = Price[o]
                 /\ row.status = "COMPLETED" /\ payments' = Append(payments, row)
  BY DEF Atomic!Pay
<1>2. /\ DOMAIN payments' = DOMAIN payments \union {q} /\ q \notin DOMAIN payments
      /\ \A p \in DOMAIN payments : payments'[p] = payments[p]
      /\ payments'[q] = row
  BY <1>1 DEF TypeOK
<1> HIDE DEF q
<1>3. /\ Completed' = Completed \union {q} /\ q \notin Completed
      /\ \A p \in Completed : payments'[p] = payments[p] /\ payments[p] \in PaymentRow
  BY <1>1, <1>2, RowTypes DEF Completed
<1>4. Owner[o] \in Users /\ Price[o] \in Int
  BY OrdersAssumption
<1>5. ASSUME NEW v \in Variants
      PROVE  stock'[v] + SoldPieces(v)' = stock[v] + SoldPieces(v)
  <2>1. SoldPieces(v)' = SumFunction([p \in Completed' |-> Ordered(payments'[p].order, v)])
    BY DEF SoldPieces
  <2>2. SoldPieces(v)' = SoldPieces(v) + Ordered(o, v)
    <3>1. \A p \in Completed : payments[p].order \in Orders /\ payments'[p].order = payments[p].order
      BY <1>3 DEF PaymentRow
    <3>2. payments'[q].order = o
      BY <1>1, <1>2
    <3>3. PICK f, g : /\ f = [p \in Completed |-> Ordered(payments[p].order, v)]
                      /\ g = [p \in Completed' |-> Ordered(payments'[p].order, v)]
      OBVIOUS
    <3>4. /\ IsFiniteSet(DOMAIN f) /\ q \notin DOMAIN f /\ DOMAIN g = DOMAIN f \union {q}
          /\ \A p \in DOMAIN f : f[p] \in Int /\ g[p] = f[p]
          /\ g[q] = Ordered(o, v) /\ g[q] \in Int
      BY <1>3, <3>1, <3>2, <3>3, RowTypes
    <3>5. SumFunction(g) = SumFunction(f) + g[q]
      BY <3>4, TotalAdd
    <3> QED BY <2>1, <3>3, <3>4, <3>5 DEF SoldPieces
  <2>3. stock'[v] = stock[v] - Ordered(o, v) /\ stock[v] \in Int /\ Ordered(o, v) \in Nat
    BY RowTypes DEF Atomic!Pay, TypeOK
  <2>4. SoldPieces(v) \in Nat
    BY SumTypes
  <2> QED BY <2>2, <2>3, <2>4
<1>6. ASSUME NEW u \in Users
      PROVE  balance'[u] + Spent(u)' = balance[u] + Spent(u)
  <2>1. Spent(u)' = SumFunction([p \in PaidBy(u)' |-> payments'[p].amount])
    BY DEF Spent
  <2>2. PaidBy(u)' = {p \in Completed \union {q} : payments'[p].user = u}
    BY <1>3 DEF PaidBy
  <2>3. balance' = [balance EXCEPT ![Owner[o]] = @ - Price[o]]
    BY DEF Atomic!Pay
  <2>4. balance[u] \in Int /\ Spent(u) \in Int
    BY SumTypes DEF TypeOK
  <2>5. CASE u = Owner[o]
    <3>1. PaidBy(u)' = PaidBy(u) \union {q} /\ q \notin PaidBy(u)
      BY <1>1, <1>2, <1>3, <2>2, <2>5 DEF PaidBy
    <3>2. IsFiniteSet(PaidBy(u))
      BY RowTypes, FS_Subset DEF PaidBy
    <3>3. /\ \A p \in PaidBy(u) : payments[p].amount \in Int
                                  /\ payments'[p].amount = payments[p].amount
          /\ payments'[q].amount = Price[o]
      BY <1>1, <1>2, <1>3 DEF PaidBy, PaymentRow
    <3>4. PICK f, g : /\ f = [p \in PaidBy(u) |-> payments[p].amount]
                      /\ g = [p \in PaidBy(u)' |-> payments'[p].amount]
      OBVIOUS
    <3>7. /\ IsFiniteSet(DOMAIN f) /\ q \notin DOMAIN f /\ DOMAIN g = DOMAIN f \union {q}
          /\ \A p \in DOMAIN f : f[p] \in Int /\ g[p] = f[p]
          /\ g[q] = Price[o] /\ g[q] \in Int
      BY <1>4, <3>1, <3>2, <3>3, <3>4
    <3>8. SumFunction(g) = SumFunction(f) + g[q]
      BY <3>7, TotalAdd
    <3>5. Spent(u)' = Spent(u) + Price[o]
      BY <2>1, <3>4, <3>7, <3>8 DEF Spent
    <3>6. balance'[u] = balance[u] - Price[o]
      BY <1>4, <2>3, <2>5 DEF TypeOK
    <3> QED BY <1>4, <2>4, <3>5, <3>6
  <2>6. CASE u # Owner[o]
    <3>1. PaidBy(u)' = PaidBy(u)
      BY <1>1, <1>2, <1>3, <2>2, <2>6 DEF PaidBy
    <3>2. \A p \in PaidBy(u) : payments'[p].amount = payments[p].amount
      BY <1>3 DEF PaidBy
    <3>3. Spent(u)' = Spent(u)
      BY <2>1, <3>1, <3>2 DEF Spent
    <3>4. balance'[u] = balance[u]
      BY <2>3, <2>6 DEF TypeOK
    <3> QED BY <3>3, <3>4
  <2> QED BY <2>5, <2>6
<1> QED BY <1>5, <1>6

\* A cancellation takes them out again.
LEMMA CancelKeeps ==
    ASSUME TypeOK, TypeOK', NEW q \in DOMAIN payments, Atomic!Cancel(q)
    PROVE  /\ \A v \in Variants : stock'[v] + SoldPieces(v)' = stock[v] + SoldPieces(v)
           /\ \A u \in Users : balance'[u] + Spent(u)' = balance[u] + Spent(u)
<1>1. payments[q] \in PaymentRow /\ payments[q].status = "COMPLETED"
  BY RowTypes DEF Atomic!Cancel
<1>2. PICK o \in Orders, w \in Users, n \in Int :
        o = payments[q].order /\ w = payments[q].user /\ n = payments[q].amount
  BY <1>1 DEF PaymentRow
<1>3. /\ DOMAIN payments' = DOMAIN payments /\ payments'[q].status = "CANCELLED"
      /\ \A p \in DOMAIN payments : p # q => payments'[p] = payments[p]
  BY <1>1 DEF Atomic!Cancel, TypeOK, PaymentRow
<1>4. /\ Completed = Completed' \union {q} /\ q \notin Completed'
      /\ \A p \in Completed' : payments'[p] = payments[p] /\ payments[p] \in PaymentRow
  BY <1>1, <1>3, RowTypes DEF Completed
<1>5. IsFiniteSet(Completed')
  BY <1>4, RowTypes, FS_Subset
<1>6. ASSUME NEW v \in Variants
      PROVE  stock'[v] + SoldPieces(v)' = stock[v] + SoldPieces(v)
  <2>1. SoldPieces(v)' = SumFunction([p \in Completed' |-> Ordered(payments'[p].order, v)])
    BY DEF SoldPieces
  <2>2. SoldPieces(v) = SoldPieces(v)' + Ordered(o, v)
    <3>1. \A p \in Completed' : payments'[p].order \in Orders /\ payments[p].order = payments'[p].order
      BY <1>4 DEF PaymentRow
    <3>2. PICK f, g : /\ f = [p \in Completed' |-> Ordered(payments'[p].order, v)]
                      /\ g = [p \in Completed |-> Ordered(payments[p].order, v)]
      OBVIOUS
    <3>3. /\ IsFiniteSet(DOMAIN f) /\ q \notin DOMAIN f /\ DOMAIN g = DOMAIN f \union {q}
          /\ \A p \in DOMAIN f : f[p] \in Int /\ g[p] = f[p]
          /\ g[q] = Ordered(o, v) /\ g[q] \in Int
      BY <1>2, <1>4, <1>5, <3>1, <3>2, RowTypes
    <3>4. SumFunction(g) = SumFunction(f) + g[q]
      BY <3>3, TotalAdd
    <3> QED BY <2>1, <3>2, <3>3, <3>4 DEF SoldPieces
  <2>3. stock'[v] = stock[v] + Ordered(o, v) /\ stock[v] \in Int /\ Ordered(o, v) \in Nat
    BY <1>2, RowTypes DEF Atomic!Cancel, TypeOK
  <2>4. SoldPieces(v)' \in Nat
    <3>1. PICK f : f = [p \in Completed' |-> Ordered(payments'[p].order, v)]
      OBVIOUS
    <3>2. IsFiniteSet(DOMAIN f) /\ \A p \in DOMAIN f : f[p] \in Nat
      BY <1>4, <1>5, <3>1, RowTypes DEF PaymentRow
    <3>3. SumFunction(f) \in Nat
      BY <3>2, TotalType
    <3> QED BY <2>1, <3>1, <3>3
  <2> QED BY <2>2, <2>3, <2>4
<1>7. ASSUME NEW u \in Users
      PROVE  balance'[u] + Spent(u)' = balance[u] + Spent(u)
  <2>1. Spent(u)' = SumFunction([p \in PaidBy(u)' |-> payments'[p].amount])
    BY DEF Spent
  <2>2. PaidBy(u)' = {p \in Completed' : payments'[p].user = u}
    BY DEF PaidBy
  <2>3. balance' = [balance EXCEPT ![w] = @ + n]
    BY <1>2 DEF Atomic!Cancel
  <2>4. balance[u] \in Int
    BY DEF TypeOK
  <2>5. /\ IsFiniteSet(PaidBy(u)')
        /\ \A p \in PaidBy(u)' : /\ payments'[p].amount \in Int
                                 /\ payments[p].amount = payments'[p].amount
    BY <1>4, <1>5, <2>2, FS_Subset DEF PaymentRow
  <2>6. Spent(u)' \in Int
    <3>1. PICK f : f = [p \in PaidBy(u)' |-> payments'[p].amount]
      OBVIOUS
    <3>2. IsFiniteSet(DOMAIN f) /\ \A p \in DOMAIN f : f[p] \in Int
      BY <2>5, <3>1
    <3>3. SumFunction(f) \in Int
      BY <3>2, SumType DEF SumFunction
    <3> QED BY <2>1, <3>1, <3>3
  <2>7. CASE u = w
    <3>1. PaidBy(u) = PaidBy(u)' \union {q} /\ q \notin PaidBy(u)'
      BY <1>2, <1>4, <2>2, <2>7 DEF PaidBy
    <3>2. PICK f, g : /\ f = [p \in PaidBy(u)' |-> payments'[p].amount]
                      /\ g = [p \in PaidBy(u) |-> payments[p].amount]
      OBVIOUS
    <3>5. /\ IsFiniteSet(DOMAIN f) /\ q \notin DOMAIN f /\ DOMAIN g = DOMAIN f \union {q}
          /\ \A p \in DOMAIN f : f[p] \in Int /\ g[p] = f[p]
          /\ g[q] = n /\ g[q] \in Int
      BY <1>2, <2>5, <3>1, <3>2
    <3>6. SumFunction(g) = SumFunction(f) + g[q]
      BY <3>5, TotalAdd
    <3>3. Spent(u) = Spent(u)' + n
      BY <2>1, <3>2, <3>5, <3>6 DEF Spent
    <3>4. balance'[u] = balance[u] + n
      BY <2>3, <2>7 DEF TypeOK
    <3> QED BY <2>4, <2>6, <3>3, <3>4
  <2>8. CASE u # w
    <3>1. PaidBy(u)' = PaidBy(u)
      BY <1>2, <1>4, <2>2, <2>8 DEF PaidBy
    <3>2. \A p \in PaidBy(u) : payments'[p].amount = payments[p].amount
      BY <2>5, <3>1
    <3>3. Spent(u)' = Spent(u)
      BY <2>1, <3>1, <3>2 DEF Spent
    <3>4. balance'[u] = balance[u]
      BY <2>3, <2>8 DEF TypeOK
    <3> QED BY <3>3, <3>4
  <2> QED BY <2>7, <2>8
<1> QED BY <1>6, <1>7

LEMMA LostInit == Init => NothingLost
<1> SUFFICES ASSUME Init PROVE NothingLost
  OBVIOUS
<1>1. Completed = {}
  BY DEF Init, Completed
<1>2. ASSUME NEW v \in Variants PROVE stock[v] + SoldPieces(v) = Stock0[v]
  <2>1. PICK f : f = [p \in Completed |-> Ordered(payments[p].order, v)]
    OBVIOUS
  <2>2. DOMAIN f = {}
    BY <1>1, <2>1
  <2>3. SumFunction(f) = 0
    BY <2>2, SumEmpty DEF SumFunction
  <2> QED BY <2>1, <2>3, StartAssumption DEF Init, SoldPieces
<1>3. ASSUME NEW u \in Users PROVE balance[u] + Spent(u) = Balance0[u]
  <2>1. PICK f : f = [p \in PaidBy(u) |-> payments[p].amount]
    OBVIOUS
  <2>2. DOMAIN f = {}
    BY <1>1, <2>1 DEF PaidBy
  <2>3. SumFunction(f) = 0
    BY <2>2, SumEmpty DEF SumFunction
  <2> QED BY <2>1, <2>3, StartAssumption DEF Init, Spent
<1> QED BY <1>2, <1>3
        DEF NothingLost, StockConserved, MoneyConserved, SoldPieces, Spent, PaidBy

\* Whatever waits, fails, gives up or crashes, and however payments and
\* cancellations interleave, every piece and every coin is in the stock or in a
\* balance, or in a completed payment: what a call that failed half way had
\* taken is back.
THEOREM PaymentNothingLost == Spec => []NothingLost
<1>1. RInv /\ NothingLost /\ [Next]_vars => NothingLost'
  <2> SUFFICES ASSUME RInv, NothingLost, [Next]_vars PROVE NothingLost'
    OBVIOUS
  <2>1. TypeOK /\ TypeOK' /\ (Atomic!CheckoutNext \/ UNCHANGED Atomic!checkoutVars)
    BY StepIsAtomic, IInvNext DEF RInv, IInv
  <2>2. /\ \A v \in Variants : stock[v] + SoldPieces(v) = Stock0[v]
        /\ \A u \in Users : balance[u] + Spent(u) = Balance0[u]
    BY DEF NothingLost, StockConserved, MoneyConserved, SoldPieces, Spent, PaidBy
  <2>3. /\ \A v \in Variants : stock'[v] + SoldPieces(v)' = stock[v] + SoldPieces(v)
        /\ \A u \in Users : balance'[u] + Spent(u)' = balance[u] + Spent(u)
    <3>1. CASE \E o \in Orders : Atomic!Pay(o)
      BY <2>1, <3>1, PayKeeps
    <3>2. CASE \E q \in DOMAIN payments : Atomic!Cancel(q)
      BY <2>1, <3>2, CancelKeeps
    <3>3. CASE UNCHANGED <<stock, balance, payments>>
      BY <3>3 DEF SoldPieces, Spent, PaidBy, Completed
    <3>4. \/ \E o \in Orders : Atomic!Pay(o)
          \/ \E q \in DOMAIN payments : Atomic!Cancel(q)
          \/ UNCHANGED <<stock, balance, payments>>
      BY <2>1 DEF Atomic!CheckoutNext, Atomic!Patch, Atomic!checkoutVars
    <3> QED BY <3>1, <3>2, <3>3, <3>4
  <2>4. /\ \A v \in Variants : stock'[v] + SoldPieces(v)' = Stock0[v]
        /\ \A u \in Users : balance'[u] + Spent(u)' = Balance0[u]
    BY <2>2, <2>3
  <2> QED BY <2>4 DEF NothingLost, StockConserved, MoneyConserved, SoldPieces, Spent, PaidBy
<1> QED BY LostInit, <1>1, RInvAlways, PTL DEF Spec
=============================================================================
