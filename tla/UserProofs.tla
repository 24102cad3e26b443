------------------------------ MODULE UserProofs -----------------------------
(***************************************************************************)
(* Proofs about what belongs to a user, his balance and his cart.          *)
(*                                                                         *)
(*   - Balance, for any users, requests and amounts.                       *)
(*   - Cart, for any users, items, keys and failures.  The checkouts come  *)
(*     first; the cache does not matter to them: whatever a POST is        *)
(*     answered, an item it adds is a new one.  Then come the cache and    *)
(*     what a POST may rely on.                                            *)
(***************************************************************************)
EXTENDS Balance, Cart, FiniteSetTheorems, TLAPS
-----------------------------------------------------------------------------
(***************************************************************************)
(* Balance.                                                                *)
(***************************************************************************)

\* A request served by the module names a user.
LEMMA CallUser ==
    ASSUME BalanceTypeOK, NEW r \in Requests
    PROVE  /\ call[r] \in Call
           /\ U(r) \in Users
           /\ call[r].amount \in Amounts
           /\ call[r].amount \in Int
BY AmountsAssumption DEF BalanceTypeOK, Call, U

\* What createBalanceHistory inserts is a history entry.
LEMMA MovementIsEntry ==
    ASSUME BalanceTypeOK, NEW r \in Requests, NEW after \in Int
    PROVE  [type |-> Movement(r), amount |-> call[r].amount, after |-> after]
             \in Account!Entry
BY CallUser DEF Movement, Account!Entry, Account!MovementType

-----------------------------------------------------------------------------
\* BalanceTypeOK is preserved by every step.
LEMMA BalanceTypeStep == BalanceTypeOK /\ [BalanceNext]_balanceVars => BalanceTypeOK'
<1> SUFFICES ASSUME BalanceTypeOK, [BalanceNext]_balanceVars PROVE BalanceTypeOK'
  OBVIOUS
<1> USE DEF Release, RollBack, db, locks, Step, Answered
<1>1. ASSUME NEW r \in Requests, Begin(r) PROVE BalanceTypeOK'
  BY <1>1 DEF BalanceTypeOK, Begin
<1>2. ASSUME NEW r \in Requests, LockRow(r) PROVE BalanceTypeOK'
  BY <1>2, CallUser DEF BalanceTypeOK, LockRow
<1>3. ASSUME NEW r \in Requests, NEW a \in {"failed", "aborted"}, RollBack(r, a) PROVE BalanceTypeOK'
  BY <1>3 DEF BalanceTypeOK
<1>4. ASSUME NEW r \in Requests, LockGap(r) PROVE BalanceTypeOK'
  <2>1. CASE call[r].op = "charge"
    <3>1. gap' = [gap EXCEPT ![U(r)] = @ \union {r}]
      BY <1>4, <2>1 DEF LockGap
    <3>2. gap' \in [Users -> SUBSET Requests]
      BY <3>1, CallUser DEF BalanceTypeOK
    <3>3. QED
      BY <1>4, <2>1, <3>2 DEF BalanceTypeOK, LockGap
  <2>2. CASE call[r].op # "charge"
    BY <1>4, <2>2, <1>3 DEF LockGap
  <2>3. QED
    BY <2>1, <2>2
<1>5. ASSUME NEW r \in Requests, InsertRow(r) PROVE BalanceTypeOK'
  BY <1>5, CallUser DEF BalanceTypeOK, InsertRow
<1>6. ASSUME NEW r \in Requests, UpdateRow(r) PROVE BalanceTypeOK'
  <2>1. After(r) \in Int
    BY CallUser DEF BalanceTypeOK, After
  <2>2. QED
    BY <1>6, <2>1, CallUser DEF BalanceTypeOK, UpdateRow
<1>7. ASSUME NEW r \in Requests, Log(r) PROVE BalanceTypeOK'
  <2> DEFINE entry == [type |-> Movement(r), amount |-> call[r].amount, after |-> seen[r]]
  <2>1. entry \in Account!Entry
    BY MovementIsEntry DEF BalanceTypeOK
  <2>2. <<entry>> \in Seq(Account!Entry)
    BY <2>1
  <2> HIDE DEF entry
  <2>3. draft' = [draft EXCEPT ![r] = <<entry>>]
    BY <1>7 DEF Log, entry
  <2>4. QED
    BY <1>7, <2>2, <2>3 DEF BalanceTypeOK, Log
<1>8. ASSUME NEW r \in Requests, NEW a \in {"done", "aborted"}, Publish(r),
             pc' = [pc EXCEPT ![r] = a]
      PROVE  BalanceTypeOK'
  <2>1. U(r) \in Users /\ seen[r] \in Int
    BY CallUser DEF BalanceTypeOK
  <2>2. history[U(r)] \in Seq(Account!Entry) /\ draft[r] \in Seq(Account!Entry)
    BY <2>1 DEF BalanceTypeOK
  <2>3. history[U(r)] \o draft[r] \in Seq(Account!Entry)
    BY <2>2
  <2>4. history' \in [Users -> Seq(Account!Entry)]
    BY <1>8, <2>1, <2>3 DEF BalanceTypeOK, Publish
  <2>5. QED
    BY <1>8, <2>1, <2>4 DEF BalanceTypeOK, Publish
<1>9. CASE UNCHANGED balanceVars
  BY <1>9 DEF BalanceTypeOK, balanceVars
<1>10. QED
  BY <1>1, <1>2, <1>3, <1>4, <1>5, <1>6, <1>7, <1>8, <1>9
  DEF BalanceNext, BalanceProgress, Idle, Insufficient, DeadlockVictim, Abort, Commit

\* Every variable keeps its type, for any number of users and requests.
THEOREM BalanceType == BalanceSpec => []BalanceTypeOK
<1>1. BalanceInit => BalanceTypeOK
  <2> SUFFICES ASSUME BalanceInit PROVE BalanceTypeOK
    OBVIOUS
  <2>1. OpeningBalance \in [Users -> Int]
    BY OpeningAssumption DEF OpeningBalance
  <2>2. history \in [Users -> Seq(Account!Entry)]
    BY DEF BalanceInit
  <2>3. rows \subseteq Users
    BY UsersAssumption DEF BalanceInit
  <2>4. QED
    BY <2>1, <2>2, <2>3 DEF BalanceInit, BalanceTypeOK, Step, Answered
<1>2. QED
  BY <1>1, BalanceTypeStep, PTL DEF BalanceSpec

-----------------------------------------------------------------------------
\* Whatever ends a transaction without its COMMIT taking effect, or with it.
LEMMA RollBackCases ==
    ASSUME NEW r \in Requests, Insufficient(r) \/ DeadlockVictim(r) \/ Commit(r) \/ Abort(r)
    PROVE  \/ /\ RollBack(r, "failed") \/ RollBack(r, "aborted")
              /\ pc[r] \in {"lock", "insert", "update", "log", "commit"}
           \/ \E a \in {"done", "aborted"} : Publish(r) /\ pc' = [pc EXCEPT ![r] = a]
BY DEF Insufficient, DeadlockVictim, Commit, Abort

\* A transaction may rely on what it did before while nobody touches its locks.
LEMMA StillHolds ==
    ASSUME BalanceTypeOK, NEW s \in Requests, HoldsItsLocks(s), UNCHANGED <<rows, balance, call>>,
           pc'[s] = pc[s], seen'[s] = seen[s], draft'[s] = draft[s],
           rowLock[U(s)] = s => rowLock'[U(s)] = s,
           s \in gap[U(s)] => s \in gap'[U(s)],
           pc[s] # "insert" /\ gap[U(s)] = {s} => gap'[U(s)] = {s}
    PROVE  HoldsItsLocks(s)'
<1>1. After(s)' = After(s) /\ Movement(s)' = Movement(s) /\ U(s)' = U(s) /\ call'[s] = call[s]
  BY DEF After, Movement, U
<1>2. QED
  BY <1>1 DEF HoldsItsLocks

\* LocksGuardWrites is inductive given the types.
LEMMA LocksStep ==
    BalanceTypeOK /\ LocksGuardWrites /\ [BalanceNext]_balanceVars => LocksGuardWrites'
<1> SUFFICES ASSUME BalanceTypeOK, LocksGuardWrites, [BalanceNext]_balanceVars PROVE LocksGuardWrites'
  OBVIOUS
<1>0. /\ \A s \in Requests : HoldsItsLocks(s) /\ U(s) \in Users
      /\ \A u \in Users : HeldByWriters(u)
  BY CallUser DEF LocksGuardWrites
<1> USE NoOneAssumption DEF Release, db, locks, Step, Answered
<1>1. ASSUME NEW r \in Requests, Begin(r) PROVE LocksGuardWrites'
  <2>1. PICK step \in {"failed", "lock"} : pc' = [pc EXCEPT ![r] = step]
    BY <1>1 DEF Begin
  <2>2. pc[r] = "new" /\ UNCHANGED <<rows, balance, rowLock, gap, call, seen, draft>>
    BY <1>1 DEF Begin
  <2>3. ASSUME NEW s \in Requests PROVE HoldsItsLocks(s)'
    <3>1. CASE s = r
      BY <2>1, <3>1 DEF BalanceTypeOK, HoldsItsLocks
    <3>2. CASE s # r
      BY <1>0, <2>1, <2>2, <3>2, StillHolds DEF BalanceTypeOK
    <3>3. QED
      BY <3>1, <3>2
  <2>4. ASSUME NEW u \in Users PROVE HeldByWriters(u)'
    BY <1>0, <2>1, <2>2 DEF BalanceTypeOK, HeldByWriters, U
  <2>5. QED
    BY <2>3, <2>4 DEF LocksGuardWrites
<1>2. ASSUME NEW r \in Requests, LockRow(r) PROVE LocksGuardWrites'
  <2>1. /\ pc[r] = "lock" /\ U(r) \in rows /\ rowLock[U(r)] = NoOne
        /\ rowLock' = [rowLock EXCEPT ![U(r)] = r] /\ pc' = [pc EXCEPT ![r] = "update"]
        /\ seen' = [seen EXCEPT ![r] = balance[U(r)]]
        /\ UNCHANGED <<rows, balance, gap, call, draft>>
    BY <1>2 DEF LockRow
  <2>2. ASSUME NEW s \in Requests PROVE HoldsItsLocks(s)'
    <3>1. CASE s = r
      BY <1>0, <2>1, <3>1 DEF BalanceTypeOK, HoldsItsLocks, U
    <3>2. CASE s # r
      BY <1>0, <2>1, <3>2, StillHolds DEF BalanceTypeOK
    <3>3. QED
      BY <3>1, <3>2
  <2>3. ASSUME NEW u \in Users PROVE HeldByWriters(u)'
    BY <1>0, <2>1 DEF BalanceTypeOK, HeldByWriters, U
  <2>4. QED
    BY <2>2, <2>3 DEF LocksGuardWrites
<1>3. ASSUME NEW r \in Requests, NEW a \in {"failed", "aborted"}, RollBack(r, a) PROVE LocksGuardWrites'
  <2>1. /\ pc' = [pc EXCEPT ![r] = a] /\ seen' = [seen EXCEPT ![r] = 0]
        /\ draft' = [draft EXCEPT ![r] = <<>>] /\ UNCHANGED <<rows, balance, call>>
    BY <1>3 DEF RollBack
  <2>2. \A u \in Users : /\ rowLock'[u] = IF rowLock[u] = r THEN NoOne ELSE rowLock[u]
                         /\ gap'[u] = gap[u] \ {r}
    BY <1>3 DEF RollBack
  <2>3. ASSUME NEW s \in Requests PROVE HoldsItsLocks(s)'
    <3>1. CASE s = r
      BY <3>1, <2>1 DEF BalanceTypeOK, HoldsItsLocks
    <3>2. CASE s # r
      BY <1>0, <3>2, <2>1, <2>2, StillHolds DEF BalanceTypeOK
    <3>3. QED
      BY <3>1, <3>2
  <2>4. ASSUME NEW u \in Users PROVE HeldByWriters(u)'
    BY <1>0, <2>1, <2>2 DEF BalanceTypeOK, HeldByWriters, U
  <2>5. QED
    BY <2>3, <2>4 DEF LocksGuardWrites
<1>4. ASSUME NEW r \in Requests, LockGap(r) PROVE LocksGuardWrites'
  <2>1. CASE call[r].op = "charge"
    <3>1. /\ pc' = [pc EXCEPT ![r] = "insert"]
          /\ gap' = [gap EXCEPT ![U(r)] = @ \union {r}]
          /\ UNCHANGED <<rows, balance, rowLock, call, seen, draft>>
          /\ U(r) \notin rows /\ rowLock[U(r)] = NoOne /\ pc[r] = "lock"
      BY <1>4, <2>1 DEF LockGap
    <3>2. ASSUME NEW s \in Requests PROVE HoldsItsLocks(s)'
      <4>1. CASE s = r
        BY <1>0, <2>1, <3>1, <4>1 DEF BalanceTypeOK, HoldsItsLocks, U
      <4>2. CASE s # r /\ U(s) # U(r)
        BY <1>0, <3>1, <4>2, StillHolds DEF BalanceTypeOK
      <4>3. CASE s # r /\ U(s) = U(r)
        <5>1. rowLock[U(s)] # s
          BY <3>1, <4>3
        <5>2. pc[s] \notin {"update", "log", "commit"}
          BY <1>0, <5>1 DEF HoldsItsLocks
        <5>3. /\ pc'[s] = pc[s] /\ U(s)' = U(s) /\ call' = call /\ rows' = rows
              /\ (s \in gap[U(s)] => s \in gap'[U(s)])
          BY <1>0, <3>1, <4>3 DEF BalanceTypeOK, U
        <5>4. QED
          BY <1>0, <5>2, <5>3 DEF HoldsItsLocks
      <4>4. QED
        BY <4>1, <4>2, <4>3
    <3>3. ASSUME NEW u \in Users PROVE HeldByWriters(u)'
      BY <1>0, <3>1 DEF BalanceTypeOK, HeldByWriters, U
    <3>4. QED
      BY <3>2, <3>3 DEF LocksGuardWrites
  <2>2. CASE call[r].op # "charge"
    BY <1>4, <2>2, <1>3 DEF LockGap
  <2>3. QED
    BY <2>1, <2>2
<1>5. ASSUME NEW r \in Requests, InsertRow(r) PROVE LocksGuardWrites'
  <2>1. /\ pc[r] = "insert" /\ gap[U(r)] = {r} /\ rowLock[U(r)] = NoOne
        /\ rowLock' = [rowLock EXCEPT ![U(r)] = r] /\ pc' = [pc EXCEPT ![r] = "log"]
        /\ seen' = [seen EXCEPT ![r] = call[r].amount]
        /\ UNCHANGED <<rows, balance, gap, call, draft>>
    BY <1>5 DEF InsertRow
  <2>2. U(r) \notin rows /\ call[r].op = "charge" /\ balance[U(r)] = 0
    BY <1>0, <2>1 DEF HoldsItsLocks, HeldByWriters
  <2>3. After(r)' = call[r].amount
    BY <2>1, <2>2, CallUser DEF After, U
  <2>4. ASSUME NEW s \in Requests PROVE HoldsItsLocks(s)'
    <3>1. CASE s = r
      <4>1. /\ rowLock'[U(r)] = r /\ pc'[r] = "log" /\ seen'[r] = call[r].amount
            /\ call'[r].op = "charge" /\ gap'[U(r)] = {r} /\ U(r)' = U(r)
        BY <1>0, <2>1, <2>2 DEF BalanceTypeOK, U
      <4>2. QED
        BY <2>3, <3>1, <4>1 DEF HoldsItsLocks
    <3>2. CASE s # r
      BY <1>0, <2>1, <3>2, StillHolds DEF BalanceTypeOK
    <3>3. QED
      BY <3>1, <3>2
  <2>5. ASSUME NEW u \in Users PROVE HeldByWriters(u)'
    BY <1>0, <2>1 DEF BalanceTypeOK, HeldByWriters, U
  <2>6. QED
    BY <2>4, <2>5 DEF LocksGuardWrites
<1>6. ASSUME NEW r \in Requests, UpdateRow(r) PROVE LocksGuardWrites'
  <2>1. /\ seen' = [seen EXCEPT ![r] = After(r)] /\ pc' = [pc EXCEPT ![r] = "log"]
        /\ rowLock' = [rowLock EXCEPT ![U(r)] = r] /\ rowLock[U(r)] = r
        /\ UNCHANGED <<rows, balance, gap, call, draft>> /\ pc[r] = "update"
    BY <1>6 DEF UpdateRow, LocksGuardWrites, HoldsItsLocks
  <2>2. U(r) \in rows /\ seen[r] = balance[U(r)] /\ (call[r].op = "deduct" => seen[r] >= call[r].amount)
    BY <1>6, <2>1 DEF UpdateRow, Covered, LocksGuardWrites, HoldsItsLocks
  <2>3. rowLock' = rowLock
    BY <2>1 DEF BalanceTypeOK
  <2>4. \A s \in Requests : After(s)' = After(s)
    BY <2>1 DEF After, U
  <2>5. ASSUME NEW s \in Requests PROVE HoldsItsLocks(s)'
    <3>1. CASE s = r
      BY <2>1, <2>2, <2>3, <2>4, <3>1 DEF BalanceTypeOK, HoldsItsLocks, U
    <3>2. CASE s # r
      BY <1>0, <2>1, <2>3, <3>2, StillHolds DEF BalanceTypeOK
    <3>3. QED
      BY <3>1, <3>2
  <2>6. ASSUME NEW u \in Users PROVE HeldByWriters(u)'
    BY <1>0, <2>1, <2>3 DEF BalanceTypeOK, HeldByWriters, U
  <2>7. QED
    BY <2>5, <2>6 DEF LocksGuardWrites
<1>7. ASSUME NEW r \in Requests, Log(r) PROVE LocksGuardWrites'
  <2>1. /\ draft' = [draft EXCEPT ![r] = <<[type |-> Movement(r), amount |-> call[r].amount,
                                            after |-> seen[r]]>>]
        /\ pc' = [pc EXCEPT ![r] = "commit"] /\ pc[r] = "log"
        /\ UNCHANGED <<rows, balance, rowLock, gap, call, seen>>
    BY <1>7 DEF Log
  <2>2. \A s \in Requests : After(s)' = After(s) /\ Movement(s)' = Movement(s)
    BY <2>1 DEF After, Movement, U
  <2>3. ASSUME NEW s \in Requests PROVE HoldsItsLocks(s)'
    <3>1. CASE s = r
      BY <2>1, <2>2, <3>1 DEF BalanceTypeOK, HoldsItsLocks, LocksGuardWrites, U
    <3>2. CASE s # r
      BY <1>0, <2>1, <3>2, StillHolds DEF BalanceTypeOK
    <3>3. QED
      BY <3>1, <3>2
  <2>4. ASSUME NEW u \in Users PROVE HeldByWriters(u)'
    BY <1>0, <2>1 DEF BalanceTypeOK, HeldByWriters, U
  <2>5. QED
    BY <2>3, <2>4 DEF LocksGuardWrites
<1>8. ASSUME NEW r \in Requests, NEW a \in {"done", "aborted"}, Publish(r),
             pc' = [pc EXCEPT ![r] = a]
      PROVE  LocksGuardWrites'
  <2>1. /\ pc[r] = "commit" /\ rows' = rows \union {U(r)}
        /\ balance' = [balance EXCEPT ![U(r)] = seen[r]]
        /\ seen' = [seen EXCEPT ![r] = 0] /\ draft' = [draft EXCEPT ![r] = <<>>]
        /\ call' = call /\ rowLock[U(r)] = r /\ U(r) \in Users
    BY <1>8, CallUser DEF Publish, LocksGuardWrites, HoldsItsLocks
  <2>2. \A u \in Users : /\ rowLock'[u] = IF rowLock[u] = r THEN NoOne ELSE rowLock[u]
                         /\ gap'[u] = gap[u] \ {r}
    BY <1>8 DEF Publish
  <2>3. ASSUME NEW s \in Requests, s # r PROVE HoldsItsLocks(s)'
    <3>1. /\ pc'[s] = pc[s] /\ seen'[s] = seen[s] /\ draft'[s] = draft[s]
          /\ U(s) \in Users /\ Movement(s)' = Movement(s)
      BY <1>8, <2>1, <2>3, CallUser DEF BalanceTypeOK, Movement
    <3>2. CASE U(s) = U(r)
      <4>1. pc[s] \notin {"update", "log", "commit"}
        BY <2>1, <2>3, <3>2 DEF LocksGuardWrites, HoldsItsLocks
      <4>2. pc[s] # "insert"
        <5>1. ASSUME pc[s] = "insert" PROVE FALSE
          <6>1. U(s) \notin rows /\ s \in gap[U(s)]
            BY <5>1 DEF LocksGuardWrites, HoldsItsLocks
          <6>2. gap[U(r)] = {r}
            BY <2>1, <3>2, <6>1 DEF LocksGuardWrites, HoldsItsLocks
          <6>3. QED
            BY <2>3, <3>2, <6>1, <6>2
        <5>2. QED
          BY <5>1
      <4>3. QED
        BY <3>1, <4>1, <4>2 DEF HoldsItsLocks
    <3>3. CASE U(s) # U(r)
      <4>1. /\ balance'[U(s)] = balance[U(s)] /\ After(s)' = After(s)
            /\ (U(s) \in rows') = (U(s) \in rows)
            /\ U(s)' = U(s)
        BY <2>1, <3>1, <3>3 DEF BalanceTypeOK, After, U
      <4>2. gap'[U(s)] = gap[U(s)]
        <5>1. r \notin gap[U(s)]
          BY <1>0, <3>1, <3>3 DEF HeldByWriters
        <5>2. QED
          BY <2>2, <3>1, <5>1
      <4>3. rowLock[U(s)] = s => rowLock'[U(s)] = s
        BY <2>2, <2>3, <3>1
      <4>4. QED
        BY <1>0, <2>1, <3>1, <4>1, <4>2, <4>3 DEF HoldsItsLocks
    <3>4. QED
      BY <3>2, <3>3
  <2>4. HoldsItsLocks(r)'
    BY <1>8 DEF BalanceTypeOK, HoldsItsLocks
  <2>5. ASSUME NEW u \in Users PROVE HeldByWriters(u)'
    <3>1. \A s \in Requests : s # r => pc'[s] = pc[s] /\ U(s)' = U(s)
      BY <1>8, <2>1 DEF BalanceTypeOK, U
    <3>2. rowLock[u] \in Requests \union {NoOne} /\ gap[u] \subseteq Requests
      BY DEF BalanceTypeOK
    <3>3. rowLock'[u] # NoOne =>
             U(rowLock[u])' = u /\ pc'[rowLock'[u]] \in {"update", "log", "commit"}
      <4>1. rowLock'[u] # NoOne => /\ rowLock'[u] = rowLock[u] /\ rowLock[u] # r
                                   /\ rowLock[u] \in Requests
        BY <2>2, <3>2
      <4>2. QED
        BY <1>0, <2>1, <3>1, <4>1 DEF HeldByWriters, U
    <3>4. ASSUME NEW s \in gap'[u] PROVE U(s)' = u /\ pc'[s] \in {"insert", "log", "commit"}
      <4>1. s \in gap[u] /\ s # r /\ s \in Requests
        BY <2>2, <3>2
      <4>2. QED
        BY <1>0, <3>1, <4>1 DEF HeldByWriters
    <3>5. u \notin rows' => balance'[u] = 0
      BY <1>0, <2>1 DEF HeldByWriters, BalanceTypeOK
    <3>6. QED
      BY <3>3, <3>4, <3>5 DEF HeldByWriters
  <2>6. QED
    BY <2>3, <2>4, <2>5 DEF LocksGuardWrites
<1>9. CASE UNCHANGED balanceVars
  BY <1>9 DEF LocksGuardWrites, HoldsItsLocks, HeldByWriters, balanceVars, After, Movement, U
<1>10. ASSUME NEW r \in Requests,
              Insufficient(r) \/ DeadlockVictim(r) \/ Commit(r) \/ Abort(r)
       PROVE  LocksGuardWrites'
  BY <1>3, <1>8, <1>10, RollBackCases
<1>11. CASE Idle
  BY <1>9, <1>11 DEF Idle
<1>12. QED
  BY <1>1, <1>2, <1>4, <1>5, <1>6, <1>7, <1>9, <1>10, <1>11 DEF BalanceNext, BalanceProgress

\* The locks do what they are taken for, however many requests there are.
THEOREM BalanceLocks == BalanceSpec => []LocksGuardWrites
<1>1. BalanceInit => LocksGuardWrites
  BY DEF BalanceInit, OpeningBalance, LocksGuardWrites, HoldsItsLocks, HeldByWriters
<1>2. QED
  BY <1>1, LocksStep, BalanceType, PTL DEF BalanceSpec

-----------------------------------------------------------------------------
\* A step writes nothing and answers nobody with success, or it is a COMMIT.
LEMMA StepCases ==
    ASSUME [BalanceNext]_balanceVars
    PROVE  \/ /\ UNCHANGED <<db, call>>
              /\ \/ UNCHANGED pc
                 \/ \E r \in Requests, a \in Step \ {"done"} :
                       pc[r] \notin Answered /\ pc' = [pc EXCEPT ![r] = a]
           \/ \E r \in Requests, a \in {"done", "aborted"} :
                 Publish(r) /\ pc' = [pc EXCEPT ![r] = a]
<1> USE DEF Step, Answered, db
<1>1. ASSUME NEW r \in Requests, NEW a \in {"failed", "aborted"}, RollBack(r, a),
             pc[r] \notin Answered
      PROVE  /\ UNCHANGED <<db, call>>
             /\ \E b \in Step \ {"done"} : pc[r] \notin Answered /\ pc' = [pc EXCEPT ![r] = b]
  BY <1>1 DEF RollBack
<1>2. ASSUME NEW r \in Requests,
             Begin(r) \/ LockRow(r) \/ InsertRow(r) \/ UpdateRow(r) \/ Log(r)
      PROVE  /\ UNCHANGED <<db, call>>
             /\ \E b \in Step \ {"done"} : pc[r] \notin Answered /\ pc' = [pc EXCEPT ![r] = b]
  BY <1>2 DEF Begin, LockRow, InsertRow, UpdateRow, Log
<1>3. ASSUME NEW r \in Requests, LockGap(r)
      PROVE  /\ UNCHANGED <<db, call>>
             /\ \E b \in Step \ {"done"} : pc[r] \notin Answered /\ pc' = [pc EXCEPT ![r] = b]
  BY <1>1, <1>3 DEF LockGap
<1>4. CASE UNCHANGED balanceVars
  BY <1>4 DEF balanceVars
<1>5. QED
  BY <1>1, <1>2, <1>3, <1>4, RollBackCases DEF BalanceNext, BalanceProgress, Idle

\* A COMMIT makes one movement, with the balance it leaves computed from the
\* balance that is there.
LEMMA CommitMoves ==
    ASSUME BalanceTypeOK, LocksGuardWrites, NEW r \in Requests, Publish(r)
    PROVE  \E e \in Account!Entry :
             /\ e = [type |-> Movement(r), amount |-> call[r].amount, after |-> After(r)]
             /\ e.after = balance[U(r)] + Account!Signed(e)
             /\ balance' = [balance EXCEPT ![U(r)] = e.after]
             /\ history' = [history EXCEPT ![U(r)] = Append(@, e)]
             /\ call[r].op = "deduct" => balance[U(r)] >= call[r].amount
             /\ call' = call /\ pc[r] = "commit"
<1> DEFINE e == [type |-> Movement(r), amount |-> call[r].amount, after |-> After(r)]
<1>1. U(r) \in Users /\ balance[U(r)] \in Int /\ call[r].amount \in Int
  BY CallUser DEF BalanceTypeOK
<1>2. After(r) \in Int
  BY <1>1 DEF After
<1>3. e \in Account!Entry
  BY <1>2, MovementIsEntry
<1>4. e.after = balance[U(r)] + Account!Signed(e)
  <2>1. CASE call[r].op = "charge"
    BY <1>1, <2>1 DEF After, Movement, Account!Signed
  <2>2. CASE call[r].op # "charge"
    BY <1>1, <2>2 DEF After, Movement, Account!Signed
  <2>3. QED
    BY <2>1, <2>2
<1>5. /\ pc[r] = "commit" /\ call' = call
      /\ balance' = [balance EXCEPT ![U(r)] = seen[r]]
      /\ history' = [history EXCEPT ![U(r)] = @ \o draft[r]]
  BY DEF Publish
<1>6. /\ seen[r] = After(r) /\ draft[r] = <<e>>
      /\ call[r].op = "deduct" => balance[U(r)] >= call[r].amount
  BY <1>5 DEF LocksGuardWrites, HoldsItsLocks
<1> HIDE DEF e
<1>7. history[U(r)] \o draft[r] = Append(history[U(r)], e)
  <2>1. history[U(r)] \in Seq(Account!Entry)
    BY <1>1 DEF BalanceTypeOK
  <2>2. QED
    BY <1>3, <1>6, <2>1
<1>8. history' = [history EXCEPT ![U(r)] = Append(@, e)]
  BY <1>1, <1>5, <1>7
<1>9. e.after = After(r) /\ e = [type |-> Movement(r), amount |-> call[r].amount, after |-> After(r)]
  BY DEF e
<1>10. QED
  BY <1>3, <1>4, <1>5, <1>6, <1>8, <1>9

\* No interleaving of charges and deductions overdraws an account, unless a
\* charge of a negative amount took effect.
THEOREM BalanceOverdrawnByChargeOnly == BalanceSpec => []OverdrawnByChargeOnly
<1>1. BalanceInit => OverdrawnByChargeOnly
  BY OpeningAssumption DEF BalanceInit, OverdrawnByChargeOnly, OpeningBalance
<1>2. BalanceTypeOK /\ LocksGuardWrites /\ OverdrawnByChargeOnly /\ [BalanceNext]_balanceVars
        => OverdrawnByChargeOnly'
  <2> SUFFICES ASSUME BalanceTypeOK, LocksGuardWrites, OverdrawnByChargeOnly,
                      [BalanceNext]_balanceVars, NEW u \in Users, balance'[u] < 0
               PROVE  ChargedBelow(u)'
    BY DEF OverdrawnByChargeOnly
  <2>1. ASSUME UNCHANGED call, NEW r \in Requests, NEW a \in Step, pc[r] \notin {"done", "aborted"},
               pc' = [pc EXCEPT ![r] = a], ChargedBelow(u)
        PROVE  ChargedBelow(u)'
    BY <2>1 DEF ChargedBelow, U, BalanceTypeOK
  <2>2. ASSUME NEW r \in Requests, NEW a \in {"done", "aborted"}, Publish(r),
               pc' = [pc EXCEPT ![r] = a]
        PROVE  ChargedBelow(u)'
    <3>1. PICK e \in Account!Entry :
             /\ e.after = After(r)
             /\ balance' = [balance EXCEPT ![U(r)] = e.after]
             /\ call[r].op = "deduct" => balance[U(r)] >= call[r].amount
             /\ call' = call /\ pc[r] = "commit"
      BY <2>2, CommitMoves
    <3>2. U(r) \in Users /\ balance[u] \in Int /\ call[r].amount \in Int /\ call[r].op \in {"charge", "deduct"}
      BY CallUser DEF BalanceTypeOK, Call
    <3>3. CASE U(r) # u \/ balance[u] < 0
      <4>1. ChargedBelow(u)
        BY <3>1, <3>2, <3>3 DEF OverdrawnByChargeOnly, BalanceTypeOK
      <4>2. QED
        BY <2>1, <2>2, <3>1, <4>1 DEF Step, Answered
    <3>4. CASE U(r) = u /\ ~(balance[u] < 0)
      <4>1. After(r) < 0
        BY <3>1, <3>2, <3>4 DEF BalanceTypeOK
      <4>2. call[r].op = "charge" /\ call[r].amount < 0
        BY <3>1, <3>2, <3>4, <4>1 DEF After
      <4>3. pc'[r] \in {"done", "aborted"} /\ U(r)' = u
        BY <2>2, <3>1, <3>4 DEF BalanceTypeOK, U
      <4>4. QED
        BY <3>1, <4>2, <4>3 DEF ChargedBelow
    <3>5. QED
      BY <3>3, <3>4
  <2>3. CASE UNCHANGED <<db, call>>
    <3>1. ChargedBelow(u)
      BY <2>3 DEF OverdrawnByChargeOnly, db
    <3>2. CASE UNCHANGED pc
      BY <2>3, <3>1, <3>2 DEF ChargedBelow, U
    <3>3. QED
      BY <2>1, <2>2, <2>3, <3>1, <3>2, StepCases DEF Answered
  <2>4. QED
    BY <2>2, <2>3, StepCases
<1>3. QED
  BY <1>1, <1>2, BalanceType, BalanceLocks, PTL DEF BalanceSpec

-----------------------------------------------------------------------------
\* Every row-locking transaction is, at its COMMIT, one atomic credit or debit
\* of the account; every other step is invisible.
THEOREM BalanceImplementsLedger == BalanceSpec => ImplementsLedger
<1>1. BalanceInit => Account!LedgerInit
  BY DEF BalanceInit, Account!LedgerInit
<1>2. BalanceTypeOK /\ LocksGuardWrites /\ [BalanceNext]_balanceVars
        => [Account!LedgerNext]_(Account!ledgerVars)
  <2> SUFFICES ASSUME BalanceTypeOK, LocksGuardWrites, [BalanceNext]_balanceVars
               PROVE  [Account!LedgerNext]_(Account!ledgerVars)
    OBVIOUS
  <2>1. ASSUME NEW r \in Requests, Publish(r) PROVE Account!LedgerNext
    <3> DEFINE u == U(r)
               a == call[r].amount
    <3>1. u \in Users /\ a \in Amounts /\ a \in Int /\ balance[u] \in Int
      BY CallUser DEF BalanceTypeOK
    <3>2. PICK e \in Account!Entry :
             /\ e = [type |-> Movement(r), amount |-> a, after |-> After(r)]
             /\ balance' = [balance EXCEPT ![u] = e.after]
             /\ history' = [history EXCEPT ![u] = Append(@, e)]
             /\ call[r].op = "deduct" => balance[u] >= a
      BY <2>1, CommitMoves
    <3>3. CASE call[r].op = "charge"
      <4>1. balance[u] + Account!Signed([type |-> "REFUND", amount |-> a]) = After(r)
        BY <3>1, <3>3 DEF Account!Signed, After
      <4>2. Account!Credit(u, a)
        BY <3>2, <3>3, <4>1 DEF Movement, Account!Credit, Account!Move
      <4>3. QED
        BY <3>1, <4>2 DEF Account!LedgerNext
    <3>4. CASE call[r].op = "deduct"
      <4>1. balance[u] + Account!Signed([type |-> "USE", amount |-> a]) = After(r)
        BY <3>1, <3>4 DEF Account!Signed, After
      <4>2. Account!Debit(u, a)
        BY <3>2, <3>4, <4>1 DEF Movement, Account!Debit, Account!Move
      <4>3. QED
        BY <3>1, <4>2 DEF Account!LedgerNext
    <3>5. QED
      BY <3>3, <3>4, CallUser DEF Call
  <2>2. CASE UNCHANGED db
    BY <2>2 DEF db, Account!ledgerVars
  <2>3. QED
    BY <2>1, <2>2, StepCases
<1>3. QED
  BY <1>1, <1>2, BalanceType, BalanceLocks, PTL
  DEF BalanceSpec, ImplementsLedger, Account!LedgerSpec

\* The history of an account always explains its balance.
THEOREM BalanceHistory == BalanceSpec => []HistoryExplainsBalance
<1>1. BalanceInit => HistoryExplainsBalance
  BY DEF BalanceInit, HistoryExplainsBalance, Before, OpeningBalance
<1>2. BalanceTypeOK /\ LocksGuardWrites /\ HistoryExplainsBalance /\ [BalanceNext]_balanceVars
        => HistoryExplainsBalance'
  <2> SUFFICES ASSUME BalanceTypeOK, LocksGuardWrites, HistoryExplainsBalance,
                      [BalanceNext]_balanceVars
               PROVE  HistoryExplainsBalance'
    OBVIOUS
  <2>1. ASSUME NEW r \in Requests, Publish(r), NEW v \in Users
        PROVE  /\ balance'[v] = Before(v, Len(history[v]) + 1)'
               /\ \A i \in 1 .. Len(history'[v]) :
                     history'[v][i].after
                       = Before(v, i)' + Account!Signed(history'[v][i])
    <3> DEFINE u == U(r)
               after == After(r)
    <3>1. u \in Users /\ balance[u] \in Int
      BY CallUser DEF BalanceTypeOK
    <3>2. PICK entry \in Account!Entry :
             /\ entry.after = after /\ after = balance[u] + Account!Signed(entry)
             /\ balance' = [balance EXCEPT ![u] = after]
             /\ history' = [history EXCEPT ![u] = Append(@, entry)]
      BY <2>1, CommitMoves
    <3> HIDE DEF u, after
    <3>3. /\ balance' = [balance EXCEPT ![u] = after]
          /\ history' = [history EXCEPT ![u] = Append(@, entry)]
      BY <3>2
    <3>4. history[v] \in Seq(Account!Entry)
      BY DEF BalanceTypeOK
    <3>5. CASE v # u
      BY <3>1, <3>3, <3>5 DEF BalanceTypeOK, HistoryExplainsBalance, Before
    <3>6. CASE v = u
      <4>0. PICK n \in Nat : n = Len(history[v])
        BY <3>4
      <4>1. /\ Len(history'[v]) = n + 1
            /\ history'[v][n + 1] = entry
            /\ \A i \in 1 .. n : history'[v][i] = history[v][i]
            /\ balance'[v] = after
        BY <3>1, <3>3, <3>4, <3>6, <4>0 DEF BalanceTypeOK
      <4>2. \A i \in 1 .. (n + 1) : Before(v, i)' = Before(v, i)
        <5>1. \A i \in 1 .. (n + 1) : i = 1 \/ i - 1 \in 1 .. n
          OBVIOUS
        <5>2. \A i : i - 1 \in 1 .. n => history'[v][i - 1].after = history[v][i - 1].after
          BY <4>1
        <5> QED BY <5>1, <5>2 DEF Before
      <4>3. Before(v, n + 1) = balance[v]
        BY <4>0 DEF HistoryExplainsBalance
      <4>4. Before(v, n + 2)' = after
        BY <4>1, <3>2 DEF Before
      <4>5. \A i \in 1 .. (n + 1) :
              history'[v][i].after = Before(v, i)' + Account!Signed(history'[v][i])
        <5>1. \A i \in 1 .. n :
                history[v][i].after = Before(v, i) + Account!Signed(history[v][i])
          BY <4>0 DEF HistoryExplainsBalance
        <5>2. history'[v][n + 1].after
                = Before(v, n + 1)' + Account!Signed(history'[v][n + 1])
          BY <4>1, <4>2, <4>3, <3>2, <3>6
        <5>3. QED
          BY <4>1, <4>2, <5>1, <5>2
      <4>6. QED
        BY <4>1, <4>4, <4>5
    <3>7. QED
      BY <3>5, <3>6
  <2>2. CASE UNCHANGED db
    BY <2>2 DEF db, HistoryExplainsBalance, Before
  <2>3. QED
    BY <2>1, <2>2, StepCases DEF HistoryExplainsBalance
<1>3. QED
  BY <1>1, <1>2, BalanceType, BalanceLocks, PTL DEF BalanceSpec

\* However the calls interleave and wherever they are cut off, every movement is
\* the work of a call of its own, and every success has its movement.
THEOREM BalanceMovementsHaveCalls == BalanceSpec => []EveryMovementHasItsCall
<1> USE DEF Step, Answered
<1>1. BalanceInit => EveryMovementHasItsCall
  <2> SUFFICES ASSUME BalanceInit, NEW u \in Users
               PROVE  \E by \in [1 .. Len(history[u]) -> Requests] : MadeBy(u, by)
    BY DEF EveryMovementHasItsCall
  <2>1. Len(history[u]) = 0 /\ \A r \in Requests : pc[r] # "done"
    BY DEF BalanceInit
  <2>2. PICK by : by = [i \in 1 .. 0 |-> NoOne]
    OBVIOUS
  <2>3. by \in [1 .. Len(history[u]) -> Requests] /\ DOMAIN by = {}
    BY <2>1, <2>2
  <2>4. QED
    BY <2>1, <2>3 DEF MadeBy
<1>2. BalanceTypeOK /\ LocksGuardWrites /\ EveryMovementHasItsCall /\ [BalanceNext]_balanceVars
        => EveryMovementHasItsCall'
  <2> SUFFICES ASSUME BalanceTypeOK, LocksGuardWrites, EveryMovementHasItsCall,
                      [BalanceNext]_balanceVars, NEW u \in Users
               PROVE  \E by \in [1 .. Len(history'[u]) -> Requests] : MadeBy(u, by)'
    BY DEF EveryMovementHasItsCall
  <2>1. PICK by \in [1 .. Len(history[u]) -> Requests] : MadeBy(u, by)
    BY DEF EveryMovementHasItsCall
  <2>2. ASSUME UNCHANGED call, history'[u] = history[u],
               \A r \in Requests : pc[r] \in {"done", "aborted"} => pc'[r] = pc[r],
               \A r \in Requests : U(r) = u /\ pc'[r] = "done" => pc[r] = "done"
        PROVE  \E f \in [1 .. Len(history'[u]) -> Requests] : MadeBy(u, f)'
    <3>1. by \in [1 .. Len(history'[u]) -> Requests]
      BY <2>1, <2>2
    <3>2. MadeBy(u, by)'
      BY <2>1, <2>2 DEF MadeBy, U, Movement
    <3>3. QED
      BY <3>1, <3>2
  <2>3. ASSUME NEW r \in Requests, NEW a \in {"done", "aborted"}, Publish(r),
               pc' = [pc EXCEPT ![r] = a]
        PROVE  \E f \in [1 .. Len(history'[u]) -> Requests] : MadeBy(u, f)'
    <3>1. PICK e \in Account!Entry :
             /\ e = [type |-> Movement(r), amount |-> call[r].amount, after |-> After(r)]
             /\ history' = [history EXCEPT ![U(r)] = Append(@, e)]
             /\ call' = call /\ pc[r] = "commit"
      BY <2>3, CommitMoves
    <3>2. /\ pc'[r] = a /\ \A s \in Requests : s # r => pc'[s] = pc[s]
          /\ history[u] \in Seq(Account!Entry)
      BY <2>3 DEF BalanceTypeOK
    <3>3. CASE U(r) # u
      <4>1. history'[u] = history[u]
        BY <3>1, <3>3 DEF BalanceTypeOK
      <4>2. QED
        BY <2>2, <3>1, <3>2, <3>3, <4>1
    <3>4. CASE U(r) = u
      <4>0. PICK n \in Nat : n = Len(history[u])
        BY <3>2
      <4>1. /\ Len(history'[u]) = n + 1 /\ history'[u][n + 1] = e
            /\ \A i \in 1 .. n : history'[u][i] = history[u][i]
        BY <3>1, <3>2, <3>4, <4>0 DEF BalanceTypeOK
      <4>2. PICK f : f = [i \in 1 .. (n + 1) |-> IF i = n + 1 THEN r ELSE by[i]]
        OBVIOUS
      <4>3. /\ f \in [1 .. (n + 1) -> Requests] /\ f[n + 1] = r
            /\ \A i \in 1 .. n : f[i] = by[i] /\ i \in 1 .. (n + 1) /\ i \in DOMAIN by
            /\ \A i \in 1 .. (n + 1) : i = n + 1 \/ i \in 1 .. n
        BY <2>1, <4>0, <4>2
      <4>4. \A i \in 1 .. n : by[i] # r
        BY <2>1, <3>1, <4>3 DEF MadeBy
      <4>5. ASSUME NEW i \in 1 .. (n + 1)
            PROVE  /\ U(f[i])' = u /\ pc'[f[i]] \in {"done", "aborted"}
                   /\ history'[u][i].type = Movement(f[i])'
                   /\ history'[u][i].amount = call'[f[i]].amount
        <5>1. CASE i = n + 1
          BY <3>1, <3>2, <3>4, <4>1, <4>3, <5>1 DEF U, Movement
        <5>2. CASE i \in 1 .. n
          <6>1. /\ U(by[i]) = u /\ pc[by[i]] \in {"done", "aborted"}
                /\ history[u][i].type = Movement(by[i])
                /\ history[u][i].amount = call[by[i]].amount
            BY <2>1, <4>3, <5>2 DEF MadeBy
          <6>2. f[i] = by[i] /\ f[i] # r /\ f[i] \in Requests /\ history'[u][i] = history[u][i]
            BY <4>1, <4>3, <4>4, <5>2
          <6>3. QED
            BY <3>1, <3>2, <6>1, <6>2 DEF U, Movement
        <5>3. QED
          BY <4>3, <5>1, <5>2
      <4>6. \A i, j \in 1 .. (n + 1) : f[i] = f[j] => i = j
        BY <2>1, <4>3, <4>4 DEF MadeBy
      <4>7. ASSUME NEW s \in Requests, pc'[s] = "done", U(s)' = u
            PROVE  \E i \in 1 .. (n + 1) : f[i] = s
        <5>1. CASE s = r
          BY <4>3, <5>1
        <5>2. CASE s # r
          <6>1. PICK i \in DOMAIN by : by[i] = s
            BY <2>1, <3>1, <3>2, <4>7, <5>2 DEF MadeBy, U
          <6>2. i \in 1 .. n
            BY <2>1, <4>0
          <6>3. QED
            BY <4>3, <6>1, <6>2
        <5>3. QED
          BY <5>1, <5>2
      <4>8. DOMAIN f = 1 .. (n + 1)
        BY <4>3
      <4>9. MadeBy(u, f)'
        BY <4>5, <4>6, <4>7, <4>8 DEF MadeBy
      <4>10. QED
        BY <4>1, <4>3, <4>9
    <3>5. QED
      BY <3>3, <3>4
  <2>4. CASE UNCHANGED <<db, call>> /\ UNCHANGED pc
    BY <2>2, <2>4 DEF db
  <2>5. ASSUME UNCHANGED <<db, call>>, NEW r \in Requests, NEW a \in Step \ {"done"},
               pc[r] \notin Answered, pc' = [pc EXCEPT ![r] = a]
        PROVE  \E f \in [1 .. Len(history'[u]) -> Requests] : MadeBy(u, f)'
    <3>1. \A s \in Requests : pc'[s] = IF s = r THEN a ELSE pc[s]
      BY <2>5 DEF BalanceTypeOK
    <3>2. QED
      BY <2>2, <2>5, <3>1 DEF db
  <2>6. QED
    BY <2>3, <2>4, <2>5, StepCases
<1>3. QED
  BY <1>1, <1>2, BalanceType, BalanceLocks, PTL DEF BalanceSpec
-----------------------------------------------------------------------------
(***************************************************************************)
(* Cart.                                                                   *)
(***************************************************************************)

CartTypeOK ==
    /\ cart \subseteq Item
    /\ post \in [Adds -> {"none", "reading", "added", "refused"}]
    /\ checkout \in [Adds -> {"none", "requested", "removing", "done", "failed"}]
    /\ removals \in [Adds -> SUBSET Removal]
    /\ order \in [Adds -> SUBSET Item]
    /\ failures \in Nat

\* An item that is, or was, in the cart has been added.
KnownAreAdded ==
    \A id \in Adds :
        id \in InCart \/ (\E a \in Adds : id \in OrderedBy(a)) => post[id] = "added"

\* A checkout removes what it has ordered, and orders what is its user's.
RemovesOrdered == \A a \in Adds : \A x \in removals[a] : x.id \in OrderedBy(a)
OrdersOwn == \A a \in Adds : \A i \in order[a] : By[i.id] = By[a]

\* A checkout reads the cart once, after its POST.
ReadsOnce ==
    \A a \in Adds :
        /\ post[a] # "added" => checkout[a] = "none"
        /\ checkout[a] \in {"none", "requested"} => order[a] = {}

IInv ==
    /\ CartTypeOK /\ KnownAreAdded /\ RemovesOrdered /\ OrdersOwn /\ ReadsOnce
    /\ RemovedIsOrdered /\ OrderedLeaves
-----------------------------------------------------------------------------
LEMMA WithoutIds ==
    ASSUME NEW id
    PROVE  {i.id : i \in Without(id)} = InCart \ {id}
BY DEF Without, InCart

LEMMA UpdatedIds ==
    ASSUME CartTypeOK, NEW i \in cart, NEW q \in PatchTo
    PROVE  Updated(i, q) \subseteq Item /\ {j.id : j \in Updated(i, q)} = InCart
<1>1. i \in Item /\ q \in Nat \ {0}
  BY AddsAssumption DEF CartTypeOK
<1>2. [i EXCEPT !.quantity = q] \in Item /\ [i EXCEPT !.quantity = q].id = i.id
  BY <1>1 DEF Item
<1>3. Updated(i, q) \subseteq Item
  BY <1>2 DEF Updated, Without, CartTypeOK
<1>4. {j.id : j \in Updated(i, q)} = (InCart \ {i.id}) \union {i.id}
  <2>1. PICK j \in Item : j = [i EXCEPT !.quantity = q] /\ j.id = i.id
    BY <1>2
  <2>2. {k.id : k \in Without(i.id) \union {j}} = {k.id : k \in Without(i.id)} \union {i.id}
    BY <2>1
  <2>3. QED
    BY <2>1, <2>2, WithoutIds DEF Updated
<1>5. QED
  BY <1>3, <1>4 DEF InCart

LEMMA FailuresStay ==
    ASSUME CartTypeOK, Works \/ Breaks
    PROVE  failures' \in Nat /\ (failures' = 0 => failures = 0 /\ Works)
BY DEF CartTypeOK, Works, Breaks

LEMMA InitIInv == Init => IInv
BY DEF Init, IInv, CartTypeOK, KnownAreAdded, RemovesOrdered, OrdersOwn, ReadsOnce,
       RemovedIsOrdered, OrderedLeaves, InCart, OrderedBy, Item, Removal

\* Steps that leave the checkouts and the cart alone.
LEMMA CacheStep ==
    ASSUME IInv, UNCHANGED <<cart, deleted, checkout, removals, order, failures>>,
           \/ UNCHANGED post
           \/ \E a \in Adds : post[a] = "none" /\ post' = [post EXCEPT ![a] = "reading"]
    PROVE  IInv'
<1>1. post' \in [Adds -> {"none", "reading", "added", "refused"}]
      /\ \A a \in Adds : (post'[a] = "added") <=> (post[a] = "added")
  BY DEF IInv, CartTypeOK
<1>2. QED
  BY <1>1 DEF IInv, CartTypeOK, KnownAreAdded, RemovesOrdered, OrdersOwn, ReadsOnce,
              RemovedIsOrdered, OrderedLeaves, InCart, OrderedBy

\* A POST adds its item, or none.
LEMMA AddStep == ASSUME IInv, NEW a \in Adds, AddToCart(a) PROVE IInv'
<1> USE DEF IInv
<1>1. NewItem(a) \in Item /\ NewItem(a).id = a
  BY AddsAssumption DEF NewItem, Item
<1>2. /\ post[a] = "reading" /\ checkout[a] = "none" /\ order[a] = {}
      /\ a \notin InCart /\ \A b \in Adds : a \notin OrderedBy(b)
  BY DEF AddToCart, ReadsOnce, KnownAreAdded
<1>3. UNCHANGED <<deleted, removals, order>> /\ failures' \in Nat
      /\ (failures' = 0 => failures = 0)
  BY FailuresStay DEF AddToCart
<1>4. CASE /\ cart' = cart \union {NewItem(a)}
           /\ post' = [post EXCEPT ![a] = "added"]
           /\ checkout' = [checkout EXCEPT ![a] = "requested"] \/ UNCHANGED checkout
  <2>1. InCart' = InCart \union {a}
    BY <1>1, <1>4 DEF InCart
  <2>2. CartTypeOK'
    BY <1>1, <1>3, <1>4 DEF CartTypeOK
  <2>3. \A b \in Adds : OrderedBy(b)' = OrderedBy(b) /\ (b # a => post'[b] = post[b])
        /\ (b # a => checkout'[b] = checkout[b])
    BY <1>3, <1>4 DEF OrderedBy, CartTypeOK
  <2>4. post'[a] = "added" /\ checkout'[a] \in {"none", "requested"}
    BY <1>2, <1>4 DEF CartTypeOK
  <2>5. KnownAreAdded' /\ ReadsOnce'
    BY <1>2, <1>3, <2>1, <2>3, <2>4 DEF KnownAreAdded, ReadsOnce
  <2>6. RemovesOrdered' /\ OrdersOwn'
    BY <1>3, <2>3 DEF RemovesOrdered, OrdersOwn
  <2>7. RemovedIsOrdered'
    BY <1>3, <2>1, <2>3 DEF RemovedIsOrdered
  <2>8. OrderedLeaves'
    BY <1>2, <1>3, <2>1, <2>3 DEF OrderedLeaves
  <2>9. QED
    BY <2>2, <2>5, <2>6, <2>7, <2>8
<1>5. CASE UNCHANGED <<cart, checkout>> /\ post' = [post EXCEPT ![a] = "refused"]
  <2>1. /\ InCart' = InCart
        /\ \A b \in Adds : OrderedBy(b)' = OrderedBy(b) /\ (b # a => post'[b] = post[b])
    BY <1>3, <1>5 DEF InCart, OrderedBy, CartTypeOK
  <2>2. post'[a] = "refused"
    BY <1>5 DEF CartTypeOK
  <2>3. CartTypeOK'
    BY <1>3, <1>5 DEF CartTypeOK
  <2>4. KnownAreAdded' /\ ReadsOnce'
    BY <1>2, <1>3, <1>5, <2>1, <2>2 DEF KnownAreAdded, ReadsOnce
  <2>5. RemovesOrdered' /\ OrdersOwn' /\ RemovedIsOrdered'
    BY <1>3, <2>1, <2>2 DEF RemovesOrdered, OrdersOwn, RemovedIsOrdered
  <2>6. OrderedLeaves'
    BY <1>3, <2>1 DEF OrderedLeaves
  <2>7. QED
    BY <2>3, <2>4, <2>5, <2>6
<1>6. CASE /\ cart' \in {cart, cart \union {NewItem(a)}} /\ UNCHANGED checkout
           /\ post' = [post EXCEPT ![a] = IF a \in {i.id : i \in cart'}
                                          THEN "added" ELSE "refused"]
  <2>1. CASE cart' = cart
    <3>1. a \notin {i.id : i \in cart'}
      BY <1>2, <2>1 DEF InCart
    <3>2. QED
      BY <1>5, <1>6, <2>1, <3>1
  <2>2. CASE cart' = cart \union {NewItem(a)}
    <3>1. a \in {i.id : i \in cart'}
      BY <1>1, <2>2
    <3>2. QED
      BY <1>4, <1>6, <2>2, <3>1
  <2>3. QED
    BY <1>6, <2>1, <2>2
<1>7. QED
  BY <1>4, <1>6 DEF AddToCart

\* A checkout orders what it reads and is about to remove all of it.
LEMMA ReadStep == ASSUME IInv, NEW a \in Adds, ReadCart(a) PROVE IInv'
<1> USE DEF IInv
<1>1. /\ checkout[a] = "requested" /\ order[a] = {} /\ post[a] = "added"
      /\ UNCHANGED <<cart, post, deleted>>
      /\ failures' \in Nat /\ (failures' = 0 => failures = 0)
  BY FailuresStay DEF ReadCart, ReadsOnce
<1>2. InCart' = InCart
  BY <1>1 DEF InCart
<1>3. CASE /\ checkout' = [checkout EXCEPT ![a] = "failed"]
           /\ UNCHANGED <<order, removals>>
  <2>1. CartTypeOK' /\ \A b \in Adds : OrderedBy(b)' = OrderedBy(b)
    BY <1>1, <1>3 DEF CartTypeOK, OrderedBy
  <2>2. ReadsOnce'
    BY <1>1, <1>3 DEF ReadsOnce, CartTypeOK
  <2>3. QED
    BY <1>1, <1>2, <1>3, <2>1, <2>2
       DEF KnownAreAdded, RemovesOrdered, OrdersOwn, RemovedIsOrdered, OrderedLeaves
<1>4. CASE /\ checkout' = [checkout EXCEPT ![a] = "removing"]
           /\ OrderCreated(a, ItemsOf(By[a]))
           /\ removals' = [removals EXCEPT ![a] =
                               {[id |-> i.id, step |-> "find"] : i \in ItemsOf(By[a])}]
  <2>1. order' = [order EXCEPT ![a] = ItemsOf(By[a])] /\ ItemsOf(By[a]) \subseteq cart
        /\ \A i \in ItemsOf(By[a]) : By[i.id] = By[a]
    BY <1>4 DEF OrderCreated, ItemsOf
  <2>2. CartTypeOK'
    BY <1>1, <1>4, <2>1 DEF CartTypeOK, Item, Removal
  <2>3. /\ order'[a] = ItemsOf(By[a])
        /\ \A b \in Adds : b # a => /\ order'[b] = order[b] /\ removals'[b] = removals[b]
                                   /\ checkout'[b] = checkout[b]
        /\ checkout'[a] = "removing"
        /\ removals'[a] = {[id |-> i.id, step |-> "find"] : i \in ItemsOf(By[a])}
    BY <1>4, <2>1 DEF CartTypeOK
  <2>4. /\ \A b \in Adds : b # a => OrderedBy(b)' = OrderedBy(b)
        /\ OrderedBy(a)' = {i.id : i \in ItemsOf(By[a])} /\ OrderedBy(a)' \subseteq InCart
        /\ OrderedBy(a) = {}
    BY <1>1, <2>1, <2>3 DEF OrderedBy, InCart
  <2>5. KnownAreAdded'
    BY <1>1, <1>2, <2>4 DEF KnownAreAdded
  <2>6. RemovesOrdered' /\ OrdersOwn'
    <3>1. \A x \in removals'[a] : x.id \in OrderedBy(a)'
      BY <2>3, <2>4
    <3>2. QED
      BY <3>1, <1>1, <2>1, <2>3, <2>4 DEF RemovesOrdered, OrdersOwn
  <2>7. ReadsOnce'
    BY <1>1, <2>3 DEF ReadsOnce
  <2>8. RemovedIsOrdered'
    BY <1>1, <1>2, <2>4 DEF RemovedIsOrdered
  <2>9. OrderedLeaves'
    <3>1. \A id \in OrderedBy(a)' : \E x \in removals'[a] : x.id = id
      <4>1. ASSUME NEW i \in ItemsOf(By[a]) PROVE \E x \in removals'[a] : x.id = i.id
        <5>1. [id |-> i.id, step |-> "find"] \in removals'[a]
          BY <2>3
        <5>2. QED
          BY <5>1
      <4>2. QED
        BY <4>1, <2>4
    <3>2. ASSUME failures' = 0, NEW b \in Adds, b # a, NEW id \in OrderedBy(b)' \intersect InCart'
          PROVE  \E x \in removals'[b] : x.id = id
      BY <3>2, <1>1, <1>2, <2>3, <2>4 DEF OrderedLeaves
    <3>3. QED
      BY <3>1, <3>2 DEF OrderedLeaves
  <2>10. QED
    BY <2>2, <2>5, <2>6, <2>7, <2>8, <2>9
<1>5. QED
  BY <1>3, <1>4 DEF ReadCart

\* One removal of a checkout goes on: what stays to be removed was so before,
\* and what no longer is has left the cart, unless something failed.
LEMMA RemoveStep ==
    ASSUME IInv, NEW a \in Adds, NEW x \in removals[a], NEW R \in SUBSET Removal,
           removals' = [removals EXCEPT ![a] = R],
           \A y \in R : \E z \in removals[a] : y.id = z.id,
           NEW s \in {"removing", "done", "failed"} \union {checkout[a]},
           checkout' = [checkout EXCEPT ![a] = s],
           cart' \in {cart, Without(x.id)},
           Works \/ Breaks,
           Works => \A y \in removals[a] : y.id \in InCart' => \E z \in R : z.id = y.id,
           UNCHANGED <<post, deleted, order>>
    PROVE  IInv'
<1> USE DEF IInv
<1>1. failures' \in Nat /\ (failures' = 0 => failures = 0 /\ Works)
  BY FailuresStay
<1>2. /\ cart' \subseteq cart /\ InCart' \subseteq InCart
      /\ \A id \in InCart : id # x.id => id \in InCart'
  BY WithoutIds DEF Without, InCart
<1>3. x.id \in OrderedBy(a) /\ x \in Removal
  BY DEF RemovesOrdered, CartTypeOK
<1>4. /\ removals'[a] = R
      /\ \A b \in Adds : b # a => /\ removals'[b] = removals[b]
                                 /\ checkout'[b] = checkout[b]
      /\ \A b \in Adds : OrderedBy(b)' = OrderedBy(b)
  BY DEF CartTypeOK, OrderedBy
<1>5. CartTypeOK'
  BY <1>1, <1>2 DEF CartTypeOK
<1>6. KnownAreAdded' /\ RemovesOrdered' /\ OrdersOwn'
  BY <1>2, <1>4 DEF KnownAreAdded, RemovesOrdered, OrdersOwn
<1>7. ReadsOnce'
  <2>1. order[a] # {} /\ checkout[a] \notin {"none", "requested"}
    BY <1>3 DEF OrderedBy, ReadsOnce
  <2>2. post[a] = "added" /\ checkout'[a] \notin {"none", "requested"}
    BY <2>1 DEF ReadsOnce, CartTypeOK
  <2>3. QED
    BY <2>2, <1>4 DEF ReadsOnce
<1>8. RemovedIsOrdered'
  <2>1. By[x.id] = By[a]
    BY <1>3 DEF OrderedBy, OrdersOwn
  <2>2. QED
    BY <1>2, <1>3, <1>4, <2>1 DEF RemovedIsOrdered
<1>9. OrderedLeaves'
  BY <1>1, <1>2, <1>4 DEF OrderedLeaves
<1>10. QED
  BY <1>5, <1>6, <1>7, <1>8, <1>9

LEMMA RemoveFromCartStep == ASSUME IInv, NEW a \in Adds, RemoveFromCart(a) PROVE IInv'
<1>1. PICK x \in removals[a] : FindItem(a, x) \/ DeleteItem(a, x)
  BY DEF RemoveFromCart
<1>2. removals[a] \subseteq Removal
      /\ UNCHANGED <<post, deleted, order>>
  BY <1>1 DEF IInv, CartTypeOK, FindItem, DeleteItem
<1>3. CASE Rejects(a, x) /\ (Works => x.id \notin InCart') /\ cart' \in {cart, Without(x.id)}
           /\ (Works \/ Breaks)
  <2>1. /\ removals' = [removals EXCEPT ![a] = removals[a] \ {x}]
        /\ checkout' = [checkout EXCEPT ![a] = "failed"]
    BY <1>3 DEF Rejects
  <2>2. "failed" \in {"removing", "done", "failed"} \union {checkout[a]}
    OBVIOUS
  <2>3. PICK R \in SUBSET Removal : R = removals[a] \ {x}
    BY <1>2
  <2>4. \A y \in R : \E z \in removals[a] : y.id = z.id
    BY <2>3
  <2>5. Works => \A y \in removals[a] : y.id \in InCart' => \E z \in R : z.id = y.id
    BY <1>3, <2>3
  <2>6. removals' = [removals EXCEPT ![a] = R]
    BY <2>1, <2>3
  <2>7. QED
    BY <1>2, <1>3, <2>1, <2>2, <2>4, <2>5, <2>6, RemoveStep
<1>4. CASE FindItem(a, x)
  <2>1. CASE x.id \in InCart /\ Works /\ UNCHANGED checkout
             /\ removals' = [removals EXCEPT ![a] =
                               (removals[a] \ {x}) \union {[x EXCEPT !.step = "delete"]}]
    <3>1. PICK y \in Removal : y = [x EXCEPT !.step = "delete"] /\ y.id = x.id
      <4>1. x \in Removal
        BY <1>2
      <4>2. [x EXCEPT !.step = "delete"] \in Removal /\ [x EXCEPT !.step = "delete"].id = x.id
        BY <4>1 DEF Removal
      <4>3. QED
        BY <4>2
    <3>2. UNCHANGED cart
      BY <1>4 DEF FindItem
    <3>3. PICK R \in SUBSET Removal : R = (removals[a] \ {x}) \union {y}
      BY <1>2
    <3>4. removals' = [removals EXCEPT ![a] = R]
      BY <2>1, <3>1, <3>3
    <3>5. /\ \A z \in R : \E w \in removals[a] : z.id = w.id
          /\ \A z \in removals[a] : \E w \in R : w.id = z.id
      BY <3>1, <3>3
    <3>6. PICK s \in {"removing", "done", "failed"} \union {checkout[a]} :
            checkout' = [checkout EXCEPT ![a] = s]
      BY <2>1 DEF IInv, CartTypeOK
    <3>7. cart' \in {cart, Without(x.id)}
          /\ (Works => \A z \in removals[a] : z.id \in InCart' => \E w \in R : w.id = z.id)
      BY <3>2, <3>5
    <3>8. \A z \in R : \E w \in removals[a] : z.id = w.id
      BY <3>5
    <3>9. Works \/ Breaks
      BY <2>1
    <3>10. QED
      BY <1>2, <3>4, <3>6, <3>7, <3>8, <3>9, RemoveStep
  <2>2. CASE ((x.id \notin InCart /\ Works) \/ Breaks) /\ Rejects(a, x)
    <3>1. UNCHANGED cart /\ InCart' = InCart
      BY <1>4 DEF FindItem, InCart
    <3>2. ~(Works /\ Breaks)
      BY DEF IInv, CartTypeOK, Works, Breaks
    <3>3. QED
      BY <1>3, <2>2, <3>1, <3>2
  <2>3. QED
    BY <1>4, <2>1, <2>2 DEF FindItem
<1>5. CASE DeleteItem(a, x)
  <2>1. CASE /\ x.id \in InCart /\ Works /\ cart' = Without(x.id)
             /\ removals' = [removals EXCEPT ![a] = removals[a] \ {x}]
             /\ checkout' = [checkout EXCEPT ![a] =
                   IF checkout[a] = "removing" /\ removals[a] = {x} THEN "done" ELSE checkout[a]]
    <3>1. x.id \notin InCart'
      BY <2>1, WithoutIds DEF InCart
    <3>2. PICK s \in {"removing", "done", "failed"} \union {checkout[a]} :
            checkout' = [checkout EXCEPT ![a] = s]
      BY <2>1
    <3>3. PICK R \in SUBSET Removal : R = removals[a] \ {x}
      BY <1>2
    <3>4. \A y \in R : \E z \in removals[a] : y.id = z.id
      BY <3>3
    <3>5. Works => \A y \in removals[a] : y.id \in InCart' => \E z \in R : z.id = y.id
      BY <3>1, <3>3
    <3>6. removals' = [removals EXCEPT ![a] = R]
      BY <2>1, <3>3
    <3>7. cart' \in {cart, Without(x.id)} /\ (Works \/ Breaks)
      BY <2>1
    <3>8. QED
      BY <1>2, <3>2, <3>4, <3>5, <3>6, <3>7, RemoveStep
  <2>2. CASE x.id \notin InCart /\ Works /\ Rejects(a, x) /\ UNCHANGED cart
    <3>1. InCart' = InCart
      BY <2>2 DEF InCart
    <3>2. QED
      BY <1>3, <2>2, <3>1
  <2>3. CASE Breaks /\ Rejects(a, x) /\ cart' \in {cart, Without(x.id)}
    <3>1. ~(Works /\ Breaks)
      BY DEF IInv, CartTypeOK, Works, Breaks
    <3>2. QED
      BY <1>3, <2>3, <3>1
  <2>4. QED
    BY <1>5, <2>1, <2>2, <2>3 DEF DeleteItem
<1>6. QED
  BY <1>1, <1>4, <1>5

\* DELETE and PATCH take away an item of its user, or keep it.
LEMMA UserStep ==
    ASSUME IInv, NEW u \in Shoppers, NEW i \in cart,
           DeleteByUser(u, i) \/ \E q \in PatchTo : UpdateQuantity(u, i, q)
    PROVE  IInv'
<1> USE DEF IInv
<1>1. CASE DeleteByUser(u, i)
  <2>1. cart' = Without(i.id) /\ deleted' = deleted \union {<<i.id, u>>} /\ By[i.id] = u
        /\ UNCHANGED <<post, checkout, removals, order, failures>>
    BY <1>1 DEF DeleteByUser
  <2>2. InCart' = InCart \ {i.id} /\ cart' \subseteq cart
    BY <2>1, WithoutIds DEF InCart, Without
  <2>3. \A b \in Adds : OrderedBy(b)' = OrderedBy(b)
    BY <2>1 DEF OrderedBy
  <2>4. CartTypeOK'
    BY <2>1, <2>2 DEF CartTypeOK
  <2>5. RemovedIsOrdered'
    BY <2>1, <2>2, <2>3 DEF RemovedIsOrdered
  <2>6. QED
    BY <2>1, <2>2, <2>3, <2>4, <2>5
       DEF KnownAreAdded, RemovesOrdered, OrdersOwn, ReadsOnce, OrderedLeaves
<1>2. ASSUME NEW q \in PatchTo, UpdateQuantity(u, i, q) PROVE IInv'
  <2>1. cart' = Updated(i, q)
        /\ UNCHANGED <<post, deleted, checkout, removals, order, failures>>
    BY <1>2 DEF UpdateQuantity
  <2>2. InCart' = InCart /\ cart' \subseteq Item
    BY <2>1, UpdatedIds DEF InCart
  <2>3. \A b \in Adds : OrderedBy(b)' = OrderedBy(b)
    BY <2>1 DEF OrderedBy
  <2>4. CartTypeOK'
    BY <2>1, <2>2 DEF CartTypeOK
  <2>5. QED
    BY <2>1, <2>2, <2>3, <2>4
       DEF KnownAreAdded, RemovesOrdered, OrdersOwn, ReadsOnce, RemovedIsOrdered, OrderedLeaves
<1>3. QED
  BY <1>1, <1>2

\* A crash forgets the checkouts; the cart and the orders stay.
LEMMA CrashStep == IInv /\ Crash => IInv'
<1> SUFFICES ASSUME IInv, Crash PROVE IInv'
  OBVIOUS
<1> USE DEF IInv
<1>1. /\ failures' \in Nat /\ failures' # 0
      /\ removals' = [a \in Adds |-> {}] /\ UNCHANGED <<cart, deleted, order>>
      /\ post' = [a \in Adds |-> IF post[a] = "reading" THEN "refused" ELSE post[a]]
      /\ checkout' = [a \in Adds |-> IF checkout[a] \in {"requested", "removing"}
                                     THEN "failed" ELSE checkout[a]]
  BY DEF Crash, Breaks, CartTypeOK
<1>2. CartTypeOK'
  BY <1>1 DEF CartTypeOK
<1>3. /\ InCart' = InCart /\ \A a \in Adds : OrderedBy(a)' = OrderedBy(a)
      /\ \A a \in Adds : (post'[a] = "added") <=> (post[a] = "added")
      /\ \A a \in Adds : checkout'[a] \in {"none", "requested"} => checkout'[a] = checkout[a]
      /\ \A a \in Adds : checkout[a] = "none" => checkout'[a] = "none"
  BY <1>1 DEF InCart, OrderedBy
<1>4. QED
  BY <1>1, <1>2, <1>3
     DEF KnownAreAdded, RemovesOrdered, OrdersOwn, ReadsOnce, RemovedIsOrdered, OrderedLeaves

LEMMA NextIInv == IInv /\ [Next]_vars => IInv'
<1> SUFFICES ASSUME IInv, [Next]_vars PROVE IInv'
  OBVIOUS
<1>1. ASSUME NEW a \in Adds, PostItem(a) PROVE IInv'
  BY <1>1, CacheStep DEF PostItem
<1>2. ASSUME NEW a \in Adds, Progress(a) PROVE IInv'
  <2>1. CASE ReadProduct(a)
    BY <2>1, CacheStep DEF ReadProduct, cartVars
  <2>2. QED
    BY <1>2, <2>1, AddStep, ReadStep, RemoveFromCartStep DEF Progress
<1>3. ASSUME NEW c \in Browsers, Browse(c) PROVE IInv'
  BY <1>3, CacheStep DEF Browse, cartVars
<1>4. CASE UNCHANGED cartVars
  BY <1>4, CacheStep DEF cartVars
<1>5. CASE UNCHANGED vars
  BY <1>5, <1>4 DEF vars
<1>6. QED
  BY <1>1, <1>2, <1>3, <1>4, <1>5, UserStep, CrashStep DEF Next

LEMMA IInvAlways == Spec => []IInv
BY InitIInv, NextIInv, PTL DEF Spec

-----------------------------------------------------------------------------
(***************************************************************************)
(* The cache: every value cached, or on its way to a caller, is no more    *)
(* than the product had at a time that is not too long ago.                *)
(***************************************************************************)
ProductTypeOK ==
    /\ stock \in [Products -> 0 .. MaxStock]
    /\ peak \in [Products -> [0 .. MaxTime -> 0 .. MaxStock]]
    /\ changes \in 0 .. MaxChanges /\ now \in 0 .. MaxTime
    /\ \A p \in Products : stock[p] <= peak[p][now]

\* At some time in from .. to there was what d says of each product.
WasSo(d, ps, from, to) ==
    \A p \in ps : \E t \in 0 .. to : t >= from /\ peak[p][t] >= d[p]

EntryOK(k) ==
    \/ cache[k] = NoEntry
    \/ /\ cache[k].until \in Nat /\ cache[k].data \in [Shows[k] -> 0 .. MaxStock]
       /\ WasSo(cache[k].data, Shows[k], cache[k].until - Ttl[k] - slowest, now)

ReaderOK(c) ==
    /\ since[c] \in 0 .. now
    /\ reader[c] \in {"set", "answered"} => got[c] \in [Shows[key[c]] -> 0 .. MaxStock]
    /\ reader[c] = "set" => WasSo(got[c], Shows[key[c]], since[c], since[c])
    /\ reader[c] = "answered" =>
          WasSo(got[c], Shows[key[c]], since[c] - Ttl[key[c]] - slowest, since[c])

CallsTypeOK ==
    /\ cache \in [Keys -> Entry \union {NoEntry}]
    /\ reader \in [Readers -> {"none", "fetch", "set", "answered"}]
    /\ key \in [Readers -> Keys]
    /\ got \in [Readers -> Data \union {Nothing}]
    /\ since \in [Readers -> Nat] /\ slowest \in Nat

CacheInv ==
    /\ ProductTypeOK /\ CallsTypeOK
    /\ \A k \in Keys : EntryOK(k)
    /\ \A c \in Readers : ReaderOK(c)

LEMMA MaxOfTwo ==
    ASSUME NEW a \in Int, NEW b \in Int
    PROVE  /\ Max({a, b}) \in {a, b}
           /\ Max({a, b}) >= a /\ Max({a, b}) >= b
<1>1. \E x \in {a, b} : \A y \in {a, b} : x >= y
  <2>1. CASE a >= b
    BY <2>1
  <2>2. CASE b >= a
    BY <2>2
  <2>3. QED
    BY <2>1, <2>2
<1>2. Max({a, b}) \in {a, b} /\ \A y \in {a, b} : Max({a, b}) >= y
  BY <1>1, Zenon DEF Max
<1>3. QED
  BY <1>2

LEMMA DataOfKey ==
    ASSUME NEW k \in Keys, NEW d \in [Shows[k] -> 0 .. MaxStock]
    PROVE  d \in Data /\ Shows[k] \subseteq Products /\ Ttl[k] \in Nat \ {0}
BY KeysAssumption DEF Data

\* What was so stays so: the past only ever turns out to have had more.
LEMMA PastStays ==
    ASSUME CacheInv, ProductTypeOK', slowest' \in Nat, slowest' >= slowest, now' >= now,
           \A p \in Products : \A t \in 0 .. now : peak'[p][t] >= peak[p][t]
    PROVE  /\ \A k \in Keys : cache'[k] = cache[k] => EntryOK(k)'
           /\ \A c \in Readers :
                 /\ reader'[c] = reader[c] /\ key'[c] = key[c]
                 /\ got'[c] = got[c] /\ since'[c] = since[c]
                 => ReaderOK(c)'
<1>0. /\ now \in 0 .. MaxTime /\ now' \in 0 .. MaxTime /\ MaxTime \in Nat /\ MaxStock \in Nat
      /\ peak \in [Products -> [0 .. MaxTime -> 0 .. MaxStock]]
      /\ peak' \in [Products -> [0 .. MaxTime -> 0 .. MaxStock]]
  BY StockAssumption DEF CacheInv, ProductTypeOK
<1>1. ASSUME NEW k \in Keys, NEW d \in [Shows[k] -> 0 .. MaxStock], NEW from \in Int,
             NEW from2 \in Int, from2 <= from, NEW to \in 0 .. now, NEW to2 \in to .. now',
             WasSo(d, Shows[k], from, to)
      PROVE  WasSo(d, Shows[k], from2, to2)'
  <2> SUFFICES ASSUME NEW p \in Shows[k]
               PROVE  \E t \in 0 .. to2 : t >= from2 /\ peak'[p][t] >= d[p]
    BY DEF WasSo
  <2>1. PICK t \in 0 .. to : t >= from /\ peak[p][t] >= d[p]
    BY <1>1 DEF WasSo
  <2>2. p \in Products /\ d[p] \in 0 .. MaxStock
    BY DataOfKey
  <2>3. t \in 0 .. now /\ t \in 0 .. MaxTime /\ t \in 0 .. to2 /\ t >= from2
    BY <1>0, <1>1, <2>1
  <2>4. /\ peak[p][t] \in 0 .. MaxStock /\ peak'[p][t] \in 0 .. MaxStock
        /\ peak'[p][t] >= peak[p][t]
    BY <1>0, <2>2, <2>3
  <2>5. QED
    BY <1>0, <2>1, <2>2, <2>3, <2>4
<1>2. now \in Nat /\ now' \in Nat /\ slowest \in Nat
  BY <1>0 DEF CacheInv, CallsTypeOK
<1>3. ASSUME NEW k \in Keys, cache'[k] = cache[k] PROVE EntryOK(k)'
  <2>1. CASE cache[k] = NoEntry
    BY <1>3, <2>1 DEF EntryOK
  <2>2. CASE cache[k] # NoEntry
    <3>1. /\ cache[k].until \in Nat /\ cache[k].data \in [Shows[k] -> 0 .. MaxStock]
          /\ WasSo(cache[k].data, Shows[k], cache[k].until - Ttl[k] - slowest, now)
      BY <2>2 DEF CacheInv, EntryOK
    <3>2. Ttl[k] \in Nat
      BY KeysAssumption
    <3>3. PICK from \in Int, from2 \in Int :
            /\ from = cache[k].until - Ttl[k] - slowest
            /\ from2 = cache[k].until - Ttl[k] - slowest' /\ from2 <= from
      BY <1>2, <3>1, <3>2
    <3>4. PICK d \in [Shows[k] -> 0 .. MaxStock] : d = cache[k].data
      BY <3>1
    <3>5. PICK to2 \in now .. now' : to2 = now'
      BY <1>2
    <3>6. now \in 0 .. now
      BY <1>2
    <3>7. WasSo(d, Shows[k], from2, to2)'
      BY <1>1, <3>1, <3>3, <3>4, <3>5, <3>6
    <3>8. QED
      BY <1>3, <3>1, <3>3, <3>4, <3>5, <3>7 DEF EntryOK, WasSo
  <2>3. QED
    BY <2>1, <2>2
<1>4. ASSUME NEW c \in Readers, reader'[c] = reader[c], key'[c] = key[c],
             got'[c] = got[c], since'[c] = since[c]
      PROVE  ReaderOK(c)'
  <2>1. ReaderOK(c) /\ key[c] \in Keys /\ Ttl[key[c]] \in Nat
    BY KeysAssumption DEF CacheInv, CallsTypeOK
  <2>2. PICK s \in 0 .. now : s = since[c] /\ s \in 0 .. now' /\ s \in s .. now'
    BY <1>2, <2>1 DEF ReaderOK
  <2>3. ASSUME reader[c] \in {"set", "answered"} PROVE got[c] \in [Shows[key[c]] -> 0 .. MaxStock]
    BY <2>1, <2>3 DEF ReaderOK
  <2>4. ASSUME reader[c] = "set" PROVE WasSo(got[c], Shows[key[c]], s, s)'
    <3>0. PICK k \in Keys : k = key[c]
      BY <2>1
    <3>1. PICK d \in [Shows[k] -> 0 .. MaxStock] : d = got[c]
      BY <2>3, <2>4, <3>0
    <3>2. WasSo(d, Shows[k], s, s)
      BY <2>1, <2>2, <2>4, <3>0, <3>1 DEF ReaderOK
    <3>3. s \in Int /\ s <= s
      BY <2>2
    <3>4. WasSo(d, Shows[k], s, s)'
      BY <1>1, <2>2, <3>2, <3>3
    <3>5. QED
      BY <1>4, <3>0, <3>1, <3>4 DEF WasSo
  <2>5. ASSUME reader[c] = "answered"
        PROVE  WasSo(got[c], Shows[key[c]], s - Ttl[key[c]] - slowest, s)'
    <3>0. PICK k \in Keys : k = key[c]
      BY <2>1
    <3>1. PICK d \in [Shows[k] -> 0 .. MaxStock] : d = got[c]
      BY <2>3, <2>5, <3>0
    <3>2. PICK from \in Int, from2 \in Int :
            from = s - Ttl[k] - slowest /\ from2 = s - Ttl[k] - slowest' /\ from2 <= from
      BY <1>2, <2>1, <2>2, <3>0
    <3>3. WasSo(d, Shows[k], from, s)
      BY <2>1, <2>2, <2>5, <3>0, <3>1, <3>2 DEF ReaderOK
    <3>4. WasSo(d, Shows[k], from2, s)'
      BY <1>1, <2>2, <3>2, <3>3
    <3>5. QED
      BY <1>4, <3>0, <3>1, <3>2, <3>4 DEF WasSo
  <2>6. QED
    BY <1>4, <2>2, <2>3, <2>4, <2>5 DEF ReaderOK, WasSo
<1>5. QED
  BY <1>3, <1>4

\* A step of one call; the products and the clock stay.
LEMMA CallStep ==
    ASSUME CacheInv, NEW c \in Readers,
           UNCHANGED <<stock, changes, peak, now>>,
           slowest' \in Nat, slowest' >= slowest, CallsTypeOK',
           \A b \in Readers : b # c =>
              /\ reader'[b] = reader[b] /\ key'[b] = key[b]
              /\ got'[b] = got[b] /\ since'[b] = since[b],
           ReaderOK(c)',
           \A k \in Keys : cache'[k] = cache[k] \/ EntryOK(k)'
    PROVE  CacheInv'
<1>1. ProductTypeOK' /\ now' >= now
      /\ \A p \in Products : \A t \in 0 .. now : peak'[p][t] >= peak[p][t]
  <2>1. \A p \in Products : \A t \in 0 .. now : t \in 0 .. MaxTime
    BY StockAssumption DEF CacheInv, ProductTypeOK
  <2>2. QED
    BY <2>1, StockAssumption DEF CacheInv, ProductTypeOK
<1>2. QED
  BY <1>1, PastStays DEF CacheInv

LEMMA AskStep == ASSUME CacheInv, NEW c \in Readers, NEW k \in Keys, Ask(c, k) PROVE CacheInv'
<1>1. /\ UNCHANGED <<stock, changes, peak, now, cache, slowest>>
      /\ key' = [key EXCEPT ![c] = k] /\ slowest \in Nat /\ now \in Nat /\ since[c] \in 0 .. now
      /\ CallsTypeOK
  BY StockAssumption DEF Ask, CacheInv, CallsTypeOK, ProductTypeOK, ReaderOK
<1>2. CASE /\ Valid(k) /\ ReaderGoes(c, "none", "answered")
           /\ got' = [got EXCEPT ![c] = cache[k].data]
           /\ since' = [since EXCEPT ![c] = now]
  <2>1. /\ cache[k].until \in Nat /\ cache[k].data \in [Shows[k] -> 0 .. MaxStock]
        /\ WasSo(cache[k].data, Shows[k], cache[k].until - Ttl[k] - slowest, now)
        /\ now <= cache[k].until
    BY <1>2 DEF CacheInv, EntryOK, Valid
  <2>2. CallsTypeOK'
    BY <1>1, <1>2, <2>1, DataOfKey DEF CallsTypeOK, ReaderGoes
  <2>3. /\ reader'[c] = "answered" /\ key'[c] = k /\ got'[c] = cache[k].data /\ since'[c] = now
        /\ \A b \in Readers : b # c =>
              /\ reader'[b] = reader[b] /\ key'[b] = key[b]
              /\ got'[b] = got[b] /\ since'[b] = since[b]
    BY <1>1, <1>2 DEF CallsTypeOK, ReaderGoes
  <2>4. WasSo(cache[k].data, Shows[k], now - Ttl[k] - slowest, now)
    <3>1. Ttl[k] \in Nat /\ cache[k].until - Ttl[k] - slowest >= now - Ttl[k] - slowest
      BY <1>1, <2>1, KeysAssumption
    <3>2. QED
      BY <1>1, <2>1, <3>1 DEF WasSo
  <2>5. ReaderOK(c)'
    BY <1>1, <2>1, <2>3, <2>4 DEF ReaderOK, WasSo
  <2>6. QED
    BY <1>1, <2>2, <2>3, <2>5, CallStep
<1>3. CASE ReaderGoes(c, "none", "fetch") /\ UNCHANGED <<got, since>>
  <2>1. CallsTypeOK'
    BY <1>1, <1>3 DEF CallsTypeOK, ReaderGoes
  <2>2. /\ reader'[c] = "fetch" /\ since'[c] \in 0 .. now'
        /\ \A b \in Readers : b # c =>
              /\ reader'[b] = reader[b] /\ key'[b] = key[b]
              /\ got'[b] = got[b] /\ since'[b] = since[b]
    BY <1>1, <1>3 DEF CallsTypeOK, ReaderGoes
  <2>3. ReaderOK(c)'
    BY <2>2 DEF ReaderOK
  <2>4. QED
    BY <1>1, <2>1, <2>2, <2>3, CallStep
<1>4. QED
  BY <1>2, <1>3 DEF Ask

LEMMA FetchStep == ASSUME CacheInv, NEW c \in Readers, Fetch(c) PROVE CacheInv'
<1>1. /\ UNCHANGED <<stock, changes, peak, now, cache, key, slowest>>
      /\ reader' = [reader EXCEPT ![c] = "set"]
      /\ got' = [got EXCEPT ![c] = [p \in Shows[key[c]] |-> stock[p]]]
      /\ since' = [since EXCEPT ![c] = now]
      /\ slowest \in Nat /\ now \in Nat /\ now \in 0 .. MaxTime /\ key[c] \in Keys /\ CallsTypeOK
  BY StockAssumption DEF Fetch, ReaderGoes, CacheInv, CallsTypeOK, ProductTypeOK
<1>2. [p \in Shows[key[c]] |-> stock[p]] \in [Shows[key[c]] -> 0 .. MaxStock]
      /\ [p \in Shows[key[c]] |-> stock[p]] \in Data /\ Shows[key[c]] \subseteq Products
  <2>1. Shows[key[c]] \subseteq Products
    BY <1>1, KeysAssumption
  <2>2. [p \in Shows[key[c]] |-> stock[p]] \in [Shows[key[c]] -> 0 .. MaxStock]
    BY <2>1 DEF CacheInv, ProductTypeOK
  <2>3. QED
    BY <1>1, <2>1, <2>2, DataOfKey
<1>3. CallsTypeOK'
  BY <1>1, <1>2 DEF CallsTypeOK
<1>4. /\ reader'[c] = "set" /\ key'[c] = key[c] /\ since'[c] = now
      /\ got'[c] = [p \in Shows[key[c]] |-> stock[p]]
      /\ \A b \in Readers : b # c =>
            /\ reader'[b] = reader[b] /\ key'[b] = key[b]
            /\ got'[b] = got[b] /\ since'[b] = since[b]
  BY <1>1 DEF CallsTypeOK
<1>5. WasSo([p \in Shows[key[c]] |-> stock[p]], Shows[key[c]], now, now)
  <2>1. \A p \in Shows[key[c]] : peak[p][now] >= stock[p]
    BY <1>1, <1>2 DEF CacheInv, ProductTypeOK
  <2>2. now \in 0 .. now /\ now >= now
    BY <1>1
  <2>3. QED
    BY <2>1, <2>2 DEF WasSo
<1>6. ReaderOK(c)'
  BY <1>1, <1>2, <1>4, <1>5 DEF ReaderOK, WasSo
<1>7. QED
  BY <1>1, <1>3, <1>4, <1>6, CallStep

\* The value is set, and the caller keeps it or leaves.
LEMMA SetStep ==
    ASSUME CacheInv, NEW c \in Readers, Set(c), Keep(c) \/ Leave(c, "set")
    PROVE  CacheInv'
<1>0. PICK k \in Keys : k = key[c]
  BY DEF CacheInv, CallsTypeOK
<1> DEFINE e == [data |-> got[c], until |-> now + Ttl[k]]
<1>1. /\ UNCHANGED <<stock, changes, peak, now, key>> /\ reader[c] = "set"
      /\ cache' = [cache EXCEPT ![k] = e]
      /\ slowest' = Max({slowest, now - since[c]})
      /\ slowest \in Nat /\ now \in Nat /\ k = key[c] /\ since[c] \in 0 .. now
      /\ got[c] \in [Shows[k] -> 0 .. MaxStock] /\ CallsTypeOK
      /\ WasSo(got[c], Shows[k], since[c], since[c])
  BY <1>0, StockAssumption
     DEF Set, Keep, Leave, ReaderGoes, CacheInv, CallsTypeOK, ProductTypeOK, ReaderOK
<1>2. Ttl[k] \in Nat /\ got[c] \in Data /\ Shows[k] \subseteq Products /\ e \in Entry
  BY <1>1, DataOfKey DEF Entry
<1>3. slowest' \in Nat /\ slowest' >= slowest /\ slowest' >= now - since[c]
  <2>1. now - since[c] \in Int /\ slowest \in Int
    BY <1>1
  <2>2. Max({slowest, now - since[c]}) \in {slowest, now - since[c]}
        /\ Max({slowest, now - since[c]}) >= slowest
        /\ Max({slowest, now - since[c]}) >= now - since[c]
    BY <2>1, MaxOfTwo
  <2>3. QED
    BY <1>1, <2>1, <2>2
<1>4. ASSUME NEW p \in Shows[k]
      PROVE  \E t \in 0 .. now : /\ t >= now - Ttl[k] - slowest'
                                 /\ t >= now + Ttl[k] - Ttl[k] - slowest'
                                 /\ peak[p][t] >= got[c][p]
  <2>1. PICK t \in 0 .. since[c] : t >= since[c] /\ peak[p][t] >= got[c][p]
    BY <1>1, <1>4 DEF WasSo
  <2>2. QED
    BY <1>1, <1>2, <1>3, <2>1
<1>5. EntryOK(k)' /\ \A j \in Keys : j # k => cache'[j] = cache[j]
  <2>1. cache'[k] = e /\ e.data = got[c] /\ e.until = now + Ttl[k] /\ e.until \in Nat
    BY <1>1, <1>2 DEF CallsTypeOK
  <2>2. WasSo(e.data, Shows[k], e.until - Ttl[k] - slowest', now)
    <3>1. e.until - Ttl[k] - slowest' = now + Ttl[k] - Ttl[k] - slowest'
      BY <1>1, <1>2, <1>3
    <3>2. WasSo(got[c], Shows[k], now + Ttl[k] - Ttl[k] - slowest', now)
      BY <1>4 DEF WasSo
    <3>3. QED
      BY <2>1, <3>1, <3>2
  <2>3. EntryOK(k)'
    BY <1>1, <2>1, <2>2 DEF EntryOK, WasSo
  <2>4. QED
    BY <1>1, <2>3 DEF CallsTypeOK
<1>6. CASE Keep(c)
  <2>1. /\ reader' = [reader EXCEPT ![c] = "answered"]
        /\ since' = [since EXCEPT ![c] = now] /\ UNCHANGED got
    BY <1>6 DEF Keep, ReaderGoes
  <2>2. CallsTypeOK'
    BY <1>1, <1>2, <1>3, <2>1 DEF CallsTypeOK
  <2>3. /\ reader'[c] = "answered" /\ since'[c] = now
        /\ \A b \in Readers : b # c => reader'[b] = reader[b] /\ since'[b] = since[b]
    BY <1>1, <2>1 DEF CallsTypeOK
  <2>4. WasSo(got[c], Shows[k], now - Ttl[k] - slowest', now)
    BY <1>4 DEF WasSo
  <2>5. key'[c] = k /\ got'[c] = got[c] /\ now' = now /\ peak' = peak /\ now \in 0 .. now
    BY <1>1, <2>1
  <2>6. ReaderOK(c)'
    BY <1>1, <2>3, <2>4, <2>5 DEF ReaderOK, WasSo
  <2>7. QED
    BY <1>1, <1>3, <1>5, <2>1, <2>2, <2>3, <2>6, CallStep
<1>7. CASE Leave(c, "set")
  <2>1. /\ reader' = [reader EXCEPT ![c] = "none"]
        /\ since' = [since EXCEPT ![c] = 0] /\ got' = [got EXCEPT ![c] = Nothing]
    BY <1>7 DEF Leave, ReaderGoes
  <2>2. CallsTypeOK'
    BY <1>1, <1>2, <1>3, <2>1 DEF CallsTypeOK
  <2>3. /\ reader'[c] = "none" /\ since'[c] = 0
        /\ \A b \in Readers : b # c => /\ reader'[b] = reader[b] /\ since'[b] = since[b]
                                      /\ got'[b] = got[b]
    BY <1>1, <2>1 DEF CallsTypeOK
  <2>4. ReaderOK(c)'
    BY <1>1, <2>3 DEF ReaderOK
  <2>5. QED
    BY <1>1, <1>3, <1>5, <2>2, <2>3, <2>4, CallStep
<1>8. QED
  BY <1>6, <1>7

\* A caller is done with its answer.
LEMMA LeaveStep ==
    ASSUME CacheInv, NEW c \in Readers, Leave(c, "answered"),
           UNCHANGED <<stock, changes, peak, now, cache, key, slowest>>
    PROVE  CacheInv'
<1>1. /\ reader' = [reader EXCEPT ![c] = "none"]
      /\ since' = [since EXCEPT ![c] = 0] /\ got' = [got EXCEPT ![c] = Nothing]
      /\ slowest \in Nat /\ now \in Nat /\ CallsTypeOK
  BY StockAssumption DEF Leave, ReaderGoes, CacheInv, CallsTypeOK, ProductTypeOK
<1>2. CallsTypeOK'
  BY <1>1 DEF CallsTypeOK
<1>3. /\ reader'[c] = "none" /\ since'[c] = 0
      /\ \A b \in Readers : b # c => /\ reader'[b] = reader[b] /\ since'[b] = since[b]
                                    /\ got'[b] = got[b]
  BY <1>1 DEF CallsTypeOK
<1>4. ReaderOK(c)'
  BY <1>1, <1>3 DEF ReaderOK
<1>5. QED
  BY <1>1, <1>2, <1>3, <1>4, CallStep

\* The stock changes, or time passes.
LEMMA EnvironmentStep == CacheInv /\ Environment => CacheInv'
<1> SUFFICES ASSUME CacheInv, Environment PROVE CacheInv'
  OBVIOUS
<1> USE StockAssumption
<1>1. ASSUME UNCHANGED <<cache, reader, key, got, since, slowest>>, ProductTypeOK', now' >= now,
             \A p \in Products : \A t \in 0 .. now : peak'[p][t] >= peak[p][t]
      PROVE  CacheInv'
  <2>1. slowest' \in Nat /\ slowest' >= slowest /\ CallsTypeOK'
    BY <1>1 DEF CacheInv, CallsTypeOK
  <2>2. QED
    BY <1>1, <2>1, PastStays DEF CacheInv
<1>2. /\ stock \in [Products -> 0 .. MaxStock]
      /\ peak \in [Products -> [0 .. MaxTime -> 0 .. MaxStock]]
      /\ changes \in 0 .. MaxChanges /\ now \in 0 .. MaxTime
      /\ \A p \in Products : stock[p] <= peak[p][now]
  BY DEF CacheInv, ProductTypeOK
<1>3. CASE Tick
  <2>1. now' = now + 1 /\ now' \in 0 .. MaxTime /\ UNCHANGED <<stock, changes>>
        /\ peak' = [p \in Products |-> [peak[p] EXCEPT ![now + 1] = stock[p]]]
    BY <1>2, <1>3 DEF Tick
  <2>2. \A p \in Products : /\ peak'[p] \in [0 .. MaxTime -> 0 .. MaxStock]
                            /\ peak'[p][now'] = stock[p]
                            /\ \A t \in 0 .. now : peak'[p][t] = peak[p][t]
    BY <1>2, <2>1
  <2>3. ProductTypeOK'
    BY <1>2, <2>1, <2>2 DEF ProductTypeOK
  <2>4. \A p \in Products : \A t \in 0 .. now : peak'[p][t] >= peak[p][t]
    BY <1>2, <2>2
  <2>5. QED
    BY <1>1, <1>2, <1>3, <2>1, <2>3, <2>4 DEF Tick
<1>4. ASSUME NEW p \in Products, NEW n \in 0 .. MaxStock, ChangeStock(p, n) PROVE CacheInv'
  <2>1. /\ UNCHANGED <<now, cache, reader, key, got, since, slowest>>
        /\ stock' = [stock EXCEPT ![p] = n] /\ changes' \in 0 .. MaxChanges
        /\ peak' = [peak EXCEPT ![p] = [peak[p] EXCEPT ![now] = Max({peak[p][now], n})]]
    BY <1>2, <1>4 DEF ChangeStock
  <2>2. /\ Max({peak[p][now], n}) \in 0 .. MaxStock
        /\ Max({peak[p][now], n}) >= n /\ Max({peak[p][now], n}) >= peak[p][now]
    <3>1. peak[p][now] \in 0 .. MaxStock /\ peak[p][now] \in Int /\ n \in Int
      BY <1>2
    <3>2. Max({peak[p][now], n}) \in {peak[p][now], n}
          /\ Max({peak[p][now], n}) >= n /\ Max({peak[p][now], n}) >= peak[p][now]
      BY <3>1, MaxOfTwo
    <3>3. QED
      BY <3>1, <3>2
  <2>3. /\ \A q \in Products : q # p => peak'[q] = peak[q] /\ stock'[q] = stock[q]
        /\ peak'[p] = [peak[p] EXCEPT ![now] = Max({peak[p][now], n})] /\ stock'[p] = n
    BY <1>2, <2>1
  <2>4. peak'[p] \in [0 .. MaxTime -> 0 .. MaxStock]
        /\ peak'[p][now] = Max({peak[p][now], n})
        /\ \A t \in 0 .. MaxTime : t # now => peak'[p][t] = peak[p][t]
    <3>1. PICK f \in [0 .. MaxTime -> 0 .. MaxStock], m \in 0 .. MaxStock :
            f = peak[p] /\ m = Max({peak[p][now], n})
      BY <1>2, <2>2
    <3>2. peak'[p] = [f EXCEPT ![now] = m]
      BY <2>3, <3>1
    <3>3. QED
      BY <1>2, <3>1, <3>2
  <2>5. peak' \in [Products -> [0 .. MaxTime -> 0 .. MaxStock]]
        /\ stock' \in [Products -> 0 .. MaxStock]
    BY <1>2, <2>1, <2>2
  <2>6. \A q \in Products : stock'[q] <= peak'[q][now]
    BY <1>2, <2>2, <2>3, <2>4
  <2>7. \A q \in Products : \A t \in 0 .. now : peak'[q][t] >= peak[q][t]
    <3>1. ASSUME NEW q \in Products, NEW t \in 0 .. now PROVE peak'[q][t] >= peak[q][t]
      <4>1. t \in 0 .. MaxTime /\ peak[q][t] \in Int
        BY <1>2
      <4>2. CASE q = p /\ t = now
        BY <2>2, <2>4, <4>2
      <4>3. CASE q = p /\ t # now
        BY <2>4, <4>1, <4>3
      <4>4. CASE q # p
        BY <2>3, <4>1, <4>4
      <4>5. QED
        BY <4>2, <4>3, <4>4
    <3>2. QED
      BY <3>1
  <2>8. ProductTypeOK' /\ now' >= now
    <3>1. now' = now /\ now >= now
      BY <1>2, <2>1
    <3>2. QED
      BY <1>2, <2>1, <2>5, <2>6, <3>1 DEF ProductTypeOK
  <2>9. QED
    BY <1>1, <2>1, <2>7, <2>8
<1>5. QED
  BY <1>3, <1>4 DEF Environment
-----------------------------------------------------------------------------
\* A POST waits for the product it is about.
AsksForItsProduct == \A a \in Adds : post[a] = "reading" => key[a] = DetailKey[Product[a]]

FullInv ==
    /\ IInv /\ CacheInv /\ AsksForItsProduct
    /\ deleted \subseteq Adds \X Shoppers /\ failures \in 0 .. MaxFailures

LEMMA InitFullInv == Init => FullInv
<1> SUFFICES ASSUME Init PROVE FullInv
  OBVIOUS
<1> USE StockAssumption, KeysAssumption, FailuresAssumption
<1>1. ProductTypeOK
  <2>1. 0 \in 0 .. MaxTime /\ 0 \in 0 .. MaxStock /\ 0 \in 0 .. MaxChanges
    OBVIOUS
  <2>2. peak = [p \in Products |-> [t \in 0 .. MaxTime |-> IF t = 0 THEN Stock0[p] ELSE 0]]
        /\ stock = Stock0 /\ changes = 0 /\ now = 0
    BY DEF Init, CacheInit
  <2>3. \A p \in Products : peak[p][now] = Stock0[p] /\ Stock0[p] \in 0 .. MaxStock
    BY <2>1, <2>2
  <2>4. peak \in [Products -> [0 .. MaxTime -> 0 .. MaxStock]]
    BY <2>1, <2>2
  <2>5. QED
    BY <2>1, <2>2, <2>3, <2>4 DEF ProductTypeOK
<1>2. CallsTypeOK /\ (\A k \in Keys : EntryOK(k)) /\ \A c \in Readers : ReaderOK(c)
  BY DEF Init, CacheInit, CallsTypeOK, EntryOK, ReaderOK
<1>3. AsksForItsProduct /\ deleted \subseteq Adds \X Shoppers /\ failures \in 0 .. MaxFailures
  BY DEF Init, AsksForItsProduct
<1>4. QED
  BY <1>1, <1>2, <1>3, InitIInv DEF FullInv, CacheInv

LEMMA FailuresBounded ==
    ASSUME failures \in 0 .. MaxFailures, Works \/ Breaks
    PROVE  failures' \in 0 .. MaxFailures
BY FailuresAssumption DEF Works, Breaks

LEMMA NextFullInv == FullInv /\ [Next]_vars => FullInv'
<1> SUFFICES ASSUME FullInv, [Next]_vars PROVE FullInv'
  OBVIOUS
<1> USE DEF FullInv
<1> DEFINE Rest == /\ CacheInv' /\ AsksForItsProduct'
                   /\ deleted' \subseteq Adds \X Shoppers /\ failures' \in 0 .. MaxFailures
<1>1. Adds \subseteq Readers /\ Browsers \subseteq Readers
      /\ \A a \in Adds : DetailKey[Product[a]] \in Keys
  BY AddsAssumption, ReadersAssumption
<1>2. ASSUME NEW a \in Adds, PostItem(a) PROVE Rest
  <2>1. CacheInv'
    BY <1>1, <1>2, AskStep DEF PostItem
  <2>2. /\ key' = [key EXCEPT ![a] = DetailKey[Product[a]]] /\ key \in [Readers -> Keys]
        /\ post' = [post EXCEPT ![a] = "reading"] /\ UNCHANGED <<deleted, failures>>
    BY <1>2 DEF PostItem, Ask, CacheInv, CallsTypeOK
  <2>3. AsksForItsProduct'
    BY <1>1, <2>2 DEF AsksForItsProduct, IInv, CartTypeOK
  <2>4. QED
    BY <2>1, <2>2, <2>3
<1>3. ASSUME NEW a \in Adds, ReadProduct(a) PROVE Rest
  <2>1. CacheInv'
    BY <1>1, <1>3, FetchStep, SetStep DEF ReadProduct
  <2>2. UNCHANGED <<key, post, deleted, failures>>
    BY <1>3 DEF ReadProduct, cartVars, Fetch, Set
  <2>3. QED
    BY <2>1, <2>2 DEF AsksForItsProduct
<1>4. ASSUME NEW a \in Adds, AddToCart(a) PROVE Rest
  <2>1. CacheInv'
    BY <1>1, <1>4, LeaveStep DEF AddToCart
  <2>2. UNCHANGED <<key, deleted>> /\ (Works \/ Breaks)
        /\ \E s \in {"added", "refused"} : post' = [post EXCEPT ![a] = s]
    <3>1. UNCHANGED <<key, deleted>> /\ (Works \/ Breaks)
      BY <1>4 DEF AddToCart
    <3>2. \E s \in {"added", "refused"} : post' = [post EXCEPT ![a] = s]
      <4>1. CASE post' = [post EXCEPT ![a] = "added"]
        BY <4>1
      <4>2. CASE post' = [post EXCEPT ![a] = IF a \in {i.id : i \in cart'}
                                             THEN "added" ELSE "refused"]
        <5>1. CASE a \in {i.id : i \in cart'}
          BY <4>2, <5>1
        <5>2. CASE a \notin {i.id : i \in cart'}
          BY <4>2, <5>2
        <5>3. QED
          BY <5>1, <5>2
      <4>3. QED
        BY <1>4, <4>1, <4>2 DEF AddToCart
    <3>3. QED
      BY <3>1, <3>2
  <2>3. AsksForItsProduct'
    BY <2>2 DEF AsksForItsProduct, IInv, CartTypeOK
  <2>4. QED
    BY <2>1, <2>2, <2>3, FailuresBounded
<1>5. ASSUME UNCHANGED <<cacheVars, post>>, deleted' \subseteq Adds \X Shoppers,
             UNCHANGED failures \/ Works \/ Breaks
      PROVE  Rest
  <2>1. UNCHANGED <<stock, changes, peak, now, cache, reader, key, got, since, slowest>>
    BY <1>5 DEF cacheVars
  <2>2. CacheInv'
    BY <2>1 DEF CacheInv, ProductTypeOK, CallsTypeOK, EntryOK, ReaderOK, WasSo
  <2>3. AsksForItsProduct' /\ failures' \in 0 .. MaxFailures
    BY <1>5, <2>1, FailuresBounded DEF AsksForItsProduct
  <2>4. QED
    BY <1>5, <2>2, <2>3
<1>6. ASSUME NEW a \in Adds, ReadCart(a) \/ RemoveFromCart(a) PROVE Rest
  BY <1>5, <1>6 DEF ReadCart, RemoveFromCart, FindItem, DeleteItem
<1>7. ASSUME NEW c \in Browsers, Browse(c) PROVE Rest
  <2>1. CacheInv'
    BY <1>1, <1>7, AskStep, FetchStep, SetStep DEF Browse
  <2>2. UNCHANGED <<post, deleted, failures>> /\ \A a \in Adds : key'[a] = key[a]
    <3>1. c \notin Adds /\ UNCHANGED <<post, deleted, failures>>
      BY <1>7, ReadersAssumption DEF Browse, cartVars
    <3>2. UNCHANGED key \/ \E k \in Keys : key' = [key EXCEPT ![c] = k]
      BY <1>7 DEF Browse, Ask, Fetch, Set
    <3>3. QED
      BY <1>1, <3>1, <3>2 DEF CacheInv, CallsTypeOK
  <2>3. QED
    BY <2>1, <2>2 DEF AsksForItsProduct
<1>8. ASSUME NEW u \in Shoppers, NEW i \in cart,
             DeleteByUser(u, i) \/ \E q \in PatchTo : UpdateQuantity(u, i, q)
      PROVE  Rest
  <2>1. i.id \in Adds
    BY DEF IInv, CartTypeOK, Item
  <2>2. deleted' \subseteq Adds \X Shoppers
    BY <1>8, <2>1 DEF DeleteByUser, UpdateQuantity
  <2>3. QED
    BY <1>5, <1>8, <2>2 DEF DeleteByUser, UpdateQuantity
<1>9. ASSUME Environment /\ UNCHANGED cartVars PROVE Rest
  <2>1. UNCHANGED <<key, post, deleted, failures>>
    BY <1>9 DEF Environment, Tick, ChangeStock, cartVars
  <2>2. CacheInv'
    BY <1>9, EnvironmentStep
  <2>3. QED
    BY <2>1, <2>2 DEF AsksForItsProduct
<1>10. ASSUME Crash PROVE Rest
  <2>1. /\ cache' = [k \in Keys |-> NoEntry] /\ reader' = [c \in Readers |-> "none"]
        /\ got' = [c \in Readers |-> Nothing] /\ since' = [c \in Readers |-> 0]
        /\ UNCHANGED <<stock, changes, peak, now, key, slowest, deleted>> /\ Breaks
        /\ post' = [a \in Adds |-> IF post[a] = "reading" THEN "refused" ELSE post[a]]
    BY <1>10 DEF Crash
  <2>2. now \in Nat
    BY StockAssumption DEF CacheInv, ProductTypeOK
  <2>3. CallsTypeOK' /\ ProductTypeOK'
    BY <2>1 DEF CacheInv, CallsTypeOK, ProductTypeOK
  <2>4. (\A k \in Keys : EntryOK(k)') /\ \A c \in Readers : ReaderOK(c)'
    BY <2>1, <2>2 DEF EntryOK, ReaderOK
  <2>5. AsksForItsProduct' /\ failures' \in 0 .. MaxFailures
    BY <2>1, FailuresBounded DEF AsksForItsProduct
  <2>6. CacheInv'
    BY <2>3, <2>4 DEF CacheInv
  <2>7. QED
    BY <2>1, <2>5, <2>6
<1>11. ASSUME UNCHANGED vars PROVE Rest
  <2>1. UNCHANGED <<cacheVars, post>> /\ UNCHANGED <<deleted, failures>>
    BY <1>11 DEF vars, cartVars
  <2>2. QED
    BY <1>5, <2>1
<1>12. QED
  <2>1. IInv'
    BY NextIInv
  <2>2. CacheInv' /\ AsksForItsProduct'
        /\ deleted' \subseteq Adds \X Shoppers /\ failures' \in 0 .. MaxFailures
    BY <1>2, <1>3, <1>4, <1>6, <1>7, <1>8, <1>9, <1>10, <1>11 DEF Next, Progress
  <2>3. QED
    BY <2>1, <2>2

LEMMA FullInvAlways == Spec => []FullInv
BY InitFullInv, NextFullInv, PTL DEF Spec

\* Nothing leaves a cart but by its user's DELETE or in an order announced for
\* that user (CartOrchestrator.handleCartCheckout removes only what it read).
THEOREM CartRemovedIsOrdered == Spec => []RemovedIsOrdered
<1>1. IInv => RemovedIsOrdered
  BY DEF IInv
<1>2. QED
  BY IInvAlways, <1>1, PTL

\* While nothing fails, what a checkout has ordered and is done with has left the
\* cart, however many checkouts of the user remove the same items.
THEOREM CartOrderedLeaves == Spec => []OrderedLeaves
<1>1. IInv => OrderedLeaves
  BY DEF IInv
<1>2. QED
  BY IInvAlways, <1>1, PTL

\* The variables of the cart and of the cache have their types.
THEOREM CartType == Spec => []TypeOK
<1>1. FullInv => TypeOK
  BY DEF FullInv, IInv, CartTypeOK, CacheInv, ProductTypeOK, CallsTypeOK, TypeOK, CacheTypeOK
<1>2. QED
  BY FullInvAlways, <1>1, PTL

\* For any keys, times to live and queries, an item is added only when the
\* product had that many pieces within the time to live, and the slowest query,
\* before CartService.addToCart compares them.
THEOREM CartAddedWasAvailable == Spec => AddedWasAvailable
<1>1. ASSUME FullInv, Next, NEW a \in Adds, post[a] = "reading", post'[a] = "added"
      PROVE  HadRecently(a, Product[a], Quantity[a])
  <2> USE DEF FullInv
  <2>1. AddToCart(a)
    <3>1. ASSUME NEW b \in Adds, AddToCart(b) PROVE b = a
      BY <1>1, <3>1 DEF AddToCart, IInv, CartTypeOK
    <3>2. AddToCart(a) \/ \A b \in Adds : ~AddToCart(b)
      BY <3>1
    <3>3. ASSUME \A b \in Adds : ~AddToCart(b) PROVE FALSE
      <4>1. ASSUME NEW b \in Adds, PostItem(b) \/ ReadProduct(b) \/ ReadCart(b) \/ RemoveFromCart(b)
            PROVE  FALSE
        BY <1>1, <4>1 DEF PostItem, ReadProduct, ReadCart, RemoveFromCart, FindItem, DeleteItem,
                          cartVars, IInv, CartTypeOK
      <4>2. ~Crash
        BY <1>1 DEF Crash
      <4>3. \A c \in Browsers : ~Browse(c)
        BY <1>1 DEF Browse, cartVars
      <4>4. ~(Environment /\ UNCHANGED cartVars)
        BY <1>1 DEF cartVars
      <4>5. \A u \in Shoppers, i \in cart :
               ~(DeleteByUser(u, i) \/ \E q \in PatchTo : UpdateQuantity(u, i, q))
        BY <1>1 DEF DeleteByUser, UpdateQuantity
      <4>6. QED
        BY <1>1, <3>3, <4>1, <4>2, <4>3, <4>4, <4>5 DEF Next, Progress
    <3>4. QED
      BY <3>2, <3>3
  <2>2. /\ a \in Readers /\ Product[a] \in Products /\ Quantity[a] \in Nat
        /\ key[a] = DetailKey[Product[a]] /\ Product[a] \in Shows[key[a]]
    BY <1>1, AddsAssumption, ReadersAssumption DEF AsksForItsProduct
  <2>3. reader[a] = "answered" /\ ReaderOK(a)
    <3>1. reader[a] = "answered"
      BY <2>1 DEF AddToCart, Leave, ReaderGoes
    <3>2. QED
      BY <1>1, <2>2, <3>1 DEF CacheInv
  <2>4. got[a][Product[a]] >= Quantity[a]
    <3>1. got[a][Product[a]] \in Int /\ Quantity[a] \in Int
      BY <2>2, <2>3, StockAssumption DEF ReaderOK
    <3>2. ASSUME got[a][Product[a]] < Quantity[a] PROVE FALSE
      <4>1. ~(got[a][Product[a]] >= Quantity[a])
        BY <3>1, <3>2
      <4>2. cart' = cart /\ post' = [post EXCEPT ![a] = IF a \in {i.id : i \in cart'}
                                                       THEN "added" ELSE "refused"]
        BY <2>1, <4>1 DEF AddToCart
      <4>3. a \notin InCart
        BY <1>1 DEF IInv, KnownAreAdded
      <4>4. a \notin {i.id : i \in cart'}
        BY <4>2, <4>3 DEF InCart
      <4>5. post' = [post EXCEPT ![a] = "refused"]
        BY <4>2, <4>4
      <4>6. QED
        BY <1>1, <4>5 DEF IInv, CartTypeOK
    <3>3. QED
      BY <3>1, <3>2
  <2>5. PICK t \in 0 .. since[a] :
          /\ t >= since[a] - Ttl[key[a]] - slowest
          /\ peak[Product[a]][t] >= got[a][Product[a]]
    BY <2>2, <2>3 DEF ReaderOK, WasSo
  <2>6. peak[Product[a]][t] \in Int /\ got[a][Product[a]] \in Int
    <3>1. since[a] \in 0 .. now /\ got[a] \in [Shows[key[a]] -> 0 .. MaxStock]
      BY <2>3 DEF ReaderOK
    <3>2. /\ now \in 0 .. MaxTime /\ MaxTime \in Nat /\ MaxStock \in Nat
          /\ peak \in [Products -> [0 .. MaxTime -> 0 .. MaxStock]]
      BY <1>1, StockAssumption DEF CacheInv, ProductTypeOK
    <3>3. t \in 0 .. MaxTime
      BY <3>1, <3>2
    <3>4. QED
      BY <2>2, <3>1, <3>2, <3>3
  <2>7. QED
    BY <2>2, <2>4, <2>5, <2>6 DEF HadRecently
<1>2. FullInv /\ [Next]_vars =>
        [\A a \in Adds : post[a] = "reading" /\ post'[a] = "added"
            => HadRecently(a, Product[a], Quantity[a])]_vars
  BY <1>1
<1>3. QED
  BY FullInvAlways, <1>2, PTL DEF Spec, AddedWasAvailable
=============================================================================
