------------------------ MODULE InfrastructureProofs ------------------------
(***************************************************************************)
(* Proofs about what the handlers of the shop run on, each for all values  *)
(* of the constants of its module.                                         *)
(*                                                                         *)
(*   - Redlock: mutual exclusion as long as fewer servers forget than two  *)
(*     quorums have in common, that it implements Mutex, and that nothing  *)
(*     is left behind.                                                     *)
(*   - ConnectionPool: no connection is left behind, and a pool large      *)
(*     enough never has everybody wait for everybody else.                 *)
(*   - CouponScheduler: the stock follows the batches of the cron job, and *)
(*     nobody who waits for a coupon is forgotten.  The runs that overlap, *)
(*     their locks, transactions and deadlocks, and the calls beside them  *)
(*     implement WaitingLine.                                              *)
(***************************************************************************)
EXTENDS Redlock, ConnectionPool, CouponScheduler,
        SequenceTheorems, FiniteSetTheorems, TLAPS
-----------------------------------------------------------------------------
(***************************************************************************)
(* Redlock.                                                                *)
(***************************************************************************)

\* Two quorums have more servers in common than may forget: for four servers and
\* quorums of three, one may.
FewForget == Cardinality(Servers) + MaxLost < Quorum + Quorum

Command == [op : {"set", "del"}, n : Active \X Nat]

\* Nothing is deleted before the lock is released.
OnlySets == \A c \in Callers, s \in Servers : pc[c] \in {"idle", "acquires", "holds"} =>
    \A i \in 1 .. Len(sent[c][s]) : sent[c][s][i].op = "set"

\* As long as its time runs, a caller has its key on each server that voted for it
\* and did not forget.
VotesKept == \A c \in fresh :
    /\ pc[c] \in {"acquires", "holds"}
    /\ \A s \in yes[c] : key[s] = c \/ s \in lost

\* A quorum has voted for a holder, and no more servers forget than assumed.
HoldersChosen == \A c \in Callers : pc[c] = "holds" => For(c)

LostBound == Cardinality(lost) <= MaxLost

LockInv == RedlockTypeOK /\ OnlySets /\ VotesKept /\ HoldersChosen /\ LostBound
-----------------------------------------------------------------------------
LEMMA LockInitInv == RedlockInit => LockInv
<1> SUFFICES ASSUME RedlockInit PROVE LockInv
  OBVIOUS
<1>1. RedlockTypeOK
  BY NumbersAssumption DEF RedlockInit, RedlockTypeOK
<1>2. OnlySets /\ VotesKept /\ HoldersChosen
  BY DEF RedlockInit, OnlySets, VotesKept, HoldersChosen
<1>3. LostBound
  BY FS_EmptySet, NumbersAssumption DEF RedlockInit, LostBound
<1> QED BY <1>1, <1>2, <1>3 DEF LockInv

\* What an attempt leaves of types and of commands under way.
LEMMA AttemptFacts ==
    ASSUME LockInv, NEW c \in Callers, NEW state \in Active, NEW op \in {"set", "del"},
           NEW n \in 1 .. MaxAttempts, Attempt(c, state, op, n)
    PROVE  /\ sent' \in [Callers -> [Servers -> Seq(Command)]]
           /\ pc' \in [Callers -> Active \union {"idle", "holds", "done", "failed"}]
           /\ round' \in [Callers -> 0 .. MaxAttempts]
           /\ yes' \in [Callers -> SUBSET Servers] /\ no' \in [Callers -> SUBSET Servers]
           /\ pc'[c] = state /\ yes'[c] = {}
           /\ \A d \in Callers : d # c => pc'[d] = pc[d] /\ yes'[d] = yes[d] /\ sent'[d] = sent[d]
           /\ \A s \in Servers : sent'[c][s] = Append(sent[c][s], [op |-> op, n |-> <<state, n>>])
<1>1. [op |-> op, n |-> <<state, n>>] \in Command
  BY DEF Command
<1>2. sent \in [Callers -> [Servers -> Seq(Command)]]
  BY DEF LockInv, RedlockTypeOK, Command
<1>3. /\ sent' \in [Callers -> [Servers -> Seq(Command)]]
      /\ \A d \in Callers : d # c => sent'[d] = sent[d]
      /\ \A s \in Servers : sent'[c][s] = Append(sent[c][s], [op |-> op, n |-> <<state, n>>])
  BY <1>1, <1>2 DEF Attempt
<1>4. /\ pc' \in [Callers -> Active \union {"idle", "holds", "done", "failed"}]
      /\ pc'[c] = state /\ \A d \in Callers : d # c => pc'[d] = pc[d]
  BY DEF Attempt, LockInv, RedlockTypeOK
<1>5. round' \in [Callers -> 0 .. MaxAttempts]
  BY NumbersAssumption DEF Attempt, LockInv, RedlockTypeOK
<1>6. /\ yes' \in [Callers -> SUBSET Servers] /\ no' \in [Callers -> SUBSET Servers]
      /\ yes'[c] = {} /\ \A d \in Callers : d # c => yes'[d] = yes[d]
  BY DEF Attempt, LockInv, RedlockTypeOK
<1> QED BY <1>3, <1>4, <1>5, <1>6

\* What an answer leaves of them.
LEMMA AnswerFacts ==
    ASSUME LockInv, NEW c \in Callers, NEW state \in {"holds", "done", "failed"}, Answer(c, state)
    PROVE  /\ pc' \in [Callers -> Active \union {"idle", "holds", "done", "failed"}]
           /\ round' \in [Callers -> 0 .. MaxAttempts]
           /\ yes' \in [Callers -> SUBSET Servers] /\ no' \in [Callers -> SUBSET Servers]
           /\ sent' = sent /\ pc'[c] = state /\ (state = "holds" => yes' = yes)
           /\ \A d \in Callers : d # c => pc'[d] = pc[d] /\ yes'[d] = yes[d]
BY NumbersAssumption DEF Answer, LockInv, RedlockTypeOK

\* A caller that begins an attempt: its votes are reset, the others keep theirs.
LEMMA AttemptInv ==
    ASSUME LockInv, NEW c \in Callers, NEW state \in Active, NEW op \in {"set", "del"},
           NEW n \in 1 .. MaxAttempts, Attempt(c, state, op, n), UNCHANGED <<key, lost, faulty>>,
           pc[c] \in {"idle", "acquires", "holds"} \/ state # "acquires",
           state = "acquires" => op = "set" /\ fresh' \subseteq fresh \union {c},
           state # "acquires" => fresh' \subseteq fresh \ {c}
    PROVE  LockInv'
<1>0. /\ sent' \in [Callers -> [Servers -> Seq(Command)]]
      /\ pc' \in [Callers -> Active \union {"idle", "holds", "done", "failed"}]
      /\ round' \in [Callers -> 0 .. MaxAttempts]
      /\ yes' \in [Callers -> SUBSET Servers] /\ no' \in [Callers -> SUBSET Servers]
      /\ pc'[c] = state /\ yes'[c] = {}
      /\ \A d \in Callers : d # c => pc'[d] = pc[d] /\ yes'[d] = yes[d] /\ sent'[d] = sent[d]
      /\ \A s \in Servers : sent'[c][s] = Append(sent[c][s], [op |-> op, n |-> <<state, n>>])
  BY AttemptFacts
<1>1. RedlockTypeOK'
  BY <1>0 DEF LockInv, RedlockTypeOK, Command
<1>2. OnlySets'
  <2> SUFFICES ASSUME NEW d \in Callers, NEW s \in Servers,
                      pc'[d] \in {"idle", "acquires", "holds"}, NEW i \in 1 .. Len(sent'[d][s])
               PROVE  sent'[d][s][i].op = "set"
    BY DEF OnlySets
  <2>1. CASE d # c
    <3>1. sent'[d][s] = sent[d][s] /\ pc'[d] = pc[d]
      BY <1>0, <2>1
    <3> QED BY <3>1 DEF LockInv, OnlySets
  <2>2. CASE d = c
    <3>1. state = "acquires" /\ op = "set"
      BY <1>0, <2>2 DEF Active
    <3>2. sent[c][s] \in Seq(Command) /\ sent'[c][s] = Append(sent[c][s], [op |-> op, n |-> <<state, n>>])
      BY <1>0 DEF LockInv, RedlockTypeOK, Command
    <3> QED BY <2>2, <3>1, <3>2 DEF LockInv, OnlySets
  <2> QED BY <2>1, <2>2
<1>3. VotesKept'
  <2> SUFFICES ASSUME NEW d \in fresh'
               PROVE  pc'[d] \in {"acquires", "holds"} /\ \A s \in yes'[d] : key[s] = d \/ s \in lost
    BY DEF VotesKept
  <2>1. CASE d = c
    BY <1>0, <2>1
  <2>2. CASE d # c
    BY <1>0, <2>2 DEF LockInv, RedlockTypeOK, VotesKept
  <2> QED BY <2>1, <2>2
<1>4. HoldersChosen'
  BY <1>0 DEF LockInv, HoldersChosen, For, Active, Quorum
<1> QED BY <1>1, <1>2, <1>3, <1>4 DEF LockInv, LostBound

\* A caller that is answered.
LEMMA AnswerInv ==
    ASSUME LockInv, NEW c \in Callers, NEW state \in {"holds", "done", "failed"}, Answer(c, state),
           UNCHANGED <<key, lost, faulty, fresh>>,
           state = "holds" => pc[c] = "acquires" /\ For(c),
           state # "holds" => c \notin fresh
    PROVE  LockInv'
<1>0. /\ pc' \in [Callers -> Active \union {"idle", "holds", "done", "failed"}]
      /\ round' \in [Callers -> 0 .. MaxAttempts]
      /\ yes' \in [Callers -> SUBSET Servers] /\ no' \in [Callers -> SUBSET Servers]
      /\ sent' = sent /\ pc'[c] = state /\ (state = "holds" => yes' = yes)
      /\ \A d \in Callers : d # c => pc'[d] = pc[d] /\ yes'[d] = yes[d]
  BY AnswerFacts
<1>1. RedlockTypeOK'
  BY <1>0 DEF LockInv, RedlockTypeOK
<1>2. OnlySets'
  BY <1>0 DEF LockInv, OnlySets
<1>3. VotesKept'
  <2> SUFFICES ASSUME NEW d \in fresh
               PROVE  pc'[d] \in {"acquires", "holds"} /\ \A s \in yes'[d] : key[s] = d \/ s \in lost
    BY DEF VotesKept
  <2>1. CASE d = c
    BY <1>0, <2>1 DEF LockInv, VotesKept
  <2>2. CASE d # c
    BY <1>0, <2>2 DEF LockInv, RedlockTypeOK, VotesKept
  <2> QED BY <2>1, <2>2
<1>4. HoldersChosen'
  BY <1>0 DEF LockInv, HoldersChosen, For, Quorum
<1> QED BY <1>1, <1>2, <1>3, <1>4 DEF LockInv, LostBound

LEMMA AcquireLockInv ==
    ASSUME LockInv, NEW c \in Callers, AcquireLock(c)
    PROVE  LockInv'
BY AttemptInv, NumbersAssumption DEF AcquireLock, Active

LEMMA RetryInv ==
    ASSUME LockInv, NEW c \in Callers, Retry(c)
    PROVE  LockInv'
<1>1. round[c] + 1 \in 1 .. MaxAttempts
  BY NumbersAssumption DEF LockInv, RedlockTypeOK, Retry
<1>2. CASE pc[c] = "acquires"
  BY <1>1, <1>2, AttemptInv DEF Retry, Active, Op
<1>3. CASE pc[c] = "releases"
  <2>1. c \notin fresh
    BY <1>3 DEF LockInv, VotesKept
  <2> QED BY <1>1, <1>3, <2>1, AttemptInv DEF Retry, Active, Op
<1> QED BY <1>2, <1>3 DEF Retry

LEMMA GiveUpInv ==
    ASSUME LockInv, NEW c \in Callers, GiveUpAcquire(c) \/ ReleaseLock(c)
    PROVE  LockInv'
BY AttemptInv, NumbersAssumption DEF GiveUpAcquire, ReleaseLock, Active

LEMMA EndInv ==
    ASSUME LockInv, NEW c \in Callers, Acquired(c) \/ Released(c) \/ Cleaned(c) \/ GiveUpRelease(c)
    PROVE  LockInv'
<1>1. CASE Acquired(c)
  BY <1>1, AnswerInv DEF Acquired
<1>2. CASE Released(c) \/ Cleaned(c) \/ GiveUpRelease(c)
  <2>1. c \notin fresh
    BY <1>2 DEF LockInv, VotesKept, Released, Cleaned, GiveUpRelease
  <2> QED BY <1>2, <2>1, AnswerInv DEF Released, Cleaned, GiveUpRelease
<1> QED BY <1>1, <1>2

LEMMA QueueFacts ==
    ASSUME NEW q \in Seq(Command), q # <<>>
    PROVE  /\ Head(q) = q[1] /\ 1 \in 1 .. Len(q) /\ Head(q).op \in {"set", "del"}
           /\ Tail(q) \in Seq(Command)
           /\ \A i \in 1 .. Len(Tail(q)) : Tail(q)[i] = q[i + 1] /\ i + 1 \in 1 .. Len(q)
<1>1. Len(q) \in Nat \ {0} /\ Head(q) = q[1] /\ q[1] \in Command
  OBVIOUS
<1>2. Len(Tail(q)) = Len(q) - 1 /\ \A i \in 1 .. Len(Tail(q)) : Tail(q)[i] = q[i + 1]
  OBVIOUS
<1>3. Tail(q) \in Seq(Command)
  OBVIOUS
<1> QED BY <1>1, <1>2, <1>3 DEF Command

\* A step that leaves the connections and the callers' states alone.
LEMMA SameSets ==
    ASSUME LockInv, sent' = sent, pc' = pc
    PROVE  OnlySets'
BY DEF LockInv, OnlySets

\* A command that is taken from its connection.
LEMMA TakeFacts ==
    ASSUME LockInv, NEW c \in Callers, NEW s \in Servers, Take(c, s)
    PROVE  /\ sent' \in [Callers -> [Servers -> Seq(Command)]]
           /\ pc' = pc => OnlySets'
           /\ pc[c] \in {"idle", "acquires", "holds"} => Head(sent[c][s]).op = "set"
<1>1. sent \in [Callers -> [Servers -> Seq(Command)]] /\ sent[c][s] \in Seq(Command) /\ sent[c][s] # <<>>
  BY DEF LockInv, RedlockTypeOK, Command, Take
<1>2. Tail(sent[c][s]) \in Seq(Command)
  BY <1>1, QueueFacts
<1>3. /\ sent' \in [Callers -> [Servers -> Seq(Command)]]
      /\ \A d \in Callers, t \in Servers :
             sent'[d][t] = IF d = c /\ t = s THEN Tail(sent[c][s]) ELSE sent[d][t]
  BY <1>1, <1>2 DEF Take
<1>4. pc[c] \in {"idle", "acquires", "holds"} => Head(sent[c][s]).op = "set"
  BY <1>1, QueueFacts DEF LockInv, OnlySets
<1>5. ASSUME pc' = pc, NEW d \in Callers, NEW t \in Servers, pc'[d] \in {"idle", "acquires", "holds"},
             NEW i \in 1 .. Len(sent'[d][t])
      PROVE  sent'[d][t][i].op = "set"
  <2>1. CASE d = c /\ t = s
    <3>0. sent'[d][t] = Tail(sent[c][s])
      BY <1>3, <2>1
    <3>1. sent'[d][t][i] = sent[c][s][i + 1] /\ i + 1 \in 1 .. Len(sent[c][s])
      BY <1>1, <1>5, <3>0, QueueFacts
    <3> QED BY <1>5, <2>1, <3>1 DEF LockInv, OnlySets
  <2>2. CASE ~(d = c /\ t = s)
    <3>1. sent'[d][t] = sent[d][t]
      BY <1>3, <2>2
    <3> QED BY <1>5, <3>1 DEF LockInv, OnlySets
  <2> QED BY <2>1, <2>2
<1> QED BY <1>3, <1>4, <1>5 DEF OnlySets

\* A command changes nothing but its server's key, to or from its caller's, and
\* from the caller's only when the lock has been given up.
LEMMA EffectFacts ==
    ASSUME LockInv, NEW c \in Callers, NEW s \in Servers, Take(c, s), key' \in {key, Effect(c, s)}
    PROVE  /\ key' \in [Servers -> Callers \union {Nobody}]
           /\ \A t \in Servers, d \in fresh : key[t] = d => key'[t] = d
<1>1. Head(sent[c][s]).op = "del" => c \notin fresh
  BY TakeFacts DEF LockInv, VotesKept
<1>2. Head(sent[c][s]).op \in {"set", "del"}
  <2>1. sent[c][s] \in Seq(Command) /\ sent[c][s] # <<>>
    BY DEF LockInv, RedlockTypeOK, Take, Command
  <2> QED BY <2>1, QueueFacts
<1> QED BY <1>1, <1>2, CallersAssumption DEF LockInv, RedlockTypeOK, Effect, Done

\* A server that serves or fails a request.
LEMMA VoteInv ==
    ASSUME LockInv, NEW c \in Callers, NEW s \in Servers, NEW for \in BOOLEAN,
           Take(c, s), Count(c, s, for), key' \in {key, Effect(c, s)},
           for => key' = Effect(c, s) /\ Done(c, s),
           UNCHANGED <<pc, round, fresh, lost>>, faulty' \subseteq Servers
    PROVE  LockInv'
<1>1. /\ yes' \in [Callers -> SUBSET Servers] /\ no' \in [Callers -> SUBSET Servers]
      /\ \A d \in Callers : yes'[d] = yes[d] \/ (d = c /\ for /\ pc[c] \in Active /\ yes'[d] = yes[d] \union {s})
  BY DEF LockInv, RedlockTypeOK, Count
<1>2. RedlockTypeOK'
  BY <1>1, TakeFacts, EffectFacts DEF LockInv, RedlockTypeOK, Command
<1>3. VotesKept'
  <2> SUFFICES ASSUME NEW d \in fresh, NEW t \in yes'[d] PROVE key'[t] = d \/ t \in lost
    BY DEF LockInv, VotesKept
  <2>0. d \in Callers /\ t \in Servers
    BY <1>1 DEF LockInv, RedlockTypeOK
  <2>1. CASE t \in yes[d]
    BY <2>0, <2>1, EffectFacts DEF LockInv, VotesKept
  <2>2. CASE t \notin yes[d]
    <3>1. d = c /\ t = s /\ for /\ pc[c] \in {"acquires", "holds"}
      BY <1>1, <2>0, <2>2 DEF LockInv, VotesKept
    <3>2. Head(sent[c][s]).op = "set" /\ key' = Effect(c, s) /\ Done(c, s)
      BY <3>1, TakeFacts
    <3> QED BY <3>1, <3>2 DEF Effect, LockInv, RedlockTypeOK
  <2> QED BY <2>1, <2>2
<1>4. HoldersChosen'
  BY <1>1 DEF LockInv, HoldersChosen, For, Active, Quorum
<1> QED BY <1>2, <1>3, <1>4, TakeFacts DEF LockInv, LostBound

LEMMA ServeInv ==
    ASSUME LockInv, NEW c \in Callers, NEW s \in Servers, Serve(c, s) \/ Fault(c, s)
    PROVE  LockInv'
<1>1. CASE Serve(c, s)
  <2>1. Done(c, s) \in BOOLEAN
    BY DEF Done
  <2> QED BY <1>1, <2>1, VoteInv DEF Serve, LockInv, RedlockTypeOK
<1>2. CASE Fault(c, s)
  BY <1>2, VoteInv DEF Fault, LockInv, RedlockTypeOK
<1> QED BY <1>1, <1>2

LEMMA TimeInv ==
    ASSUME LockInv, (\E c \in Callers : RunOut(c)) \/ (\E s \in Servers : Expire(s))
    PROVE  LockInv'
<1>1. ASSUME NEW c \in Callers, RunOut(c) PROVE LockInv'
  <2>1. RedlockTypeOK' /\ LostBound'
    BY <1>1 DEF RunOut, LockInv, RedlockTypeOK, LostBound
  <2>2. VotesKept'
    BY <1>1 DEF RunOut, LockInv, VotesKept
  <2>3. HoldersChosen'
    BY <1>1 DEF RunOut, LockInv, HoldersChosen, For, Quorum
  <2> QED BY <1>1, <2>1, <2>2, <2>3, SameSets DEF RunOut, LockInv
<1>2. ASSUME NEW s \in Servers, Expire(s) PROVE LockInv'
  <2>1. RedlockTypeOK' /\ LostBound'
    BY <1>2 DEF Expire, LockInv, RedlockTypeOK, LostBound
  <2>2. VotesKept'
    BY <1>2 DEF Expire, LockInv, RedlockTypeOK, VotesKept
  <2>3. HoldersChosen'
    BY <1>2 DEF Expire, LockInv, HoldersChosen, For, Quorum
  <2> QED BY <1>2, <2>1, <2>2, <2>3, SameSets DEF Expire, LockInv
<1> QED BY <1>1, <1>2

LEMMA LoseInv ==
    ASSUME LockInv, NEW s \in Servers, Lose(s)
    PROVE  LockInv'
<1>1. IsFiniteSet(lost)
  BY ServersAssumption, FS_Subset DEF LockInv, RedlockTypeOK
<1>2. Cardinality(lost \union {s}) = Cardinality(lost) + 1 /\ Cardinality(lost) \in Nat
  BY <1>1, FS_AddElement, FS_CardinalityType DEF Lose
<1>3. LostBound'
  BY <1>2, NumbersAssumption DEF Lose, LostBound
<1>4. RedlockTypeOK' /\ HoldersChosen' /\ OnlySets'
  <2>1. RedlockTypeOK'
    BY DEF Lose, LockInv, RedlockTypeOK
  <2>2. HoldersChosen'
    BY DEF Lose, LockInv, HoldersChosen, For, Quorum
  <2> QED BY <2>1, <2>2, SameSets DEF Lose
<1>5. VotesKept'
  BY DEF Lose, LockInv, RedlockTypeOK, VotesKept
<1> QED BY <1>3, <1>4, <1>5 DEF LockInv

LEMMA LockNextInv == LockInv /\ [RedlockNext]_redlockVars => LockInv'
<1> SUFFICES ASSUME LockInv, [RedlockNext]_redlockVars PROVE LockInv'
  OBVIOUS
<1>1. ASSUME NEW c \in Callers, AcquireLock(c) \/ Decide(c) PROVE LockInv'
  BY <1>1, AcquireLockInv, RetryInv, GiveUpInv, EndInv DEF Decide
<1>2. CASE UNCHANGED redlockVars
  <2>1. RedlockTypeOK' /\ VotesKept' /\ LostBound'
    BY <1>2 DEF redlockVars, LockInv, RedlockTypeOK, VotesKept, LostBound
  <2>2. HoldersChosen'
    BY <1>2 DEF redlockVars, LockInv, HoldersChosen, For, Quorum
  <2> QED BY <1>2, <2>1, <2>2, SameSets DEF redlockVars, LockInv
<1> QED BY <1>1, <1>2, ServeInv, TimeInv, LoseInv DEF RedlockNext

LEMMA LockAlways == RedlockSpec => []LockInv
<1> QED BY LockInitInv, LockNextInv, PTL DEF RedlockSpec
-----------------------------------------------------------------------------
\* The variables keep to callers, servers and commands.
THEOREM RedlockTypes == RedlockSpec => []RedlockTypeOK
<1>1. LockInv => RedlockTypeOK
  BY DEF LockInv
<1> QED BY <1>1, LockAlways, PTL

\* A server that two quorums have in common and that did not forget would have
\* the keys of both.
LEMMA OneHolder ==
    ASSUME LockInv, FewForget, NEW c \in Callers, NEW d \in Callers, Holds(c), Holds(d)
    PROVE  c = d
<1>1. /\ yes[c] \subseteq Servers /\ yes[d] \subseteq Servers /\ lost \subseteq Servers
      /\ Cardinality(yes[c]) >= Quorum /\ Cardinality(yes[d]) >= Quorum
  BY DEF LockInv, RedlockTypeOK, HoldersChosen, For, Holds
<1>2. /\ IsFiniteSet(yes[c]) /\ IsFiniteSet(yes[d]) /\ IsFiniteSet(lost)
      /\ IsFiniteSet(yes[c] \intersect yes[d]) /\ IsFiniteSet(yes[c] \union yes[d])
  <2>1. /\ yes[c] \intersect yes[d] \in SUBSET Servers /\ yes[c] \union yes[d] \in SUBSET Servers
    BY <1>1
  <2> QED BY <1>1, <2>1, ServersAssumption, FS_Subset
<1>3. Cardinality(yes[c] \union yes[d]) =
          Cardinality(yes[c]) + Cardinality(yes[d]) - Cardinality(yes[c] \intersect yes[d])
  BY <1>2, FS_Union
<1>4. Cardinality(yes[c] \union yes[d]) <= Cardinality(Servers)
  <2>1. yes[c] \union yes[d] \in SUBSET Servers
    BY <1>1
  <2> QED BY <2>1, ServersAssumption, FS_Subset
<1>5. /\ Cardinality(yes[c]) \in Nat /\ Cardinality(yes[d]) \in Nat /\ Cardinality(Servers) \in Nat
      /\ Cardinality(lost) \in Nat /\ Cardinality(yes[c] \intersect yes[d]) \in Nat
      /\ Cardinality(yes[c] \union yes[d]) \in Nat
  BY <1>2, ServersAssumption, FS_CardinalityType
<1>6. Quorum \in Int
  BY <1>5 DEF Quorum
<1>7. Cardinality(yes[c] \intersect yes[d]) > MaxLost
  BY <1>1, <1>3, <1>4, <1>5, <1>6, NumbersAssumption DEF FewForget
<1>8. ~(yes[c] \intersect yes[d] \subseteq lost)
  <2> SUFFICES ASSUME yes[c] \intersect yes[d] \in SUBSET lost PROVE FALSE
    OBVIOUS
  <2>1. Cardinality(yes[c] \intersect yes[d]) <= Cardinality(lost)
    BY <1>2, FS_Subset
  <2> QED BY <1>5, <1>7, <2>1, NumbersAssumption DEF LockInv, LostBound
<1>9. PICK s \in yes[c] \intersect yes[d] : s \notin lost
  BY <1>8
<1> QED BY <1>9 DEF LockInv, VotesKept, Holds

\* MutualExclusion: as long as no more servers forget than any two quorums have
\* in common, less one, no two callers have the resource at once.
THEOREM Exclusive == FewForget => (RedlockSpec => []MutualExclusion)
<1> SUFFICES ASSUME FewForget PROVE RedlockSpec => []MutualExclusion
  OBVIOUS
<1>1. LockInv => MutualExclusion
  BY OneHolder DEF MutualExclusion
<1> QED BY <1>1, LockAlways, PTL

\* Where Mutex sees a caller.
PlaceOf(c) == CASE pc[c] \in {"idle", "acquires"} -> "before"
                [] Holds(c) -> "inside"
                [] OTHER -> "after"

\* A step of one caller, which stays, comes in from before, or goes.
LEMMA MoveSimulates ==
    ASSUME MutualExclusion', NEW c \in Callers,
           \A d \in Callers : d # c => pc'[d] = pc[d] /\ (d \in fresh' <=> d \in fresh),
           PlaceOf(c)' \in {PlaceOf(c), "after"} \/ (PlaceOf(c) = "before" /\ PlaceOf(c)' = "inside")
    PROVE  [Abstract!Next]_place
<1>1. /\ place = [d \in Callers |-> PlaceOf(d)]
      /\ place' = [d \in Callers |-> PlaceOf(d)']
  BY DEF place, PlaceOf
<1>2. \A d \in Callers : d # c => PlaceOf(d)' = PlaceOf(d) /\ (Holds(d)' <=> Holds(d))
  BY DEF PlaceOf, Holds
<1>3. \A d \in Callers : PlaceOf(d) = "inside" <=> Holds(d)
  BY DEF PlaceOf, Holds
<1>4. PlaceOf(c)' = "inside" => Holds(c)'
  BY DEF PlaceOf, Holds
<1>5. place' = [place EXCEPT ![c] = PlaceOf(c)']
  BY <1>1, <1>2
<1>6. CASE PlaceOf(c)' = PlaceOf(c)
  BY <1>1, <1>2, <1>6
<1>7. CASE PlaceOf(c)' = "after" /\ PlaceOf(c) # "after"
  <2>1. Abstract!Leave(c)
    BY <1>1, <1>5, <1>7 DEF Abstract!Leave
  <2> QED BY <2>1 DEF Abstract!Next
<1>8. CASE PlaceOf(c) = "before" /\ PlaceOf(c)' = "inside"
  <2>1. ASSUME NEW d \in Callers PROVE PlaceOf(d) # "inside"
    <3>1. CASE d = c
      BY <1>8, <3>1
    <3>2. CASE d # c
      BY <1>2, <1>3, <1>4, <1>8, <3>2 DEF MutualExclusion
    <3> QED BY <3>1, <3>2
  <2>2. Abstract!Enter(c)
    BY <1>1, <1>5, <1>8, <2>1 DEF Abstract!Enter
  <2> QED BY <2>2 DEF Abstract!Next
<1> QED BY <1>6, <1>7, <1>8

LEMMA StepSimulates ==
    ASSUME LockInv, MutualExclusion', [RedlockNext]_redlockVars
    PROVE  [Abstract!Next]_place
<1>1. ASSUME UNCHANGED <<pc, fresh>> PROVE [Abstract!Next]_place
  <2>1. place' = place
    BY <1>1 DEF place, Holds
  <2> QED BY <2>1
<1>2. ASSUME NEW c \in Callers,
             AcquireLock(c) \/ Retry(c) \/ GiveUpAcquire(c) \/ ReleaseLock(c)
      PROVE  [Abstract!Next]_place
  <2>1. /\ \A d \in Callers : d # c => pc'[d] = pc[d] /\ (d \in fresh' <=> d \in fresh)
        /\ pc'[c] \in {"acquires", "releases", "cleans"} /\ (pc'[c] = "acquires" => pc[c] \in {"idle", "acquires"})
    BY <1>2 DEF LockInv, RedlockTypeOK, AcquireLock, Retry, GiveUpAcquire, ReleaseLock, Attempt
  <2>2. PlaceOf(c)' \in {PlaceOf(c), "after"}
    BY <2>1 DEF PlaceOf, Holds
  <2> QED BY <2>1, <2>2, MoveSimulates
<1>3. ASSUME NEW c \in Callers, Acquired(c) \/ Released(c) \/ Cleaned(c) \/ GiveUpRelease(c)
      PROVE  [Abstract!Next]_place
  <2>1. /\ fresh' = fresh /\ \A d \in Callers : d # c => pc'[d] = pc[d]
        /\ pc'[c] \in {"holds", "done", "failed"} /\ (pc'[c] = "holds" => pc[c] = "acquires")
    BY <1>3 DEF LockInv, RedlockTypeOK, Acquired, Released, Cleaned, GiveUpRelease, Answer
  <2>2. PlaceOf(c)' = "after" \/ (PlaceOf(c) = "before" /\ PlaceOf(c)' = "inside")
    BY <2>1 DEF PlaceOf, Holds
  <2> QED BY <2>1, <2>2, MoveSimulates
<1>4. ASSUME NEW c \in Callers, RunOut(c) PROVE [Abstract!Next]_place
  <2>1. pc' = pc /\ c \notin fresh' /\ \A d \in Callers : d # c => (d \in fresh' <=> d \in fresh)
    BY <1>4 DEF RunOut
  <2>2. PlaceOf(c)' \in {PlaceOf(c), "after"}
    BY <2>1 DEF PlaceOf, Holds
  <2> QED BY <2>1, <2>2, MoveSimulates
<1>5. ASSUME NEW c \in Callers, NEW s \in Servers, Serve(c, s) \/ Fault(c, s) \/ Expire(s) \/ Lose(s)
      PROVE  UNCHANGED <<pc, fresh>>
  BY <1>5 DEF Serve, Fault, Expire, Lose
<1>6. ASSUME NEW s \in Servers, Expire(s) \/ Lose(s) PROVE UNCHANGED <<pc, fresh>>
  BY <1>6 DEF Expire, Lose
<1>7. CASE UNCHANGED redlockVars
  BY <1>1, <1>7 DEF redlockVars
<1> QED BY <1>1, <1>2, <1>3, <1>4, <1>5, <1>6, <1>7 DEF RedlockNext, Decide

\* ImplementsMutex: the servers, the votes and the retries do what Mutex says.
THEOREM Implements == FewForget => (RedlockSpec => ImplementsMutex)
<1> SUFFICES ASSUME FewForget PROVE RedlockSpec => ImplementsMutex
  OBVIOUS
<1>1. RedlockInit => Abstract!Init
  <2> SUFFICES ASSUME RedlockInit PROVE place = [c \in Callers |-> "before"]
    BY DEF Abstract!Init
  <2>1. \A c \in Callers : pc[c] = "idle" /\ ~Holds(c)
    BY DEF RedlockInit, Holds
  <2> QED BY <2>1 DEF place
<1>2. LockInv /\ MutualExclusion' /\ [RedlockNext]_redlockVars => [Abstract!Next]_place
  BY StepSimulates
<1>3. RedlockSpec => []MutualExclusion
  BY Exclusive
<1> QED BY <1>1, <1>2, <1>3, LockAlways, PTL DEF RedlockSpec, ImplementsMutex, Abstract!Spec
-----------------------------------------------------------------------------
\* Callers that do not want the lock, or not any more.
GivingUp == {"releases", "cleans", "done", "failed"}

\* What a caller that gives its keys up has under way to a server ends in a
\* removal.
EndsInDel == \A c \in Callers, s \in Servers :
    pc[c] \in GivingUp /\ sent[c][s] # <<>> => sent[c][s][Len(sent[c][s])].op = "del"

\* And it is not through with a server, if none of its requests there failed, as
\* long as its key is there.
RemovalQueued == \A c \in Callers, s \in Servers :
    pc[c] \in GivingUp /\ key[s] = c /\ s \notin faulty => sent[c][s] # <<>>

\* An attempt to remove the keys has a removal under way to every server; one to
\* set them does not matter.
LEMMA AttemptLeaves ==
    ASSUME LockInv, EndsInDel, RemovalQueued, NEW c \in Callers, NEW state \in Active,
           NEW op \in {"set", "del"}, NEW n \in 1 .. MaxAttempts, Attempt(c, state, op, n),
           UNCHANGED <<key, faulty>>, state # "acquires" => op = "del"
    PROVE  EndsInDel' /\ RemovalQueued'
<1>1. /\ pc'[c] = state
      /\ \A d \in Callers : d # c => pc'[d] = pc[d] /\ sent'[d] = sent[d]
      /\ \A s \in Servers : sent'[c][s] = Append(sent[c][s], [op |-> op, n |-> <<state, n>>])
  BY AttemptFacts
<1>2. ASSUME NEW s \in Servers, op = "del"
      PROVE  sent'[c][s] # <<>> /\ sent'[c][s][Len(sent'[c][s])].op = "del"
  <2>0. sent \in [Callers -> [Servers -> Seq(Command)]]
    BY DEF LockInv, RedlockTypeOK, Command
  <2>1. sent[c][s] \in Seq(Command)
    BY <2>0
  <2>2. [op |-> op, n |-> <<state, n>>] \in Command
    BY NumbersAssumption DEF Command
  <2> QED BY <1>1, <1>2, <2>1, <2>2
<1>3. state \in GivingUp => op = "del"
  BY DEF GivingUp
<1>4. EndsInDel'
  BY <1>1, <1>2, <1>3 DEF EndsInDel
<1>5. RemovalQueued'
  BY <1>1, <1>2, <1>3 DEF RemovalQueued
<1> QED BY <1>4, <1>5

\* Taking the first of several leaves the last one the last.
LEMMA LastOfTail ==
    ASSUME NEW S, NEW q \in Seq(S), q # <<>>
    PROVE  /\ Tail(q) # <<>> => Tail(q)[Len(Tail(q))] = q[Len(q)]
           /\ Tail(q) = <<>> => Head(q) = q[Len(q)]
<1>1. Len(q) \in Nat \ {0} /\ Tail(q) \in Seq(S) /\ Len(Tail(q)) = Len(q) - 1
  OBVIOUS
<1>2. Tail(q) # <<>> => Len(Tail(q)) \in 1 .. Len(q) - 1
  BY <1>1
<1>3. \A i \in 1 .. Len(q) - 1 : Tail(q)[i] = q[i + 1]
  OBVIOUS
<1>4. Tail(q) = <<>> => Len(q) = 1
  <2>1. Len(<<>>) = 0
    OBVIOUS
  <2>2. Tail(q) = <<>> => Len(Tail(q)) = Len(<<>>)
    OBVIOUS
  <2> QED BY <1>1, <2>1, <2>2
<1>5. Head(q) = q[1]
  OBVIOUS
<1> QED BY <1>1, <1>2, <1>3, <1>4, <1>5

\* The server takes the last command only if it is a removal, which takes the key.
LEMMA TakeLeaves ==
    ASSUME LockInv, EndsInDel, RemovalQueued, NEW c \in Callers, NEW s \in Servers,
           Serve(c, s) \/ Fault(c, s)
    PROVE  EndsInDel' /\ RemovalQueued'
<1>0. /\ key \in [Servers -> Callers \union {Nobody}]
      /\ sent \in [Callers -> [Servers -> Seq(Command)]]
  BY DEF LockInv, RedlockTypeOK, Command
<1>1. sent[c][s] \in Seq(Command) /\ sent[c][s] # <<>>
  BY <1>0 DEF Serve, Fault, Take
<1>2. /\ sent'[c][s] = Tail(sent[c][s]) /\ \A t \in Servers : t # s => sent'[c][t] = sent[c][t]
      /\ \A d \in Callers : d # c => sent'[d] = sent[d]
      /\ pc' = pc /\ faulty \subseteq faulty'
  <2>1. Take(c, s) /\ pc' = pc /\ faulty \subseteq faulty'
    BY DEF Serve, Fault
  <2> QED BY <1>0, <2>1 DEF Take
<1>3. /\ sent'[c][s] # <<>> => sent'[c][s][Len(sent'[c][s])] = sent[c][s][Len(sent[c][s])]
      /\ sent'[c][s] = <<>> => Head(sent[c][s]) = sent[c][s][Len(sent[c][s])]
  BY <1>1, <1>2, LastOfTail
<1>4. EndsInDel'
  <2> SUFFICES ASSUME NEW d \in Callers, NEW t \in Servers, pc[d] \in GivingUp, sent'[d][t] # <<>>
               PROVE  sent'[d][t][Len(sent'[d][t])].op = "del"
    BY <1>2 DEF EndsInDel
  <2>1. CASE d = c /\ t = s
    BY <1>1, <1>3, <2>1 DEF EndsInDel
  <2>2. CASE d # c \/ t # s
    <3>1. sent'[d][t] = sent[d][t]
      BY <1>2, <2>2
    <3> QED BY <3>1 DEF EndsInDel
  <2> QED BY <2>1, <2>2
<1>5. RemovalQueued'
  <2> SUFFICES ASSUME NEW d \in Callers, NEW t \in Servers, pc[d] \in GivingUp, key'[t] = d, t \notin faulty'
               PROVE  sent'[d][t] # <<>>
    BY <1>2 DEF RemovalQueued
  <2>1. Serve(c, s) \/ t # s
    <3>1. Fault(c, s) => s \in faulty'
      BY DEF Fault
    <3> QED BY <3>1
  <2>2. key' = key \/ key' = Effect(c, s)
    BY DEF Serve, Fault
  <2>3. CASE t # s
    <3>1. key'[t] = key[t]
      BY <1>0, <2>2, <2>3 DEF Effect
    <3> QED BY <1>2, <2>3, <3>1 DEF RemovalQueued
  <2>4. CASE t = s /\ d # c
    <3>1. key[s] = d
      BY <1>0, <2>2, <2>4, CallersAssumption DEF Effect
    <3> QED BY <1>2, <2>4, <3>1 DEF RemovalQueued
  <2>5. CASE t = s /\ d = c
    <3>1. key' = Effect(c, s)
      BY <2>1, <2>5 DEF Serve
    <3>2. Head(sent[c][s]).op # "del"
      <4> SUFFICES ASSUME Head(sent[c][s]).op = "del" PROVE FALSE
        OBVIOUS
      <4>1. key'[s] # c
        BY <1>0, <3>1, CallersAssumption DEF Effect, Done
      <4> QED BY <2>5, <4>1
    <3>3. sent[c][s][Len(sent[c][s])].op = "del"
      BY <1>1, <2>5 DEF EndsInDel
    <3> QED BY <1>3, <2>5, <3>2, <3>3
  <2> QED BY <2>3, <2>4, <2>5
<1> QED BY <1>4, <1>5

\* A caller that comes back with the lock, and one that has given its keys up.
LEMMA AnswerLeaves ==
    ASSUME LockInv, EndsInDel, RemovalQueued, NEW c \in Callers,
           Acquired(c) \/ Released(c) \/ Cleaned(c) \/ GiveUpRelease(c)
    PROVE  EndsInDel' /\ RemovalQueued'
<1>1. /\ sent' = sent /\ key' = key /\ faulty' = faulty
      /\ \A d \in Callers : pc'[d] \in GivingUp => pc[d] \in GivingUp
  BY DEF LockInv, RedlockTypeOK, Acquired, Released, Cleaned, GiveUpRelease, Answer, GivingUp
<1> QED BY <1>1 DEF EndsInDel, RemovalQueued

\* A key that runs out or is forgotten, and a time that runs out.
LEMMA TimeLeaves ==
    ASSUME LockInv, EndsInDel, RemovalQueued,
           \/ UNCHANGED redlockVars
           \/ \E c \in Callers : RunOut(c)
           \/ \E s \in Servers : Expire(s) \/ Lose(s)
    PROVE  EndsInDel' /\ RemovalQueued'
<1>1. sent' = sent /\ pc' = pc /\ faulty' = faulty
  BY DEF redlockVars, RunOut, Expire, Lose
<1>2. \A d \in Callers, t \in Servers : key'[t] = d => key[t] = d
  BY CallersAssumption DEF redlockVars, RunOut, Expire, Lose, LockInv, RedlockTypeOK
<1> QED BY <1>1, <1>2 DEF EndsInDel, RemovalQueued

LEMMA NextLeaves == LockInv /\ EndsInDel /\ RemovalQueued /\ [RedlockNext]_redlockVars => EndsInDel' /\ RemovalQueued'
<1> SUFFICES ASSUME LockInv, EndsInDel, RemovalQueued, [RedlockNext]_redlockVars PROVE EndsInDel' /\ RemovalQueued'
  OBVIOUS
<1>1. ASSUME NEW c \in Callers, AcquireLock(c) PROVE EndsInDel' /\ RemovalQueued'
  BY <1>1, AttemptLeaves, NumbersAssumption DEF AcquireLock, Active
<1>2. ASSUME NEW c \in Callers, Retry(c) PROVE EndsInDel' /\ RemovalQueued'
  <2>1. round[c] + 1 \in 1 .. MaxAttempts /\ pc[c] \in Active /\ Op(c) \in {"set", "del"}
    BY <1>2, NumbersAssumption DEF Retry, LockInv, RedlockTypeOK, Active, Op
  <2>2. pc[c] # "acquires" => Op(c) = "del"
    BY DEF Op
  <2>3. Attempt(c, pc[c], Op(c), round[c] + 1) /\ UNCHANGED <<key, faulty>>
    BY <1>2 DEF Retry
  <2> QED BY <2>1, <2>2, <2>3, AttemptLeaves
<1>3. ASSUME NEW c \in Callers, GiveUpAcquire(c) \/ ReleaseLock(c) PROVE EndsInDel' /\ RemovalQueued'
  BY <1>3, AttemptLeaves, NumbersAssumption DEF GiveUpAcquire, ReleaseLock, Active
<1> QED BY <1>1, <1>2, <1>3, AnswerLeaves, TakeLeaves, TimeLeaves DEF RedlockNext, Decide

\* LeavesNothing: whether a call has released its lock or has thrown, and however
\* often it tried, no server that has answered all its requests keeps its key.
THEOREM NothingLeft == RedlockSpec => []LeavesNothing
<1>1. RedlockInit => EndsInDel /\ RemovalQueued
  BY DEF RedlockInit, EndsInDel, RemovalQueued, GivingUp
<1>2. EndsInDel /\ RemovalQueued => LeavesNothing
  BY DEF RemovalQueued, LeavesNothing, GivingUp
<1> QED BY <1>1, <1>2, NextLeaves, LockAlways, PTL DEF RedlockSpec
-----------------------------------------------------------------------------
\* The request of the present attempt is under way to the server.
UnderWay(c, s) == \E i \in 1 .. Len(sent[c][s]) : sent[c][s][i].n = <<pc[c], round[c]>>

\* In an attempt every server has voted or is going to be asked.
EachAsked == \A c \in Callers, s \in Servers :
    pc[c] \in Active => s \in yes[c] \union no[c] \/ UnderWay(c, s)

\* A call that every server has answered has a quorum for it or against it, or the
\* votes are split.
Answered(c) == pc[c] \in Active /\ \A s \in Servers : sent[c][s] = <<>>
AnsweredCounted == \A c \in Callers : Answered(c) => For(c) \/ Against(c) \/ Tied(c)

\* An attempt asks every server; those of the other callers are as they were.
LEMMA AttemptAsks ==
    ASSUME LockInv, EachAsked, NEW c \in Callers, NEW state \in Active,
           NEW op \in {"set", "del"}, NEW n \in 1 .. MaxAttempts, Attempt(c, state, op, n)
    PROVE  EachAsked'
<1>0. /\ sent \in [Callers -> [Servers -> Seq(Command)]]
      /\ [op |-> op, n |-> <<state, n>>] \in Command
  <2>1. sent \in [Callers -> [Servers -> Seq(Command)]]
    BY DEF LockInv, RedlockTypeOK, Command
  <2>2. [op |-> op, n |-> <<state, n>>] \in Command
    BY DEF Command
  <2> QED BY <2>1, <2>2
<1>1. /\ pc'[c] = state /\ round'[c] = n
      /\ \A d \in Callers : d # c =>
             pc'[d] = pc[d] /\ round'[d] = round[d] /\ sent'[d] = sent[d]
             /\ yes'[d] = yes[d] /\ no'[d] = no[d]
      /\ \A s \in Servers : sent'[c][s] = Append(sent[c][s], [op |-> op, n |-> <<state, n>>])
  <2>1. round'[c] = n /\ \A d \in Callers : d # c => round'[d] = round[d] /\ no'[d] = no[d]
    BY DEF Attempt, LockInv, RedlockTypeOK
  <2> QED BY <2>1, AttemptFacts
<1>2. ASSUME NEW s \in Servers PROVE UnderWay(c, s)'
  <2> DEFINE i == Len(sent[c][s]) + 1
  <2>1. i \in 1 .. Len(sent'[c][s]) /\ sent'[c][s][i] = [op |-> op, n |-> <<state, n>>]
    <3>1. sent[c][s] \in Seq(Command) /\ Len(sent[c][s]) \in Nat
      BY <1>0
    <3>2. sent'[c][s] = Append(sent[c][s], [op |-> op, n |-> <<state, n>>])
      BY <1>1
    <3>3. Len(sent'[c][s]) = i
      BY <3>1, <3>2
    <3>4. sent'[c][s][i] = [op |-> op, n |-> <<state, n>>]
      BY <3>1, <3>2
    <3> QED BY <3>1, <3>3, <3>4
  <2> HIDE DEF i
  <2>2. sent'[c][s][i].n = <<pc'[c], round'[c]>>
    BY <1>1, <2>1
  <2> QED BY <2>1, <2>2 DEF UnderWay
<1>3. ASSUME NEW d \in Callers, d # c, NEW s \in Servers, pc'[d] \in Active
      PROVE  s \in yes'[d] \union no'[d] \/ UnderWay(d, s)'
  <2>1. /\ pc'[d] = pc[d] /\ round'[d] = round[d] /\ sent'[d] = sent[d]
        /\ yes'[d] = yes[d] /\ no'[d] = no[d]
    BY <1>1, <1>3
  <2> QED BY <1>3, <2>1 DEF EachAsked, UnderWay
<1> QED BY <1>2, <1>3 DEF EachAsked

\* A request that is taken counts if it belongs to the present attempt, and the
\* others stay under way.
LEMMA TakeAsks ==
    ASSUME LockInv, EachAsked, NEW c \in Callers, NEW s \in Servers,
           Serve(c, s) \/ Fault(c, s)
    PROVE  EachAsked'
<1>0. /\ sent \in [Callers -> [Servers -> Seq(Command)]]
      /\ yes \in [Callers -> SUBSET Servers] /\ no \in [Callers -> SUBSET Servers]
  BY DEF LockInv, RedlockTypeOK, Command
<1>1. sent[c][s] \in Seq(Command) /\ sent[c][s] # <<>>
  BY <1>0 DEF Serve, Fault, Take
<1>2. /\ sent'[c][s] = Tail(sent[c][s]) /\ \A t \in Servers : t # s => sent'[c][t] = sent[c][t]
      /\ \A d \in Callers : d # c => sent'[d] = sent[d]
      /\ pc' = pc /\ round' = round
  <2>1. Take(c, s) /\ pc' = pc /\ round' = round
    BY DEF Serve, Fault
  <2> QED BY <1>0, <2>1 DEF Take
<1>3. PICK vote \in BOOLEAN : Count(c, s, vote)
  BY DEF Serve, Fault, Done
<1>4. /\ \A d \in Callers : yes[d] \subseteq yes'[d] /\ no[d] \subseteq no'[d]
      /\ pc[c] \in Active /\ Head(sent[c][s]).n = <<pc[c], round[c]>> => s \in yes'[c] \union no'[c]
  BY <1>0, <1>3 DEF Count
<1> SUFFICES ASSUME NEW d \in Callers, NEW t \in Servers, pc[d] \in Active,
                    t \notin yes'[d] \union no'[d]
             PROVE  UnderWay(d, t)'
  BY <1>2 DEF EachAsked
<1>5. PICK i \in 1 .. Len(sent[d][t]) : sent[d][t][i].n = <<pc[d], round[d]>>
  BY <1>4 DEF EachAsked, UnderWay
<1>6. CASE d = c /\ t = s
  <2>1. Head(sent[c][s]) = sent[c][s][1] /\ Len(sent[c][s]) \in Nat
    BY <1>1, QueueFacts
  <2>2. i # 1
    BY <1>4, <1>5, <1>6, <2>1
  <2>3. i - 1 \in 1 .. Len(Tail(sent[c][s])) /\ Tail(sent[c][s])[i - 1] = sent[c][s][i]
    BY <1>1, <1>5, <1>6, <2>1, <2>2
  <2> QED BY <1>2, <1>5, <1>6, <2>3 DEF UnderWay
<1>7. CASE d # c \/ t # s
  <2>1. sent'[d][t] = sent[d][t]
    BY <1>2, <1>7
  <2> QED BY <1>2, <1>5, <2>1 DEF UnderWay
<1> QED BY <1>6, <1>7

LEMMA NextAsks == LockInv /\ EachAsked /\ [RedlockNext]_redlockVars => EachAsked'
<1> SUFFICES ASSUME LockInv, EachAsked, [RedlockNext]_redlockVars PROVE EachAsked'
  OBVIOUS
<1>1. ASSUME NEW c \in Callers, AcquireLock(c) \/ GiveUpAcquire(c) \/ ReleaseLock(c)
      PROVE  EachAsked'
  BY <1>1, AttemptAsks, NumbersAssumption DEF AcquireLock, GiveUpAcquire, ReleaseLock, Active
<1>2. ASSUME NEW c \in Callers, Retry(c) PROVE EachAsked'
  <2>1. round[c] + 1 \in 1 .. MaxAttempts /\ pc[c] \in Active /\ Op(c) \in {"set", "del"}
    BY <1>2, NumbersAssumption DEF Retry, LockInv, RedlockTypeOK, Active, Op
  <2>2. Attempt(c, pc[c], Op(c), round[c] + 1)
    BY <1>2 DEF Retry
  <2> QED BY <2>1, <2>2, AttemptAsks
<1>3. ASSUME NEW c \in Callers, Acquired(c) \/ Released(c) \/ Cleaned(c) \/ GiveUpRelease(c)
      PROVE  EachAsked'
  <2>1. PICK state \in {"holds", "done", "failed"} : Answer(c, state)
    BY <1>3 DEF Acquired, Released, Cleaned, GiveUpRelease
  <2>2. /\ sent' = sent /\ pc'[c] \notin Active
        /\ \A d \in Callers : d # c =>
               pc'[d] = pc[d] /\ round'[d] = round[d] /\ yes'[d] = yes[d] /\ no'[d] = no[d]
    BY <2>1, AnswerFacts DEF Answer, LockInv, RedlockTypeOK, Active
  <2> QED BY <2>2 DEF EachAsked, UnderWay
<1>4. ASSUME \/ UNCHANGED redlockVars
             \/ \E c \in Callers : RunOut(c)
             \/ \E s \in Servers : Expire(s) \/ Lose(s)
      PROVE  EachAsked'
  <2>1. UNCHANGED <<sent, pc, round, yes, no>>
    BY <1>4 DEF redlockVars, RunOut, Expire, Lose
  <2> QED BY <2>1 DEF EachAsked, UnderWay
<1> QED BY <1>1, <1>2, <1>3, <1>4, TakeAsks DEF RedlockNext, Decide

LEMMA Asked == RedlockSpec => [](RedlockTypeOK /\ EachAsked)
<1>1. RedlockInit => EachAsked
  BY DEF RedlockInit, EachAsked, Active
<1>2. LockInv => RedlockTypeOK
  BY DEF LockInv
<1> QED BY <1>1, <1>2, NextAsks, LockAlways, PTL DEF RedlockSpec

\* No attempt of a lock waits for a vote that got lost: whatever was retried, failed
\* or was forgotten, a call all of whose requests are answered has a decision, but
\* for a tie.  This is what StuckIsTied rests on.
THEOREM AnsweredIsCounted == RedlockSpec => []AnsweredCounted
<1>1. EachAsked /\ RedlockTypeOK => AnsweredCounted
  <2> SUFFICES ASSUME EachAsked, RedlockTypeOK, NEW c \in Callers, Answered(c), ~For(c), ~Against(c)
               PROVE  Tied(c)
    BY DEF AnsweredCounted
  <2>1. \A s \in Servers : s \in yes[c] \union no[c]
    BY DEF Answered, EachAsked, UnderWay
  <2> QED BY <2>1 DEF Tied, RedlockTypeOK
<1> QED BY <1>1, Asked, PTL
-----------------------------------------------------------------------------
(***************************************************************************)
(* ConnectionPool.                                                         *)
(***************************************************************************)

Kinds == [op : {"open", "query", "close"}, at : 0 .. 2]

\* A handler holds no transaction deeper than its next step says, none before
\* its first step and none after its last.
DepthOK ==
    /\ \A h \in Handlers : pos[h] \in 0 .. Len(Plan(h))
    /\ \A h \in Handlers : stage[h] = "idle" => pos[h] = 0
    /\ \A c \in Conns, h \in Handlers, l \in {1, 2} :
           owner[c] = <<h, l>> => More(h) /\ l <= At(h)

Unique == \A c, d \in Conns : owner[c] = owner[d] /\ owner[c] # Free => c = d

PoolInv == PoolTypeOK /\ DepthOK /\ Unique
-----------------------------------------------------------------------------
\* A slot is not Free, and is told by its parts.
LEMMA SlotFacts ==
    /\ \A s \in Slots : s # Free /\ s = <<s[1], s[2]>> /\ s[1] \in Handlers /\ s[2] \in {1, 2}
    /\ \A h \in Handlers, l \in {1, 2} : <<h, l>> \in Slots
BY DEF Slots, Free

\* What PlansAssumption says of the plan of a handler.
LEMMA PlanFacts ==
    ASSUME NEW h \in Handlers
    PROVE  /\ Plan(h) \in Seq(Kinds) /\ Len(Plan(h)) \in Nat \ {0}
           /\ \A n \in 1 .. Len(Plan(h)) : Plan(h)[n] \in Kinds
           /\ Plan(h)[1].at = 0
           /\ After(Plan(h)[Len(Plan(h))]) = 0
           /\ \A n \in 1 .. Len(Plan(h)) - 1 : Plan(h)[n + 1].at = After(Plan(h)[n])
           /\ \A n \in 1 .. Len(Plan(h)) : Plan(h)[n].op = "open" => Plan(h)[n].at < 2
<1>1. KindOf[h] \in DOMAIN Plans
  BY HandlersAssumption
<1>2. /\ Plan(h) \in Seq(Kinds) /\ Plan(h) # <<>>
      /\ Plan(h)[1].at = 0
      /\ After(Plan(h)[Len(Plan(h))]) = 0
      /\ \A n \in 1 .. Len(Plan(h)) - 1 : Plan(h)[n + 1].at = After(Plan(h)[n])
      /\ \A n \in 1 .. Len(Plan(h)) : Plan(h)[n].op = "open" => Plan(h)[n].at < 2
  BY <1>1, PlansAssumption DEF Plan, Kinds
<1>3. Len(Plan(h)) \in Nat \ {0} /\ \A n \in 1 .. Len(Plan(h)) : Plan(h)[n] \in Kinds
  BY <1>2
<1> QED BY <1>2, <1>3

\* A step leads to one that begins where it ends, or to the end of the plan with
\* nothing open.
LEMMA StepFacts ==
    ASSUME NEW h \in Handlers, More(h), pos[h] \in Nat
    PROVE  /\ Ahead(h) \in Kinds
           /\ NextOp(h) = "open" => At(h) \in {0, 1}
           /\ pos[h] + 1 \in 1 .. Len(Plan(h))
           /\ pos[h] + 1 < Len(Plan(h)) => Plan(h)[(pos[h] + 1) + 1].at = After(Ahead(h))
           /\ pos[h] + 1 = Len(Plan(h)) => After(Ahead(h)) = 0
<1>1. pos[h] + 1 \in 1 .. Len(Plan(h))
  BY PlanFacts DEF More
<1>2. Ahead(h) \in Kinds /\ (NextOp(h) = "open" => At(h) \in {0, 1})
  BY <1>1, PlanFacts DEF Ahead, NextOp, At, Kinds
<1>3. CASE pos[h] + 1 < Len(Plan(h))
  BY <1>1, <1>2, <1>3, PlanFacts DEF Ahead
<1>4. CASE pos[h] + 1 = Len(Plan(h))
  BY <1>1, <1>2, <1>4, PlanFacts DEF Ahead
<1> QED BY <1>1, <1>2, <1>3, <1>4

LEMMA PoolInitInv == PoolInit => PoolInv
<1> SUFFICES ASSUME PoolInit PROVE PoolInv
  OBVIOUS
<1>1. PoolTypeOK
  BY DEF PoolInit, PoolTypeOK
<1>2. DepthOK
  BY SlotFacts, PlanFacts DEF PoolInit, DepthOK, Free
<1>3. Unique
  BY DEF PoolInit, Unique
<1> QED BY <1>1, <1>2, <1>3 DEF PoolInv

\* Errors and expiries: a handler lets go of everything.
LEMMA ReturnedFacts ==
    ASSUME PoolInv, NEW h \in Handlers, owner' = Returned(h)
    PROVE  /\ owner' \in [Conns -> Slots \union {Free}]
           /\ \A c \in Conns, g \in Handlers, l \in {1, 2} :
                  owner'[c] = <<g, l>> => g # h /\ owner[c] = <<g, l>>
           /\ Unique'
<1>1. owner' \in [Conns -> Slots \union {Free}]
  BY DEF PoolInv, PoolTypeOK, Returned
<1>2. ASSUME NEW c \in Conns, NEW g \in Handlers, NEW l \in {1, 2}, owner'[c] = <<g, l>>
      PROVE  g # h /\ owner[c] = <<g, l>>
  BY <1>2, SlotFacts DEF PoolInv, PoolTypeOK, Returned, Held
<1>3. \A c \in Conns : owner'[c] # Free => owner'[c] = owner[c]
  BY DEF Returned
<1>4. Unique'
  BY <1>3 DEF PoolInv, Unique
<1> QED BY <1>1, <1>2, <1>4

\* A step that is done: what is open now is what the next step says is open.
LEMMA ProceedFacts ==
    ASSUME PoolInv, NEW h \in Handlers, More(h), Proceed(h), stage' = stage,
           NEW l \in {1, 2}, l <= After(Ahead(h))
    PROVE  More(h)' /\ l <= At(h)'
<1>1. pos[h] \in Nat /\ pos' = [pos EXCEPT ![h] = @ + 1] /\ pos'[h] = pos[h] + 1
  BY DEF PoolInv, PoolTypeOK, Proceed
<1>2. pos[h] + 1 < Len(Plan(h))
  BY <1>1, StepFacts, PlanFacts
<1>3. More(h)'
  BY <1>1, <1>2 DEF More, Plan
<1>4. Ahead(h)' = Plan(h)[(pos[h] + 1) + 1]
  BY <1>1 DEF Ahead, Plan
<1> QED BY <1>1, <1>2, <1>3, <1>4, StepFacts DEF At

\* What a handler has ahead of it, another one does not change.
LEMMA OtherFacts ==
    ASSUME NEW g \in Handlers, pos'[g] = pos[g], stage'[g] = stage[g]
    PROVE  More(g)' = More(g) /\ At(g)' = At(g) /\ Len(Plan(g))' = Len(Plan(g))
BY DEF More, At, Ahead, Plan

\* The step of a handler that did one step of its plan.
LEMMA AdvanceInv ==
    ASSUME PoolInv, NEW h \in Handlers, More(h), Proceed(h), stage' = stage, expired' = expired,
           owner' \in [Conns -> Slots \union {Free}], Unique',
           \A c \in Conns, g \in Handlers, l \in {1, 2} : owner'[c] = <<g, l>> =>
               IF g = h THEN l <= After(Ahead(h)) ELSE owner[c] = <<g, l>>
    PROVE  PoolInv'
<1>1. pos \in [Handlers -> Nat] /\ pos' = [pos EXCEPT ![h] = @ + 1] /\ pos' \in [Handlers -> Nat]
  BY DEF PoolInv, PoolTypeOK, Proceed
<1>2. PoolTypeOK'
  BY <1>1 DEF PoolInv, PoolTypeOK
<1>3. ASSUME NEW g \in Handlers PROVE pos'[g] \in 0 .. Len(Plan(g))'
  <2>1. CASE g = h
    BY <1>1, <2>1, StepFacts, PlanFacts DEF Plan
  <2>2. CASE g # h
    BY <1>1, <2>2, OtherFacts DEF PoolInv, DepthOK, Plan
  <2> QED BY <2>1, <2>2
<1>4. \A g \in Handlers : stage'[g] = "idle" => pos'[g] = 0
  BY <1>1 DEF PoolInv, DepthOK, More
<1>5. ASSUME NEW c \in Conns, NEW g \in Handlers, NEW l \in {1, 2}, owner'[c] = <<g, l>>
      PROVE  More(g)' /\ l <= At(g)'
  <2>1. CASE g = h
    BY <1>5, <2>1, ProceedFacts
  <2>2. CASE g # h
    <3>1. pos'[g] = pos[g] /\ stage'[g] = stage[g]
      BY <1>1, <2>2
    <3>2. More(g) /\ l <= At(g)
      BY <1>5, <2>2 DEF PoolInv, DepthOK
    <3> QED BY <3>1, <3>2, OtherFacts
  <2> QED BY <2>1, <2>2
<1>6. DepthOK'
  BY <1>3, <1>4, <1>5 DEF DepthOK
<1> QED BY <1>2, <1>6 DEF PoolInv

\* The step of a handler that is left with nothing.
LEMMA DropInv ==
    ASSUME PoolInv, NEW h \in Handlers, owner' = Returned(h), pos' = pos,
           stage' \in [Handlers -> {"idle", "runs", "done", "failed"}], expired' \subseteq Handlers,
           \A g \in Handlers : (g # h => stage'[g] = stage[g]) /\ (stage'[g] = "idle" => stage[g] = "idle")
    PROVE  PoolInv'
<1>1. PoolTypeOK'
  BY ReturnedFacts DEF PoolInv, PoolTypeOK
<1>2. \A g \in Handlers : pos'[g] \in 0 .. Len(Plan(g))' /\ (stage'[g] = "idle" => pos'[g] = 0)
  BY DEF PoolInv, DepthOK, Plan
<1>3. ASSUME NEW c \in Conns, NEW g \in Handlers, NEW l \in {1, 2}, owner'[c] = <<g, l>>
      PROVE  More(g)' /\ l <= At(g)'
  <2>1. g # h /\ owner[c] = <<g, l>>
    BY <1>3, ReturnedFacts
  <2>2. More(g) /\ l <= At(g)
    BY <2>1 DEF PoolInv, DepthOK
  <2> QED BY <2>1, <2>2, OtherFacts
<1>4. DepthOK'
  BY <1>2, <1>3 DEF DepthOK
<1> QED BY <1>1, <1>4, ReturnedFacts DEF PoolInv

LEMMA ThrowInv ==
    ASSUME PoolInv, NEW h \in Handlers, Throw(h)
    PROVE  PoolInv'
<1>1. owner' = Returned(h) /\ pos' = pos /\ expired' \subseteq Handlers
  BY DEF PoolInv, PoolTypeOK, Throw
<1>2. /\ stage' \in [Handlers -> {"idle", "runs", "done", "failed"}]
      /\ \A g \in Handlers : (g # h => stage'[g] = stage[g]) /\ (stage'[g] = "idle" => stage[g] = "idle")
  BY DEF PoolInv, PoolTypeOK, Throw
<1> QED BY <1>1, <1>2, DropInv

LEMMA PoolStartInv ==
    ASSUME PoolInv, NEW h \in Handlers, Start(h)
    PROVE  PoolInv'
<1>1. PoolTypeOK' /\ Unique'
  BY DEF PoolInv, PoolTypeOK, Unique, Start
<1>2. \A g \in Handlers : pos'[g] \in 0 .. Len(Plan(g))' /\ (stage'[g] = "idle" => pos'[g] = 0)
  BY DEF PoolInv, PoolTypeOK, DepthOK, Plan, Start
<1>3. ASSUME NEW c \in Conns, NEW g \in Handlers, NEW l \in {1, 2}, owner'[c] = <<g, l>>
      PROVE  More(g)' /\ l <= At(g)'
  <2>1. More(g) /\ l <= At(g)
    BY <1>3 DEF PoolInv, DepthOK, Start
  <2>2. g # h /\ pos'[g] = pos[g] /\ stage'[g] = stage[g]
    BY <2>1 DEF PoolInv, PoolTypeOK, Start, More
  <2> QED BY <2>1, <2>2, OtherFacts
<1> QED BY <1>1, <1>2, <1>3 DEF PoolInv, DepthOK

LEMMA PoolFinishInv ==
    ASSUME PoolInv, NEW h \in Handlers, Finish(h)
    PROVE  PoolInv'
<1>1. PoolTypeOK' /\ Unique'
  BY DEF PoolInv, PoolTypeOK, Unique, Finish
<1>2. \A g \in Handlers : pos'[g] \in 0 .. Len(Plan(g))' /\ (stage'[g] = "idle" => pos'[g] = 0)
  BY DEF PoolInv, PoolTypeOK, DepthOK, Plan, Finish
<1>3. ASSUME NEW c \in Conns, NEW g \in Handlers, NEW l \in {1, 2}, owner'[c] = <<g, l>>
      PROVE  More(g)' /\ l <= At(g)'
  <2>1. More(g) /\ l <= At(g)
    BY <1>3 DEF PoolInv, DepthOK, Finish
  <2>2. g # h /\ pos'[g] = pos[g] /\ stage'[g] = stage[g]
    BY <2>1 DEF PoolInv, PoolTypeOK, Finish
  <2> QED BY <2>1, <2>2, OtherFacts
<1> QED BY <1>1, <1>2, <1>3 DEF PoolInv, DepthOK

LEMMA OpenInv ==
    ASSUME PoolInv, NEW h \in Handlers, Open(h)
    PROVE  PoolInv'
<1>1. More(h) /\ Proceed(h) /\ NextOp(h) = "open" /\ UNCHANGED <<stage, expired>>
  BY DEF Open
<1>2. PICK c \in FreeConns : owner' = [owner EXCEPT ![c] = <<h, At(h) + 1>>]
  BY DEF Open
<1>3. c \in Conns /\ owner[c] = Free /\ owner \in [Conns -> Slots \union {Free}]
  BY <1>2 DEF FreeConns, PoolInv, PoolTypeOK
<1>4. At(h) \in {0, 1} /\ After(Ahead(h)) = At(h) + 1
  BY <1>1, StepFacts DEF PoolInv, PoolTypeOK, After, NextOp, At
<1>5. <<h, At(h) + 1>> \in Slots
  <2>1. At(h) + 1 \in {1, 2}
    BY <1>4
  <2> QED BY <2>1, SlotFacts
<1>6. owner' \in [Conns -> Slots \union {Free}]
  BY <1>2, <1>3, <1>5
<1>7. ASSUME NEW d \in Conns, NEW g \in Handlers, NEW l \in {1, 2}, owner'[d] = <<g, l>>
      PROVE  IF g = h THEN l <= After(Ahead(h)) ELSE owner[d] = <<g, l>>
  <2>1. CASE d = c
    BY <1>2, <1>3, <1>4, <1>7, <2>1
  <2>2. CASE d # c
    <3>1. owner[d] = <<g, l>>
      BY <1>2, <1>3, <1>7, <2>2
    <3>2. l <= At(g)
      BY <3>1 DEF PoolInv, DepthOK
    <3> QED BY <1>4, <3>1, <3>2
  <2> QED BY <2>1, <2>2
<1>8. \A d \in Conns : owner[d] # <<h, At(h) + 1>>
  <2> SUFFICES ASSUME NEW d \in Conns, owner[d] = <<h, At(h) + 1>> PROVE FALSE
    OBVIOUS
  <2>1. At(h) + 1 <= At(h)
    BY <1>4 DEF PoolInv, DepthOK
  <2> QED BY <1>4, <2>1
<1>9. Unique'
  BY <1>2, <1>3, <1>8 DEF PoolInv, Unique
<1> QED BY <1>1, <1>6, <1>7, <1>9, AdvanceInv

LEMMA QueryInv ==
    ASSUME PoolInv, NEW h \in Handlers, Query(h)
    PROVE  PoolInv'
<1>1. More(h) /\ Proceed(h) /\ NextOp(h) = "query" /\ UNCHANGED <<owner, stage, expired>>
  BY DEF Query
<1>2. At(h) \in 0 .. 2 /\ After(Ahead(h)) = At(h)
  BY <1>1, StepFacts DEF PoolInv, PoolTypeOK, After, NextOp, At, Kinds
<1>3. \A c \in Conns, g \in Handlers, l \in {1, 2} : owner'[c] = <<g, l>> =>
          IF g = h THEN l <= After(Ahead(h)) ELSE owner[c] = <<g, l>>
  BY <1>1, <1>2 DEF PoolInv, DepthOK
<1>4. owner' \in [Conns -> Slots \union {Free}] /\ Unique'
  BY <1>1 DEF PoolInv, PoolTypeOK, Unique
<1> QED BY <1>1, <1>3, <1>4, AdvanceInv

LEMMA CloseInv ==
    ASSUME PoolInv, NEW h \in Handlers, Close(h)
    PROVE  PoolInv'
<1>1. More(h) /\ NextOp(h) = "close"
  BY DEF Close
<1>2. CASE h \in expired
  BY <1>2, ThrowInv DEF Close
<1>3. CASE h \notin expired
  <2>1. /\ owner' = [c \in Conns |-> IF owner[c] = <<h, At(h)>> THEN Free ELSE owner[c]]
        /\ Proceed(h) /\ UNCHANGED <<stage, expired>>
    BY <1>3 DEF Close
  <2>2. At(h) \in 0 .. 2 /\ After(Ahead(h)) = At(h) - 1
    BY <1>1, StepFacts DEF PoolInv, PoolTypeOK, After, NextOp, At, Kinds
  <2>3. owner' \in [Conns -> Slots \union {Free}] /\ Unique'
    BY <2>1 DEF PoolInv, PoolTypeOK, Unique
  <2>4. ASSUME NEW c \in Conns, NEW g \in Handlers, NEW l \in {1, 2}, owner'[c] = <<g, l>>
        PROVE  IF g = h THEN l <= After(Ahead(h)) ELSE owner[c] = <<g, l>>
    <3>1. owner[c] = <<g, l>> /\ (g = h => l # At(h))
      BY <2>1, <2>4, SlotFacts
    <3>2. l <= At(g)
      BY <3>1 DEF PoolInv, DepthOK
    <3> QED BY <2>2, <3>1, <3>2
  <2> QED BY <1>1, <2>1, <2>3, <2>4, AdvanceInv
<1> QED BY <1>2, <1>3

LEMMA ExpireInv ==
    ASSUME PoolInv, NEW h \in Handlers, TimeOut(h)
    PROVE  PoolInv'
BY DropInv DEF PoolInv, PoolTypeOK, TimeOut

LEMMA PoolNextInv == PoolInv /\ [PoolNext]_poolVars => PoolInv'
<1> SUFFICES ASSUME PoolInv, [PoolNext]_poolVars PROVE PoolInv'
  OBVIOUS
<1>1. CASE Quiet
  BY <1>1 DEF Quiet, poolVars, PoolInv, PoolTypeOK, DepthOK, Unique, Plan, More, At, Ahead
<1>2. ASSUME NEW h \in Handlers, Start(h) \/ Go(h) \/ GiveUp(h) \/ TimeOut(h) PROVE PoolInv'
  BY <1>2, PoolStartInv, OpenInv, QueryInv, CloseInv, PoolFinishInv, ThrowInv, ExpireInv DEF Go, GiveUp
<1>3. CASE UNCHANGED poolVars
  BY <1>3 DEF poolVars, PoolInv, PoolTypeOK, DepthOK, Unique, Plan, More, At, Ahead
<1> QED BY <1>1, <1>2, <1>3 DEF PoolNext

LEMMA PoolAlways == PoolSpec => []PoolInv
<1> QED BY PoolInitInv, PoolNextInv, PTL DEF PoolSpec
-----------------------------------------------------------------------------
\* The variables keep to the states of the pool and of its handlers.
THEOREM PoolTypes == PoolSpec => []PoolTypeOK
<1>1. PoolInv => PoolTypeOK
  BY DEF PoolInv
<1> QED BY <1>1, PoolAlways, PTL

\* NothingLeaks: a handler that has ended, well or badly, holds no connection of
\* the pool, and no transaction holds two.
THEOREM NoLeaks == PoolSpec => []NothingLeaks
<1>1. PoolInv => NothingLeaks
  <2> SUFFICES ASSUME PoolInv PROVE NothingLeaks
    OBVIOUS
  <2>1. ASSUME NEW h \in Handlers, NEW c \in Held(h) PROVE stage[h] = "runs"
    <3>1. PICK l \in {1, 2} : c \in Conns /\ owner[c] = <<h, l>>
      BY <2>1 DEF Held
    <3> QED BY <3>1 DEF PoolInv, DepthOK, More
  <2> QED BY <2>1 DEF NothingLeaks, PoolInv, Unique
<1> QED BY <1>1, PoolAlways, PTL

LEMMA WaitSlotsFinite == IsFiniteSet(WaitSlots)
<1>1. IsFiniteSet({1}) /\ IsFiniteSet({1} \union {2})
  BY FS_Singleton, FS_AddElement
<1>2. {1, 2} = {1} \union {2}
  OBVIOUS
<1>3. IsFiniteSet(Slots)
  BY <1>1, <1>2, FS_Product, FiniteAssumption DEF Slots
<1> QED BY <1>3, FS_Subset DEF WaitSlots

\* When everybody at work waits, each connection is held by a transaction that
\* its handler, which waits too, may hold while it waits.
LEMMA Full ==
    ASSUME PoolInv, AllWait, NEW c \in Conns
    PROVE  owner[c] \in WaitSlots /\ stage[owner[c][1]] = "runs"
<1>1. owner[c] \in Slots
  BY DEF AllWait, Waits, FreeConns, PoolInv, PoolTypeOK
<1> DEFINE g == owner[c][1]  l == owner[c][2]
<1>2. owner[c] = <<g, l>> /\ g \in Handlers /\ l \in {1, 2}
  BY <1>1, SlotFacts
<1> HIDE DEF g, l
<1>3. More(g) /\ l <= At(g)
  BY <1>2 DEF PoolInv, DepthOK
<1>4. pos[g] + 1 \in DOMAIN Plan(g) /\ NextOp(g) \in {"open", "query"}
  <2>1. Waits(g)
    BY <1>2, <1>3 DEF AllWait, More
  <2>2. pos[g] + 1 \in 1 .. Len(Plan(g)) /\ DOMAIN Plan(g) = 1 .. Len(Plan(g))
    BY <1>2, <1>3, StepFacts, PlanFacts DEF PoolInv, PoolTypeOK
  <2> QED BY <2>1, <2>2 DEF Waits
<1>5. Plan(g)[pos[g] + 1].op # "close" /\ l <= Plan(g)[pos[g] + 1].at
  BY <1>3, <1>4 DEF NextOp, At, Ahead
<1>6. owner[c][1] = g /\ owner[c][2] = l
  BY DEF g, l
<1> QED BY <1>1, <1>3, <1>4, <1>5, <1>6 DEF More, WaitSlots

\* StuckIsFull, for any pool and any handlers.
THEOREM StuckFull == PoolSpec => []StuckIsFull
<1>1. PoolInv => StuckIsFull
  BY Full DEF StuckIsFull
<1> QED BY <1>1, PoolAlways, PTL

\* Hence there are no more connections than such transactions: none has two.
LEMMA Pigeons ==
    ASSUME PoolInv, AllWait
    PROVE  Cardinality(Conns) <= Cardinality(WaitSlots)
<1>1. \A c \in Conns : owner[c] \in WaitSlots
  BY Full
<1>2. owner \in [Conns -> WaitSlots]
  BY <1>1 DEF PoolInv, PoolTypeOK
<1>3. \A c, d \in Conns : owner[c] = owner[d] => c = d
  BY <1>1, SlotFacts DEF PoolInv, Unique, WaitSlots
<1>4. owner \in Injection(Conns, WaitSlots)
  BY <1>2, <1>3 DEF Injection, IsInjective
<1>5. IsFiniteSet(WaitSlots)
  BY WaitSlotsFinite
<1> QED BY <1>4, <1>5, FS_Injection, FiniteAssumption

\* SomebodyMoves: with one connection more than the handlers can hold while they
\* wait, there is no moment in which only a timeout helps.
THEOREM LargePoolMoves == PoolSpec => []SomebodyMoves
<1>1. PoolInv => SomebodyMoves
  <2> SUFFICES ASSUME PoolInv, Cardinality(Conns) > Cardinality(WaitSlots), AllWait
               PROVE  FALSE
    BY DEF SomebodyMoves
  <2>1. Cardinality(Conns) <= Cardinality(WaitSlots)
    BY Pigeons
  <2>2. Cardinality(Conns) \in Nat /\ Cardinality(WaitSlots) \in Nat
    BY WaitSlotsFinite, FS_CardinalityType, FiniteAssumption
  <2> QED BY <2>1, <2>2
<1> QED BY <1>1, PoolAlways, PTL

\* A handler whose transaction ran out still has one to close.
ExpiredOK == \A h \in expired : stage[h] = "runs" /\ More(h) /\ 1 <= At(h)

LEMMA ExpiredNext == PoolInv /\ ExpiredOK /\ [PoolNext]_poolVars => ExpiredOK'
<1> SUFFICES ASSUME PoolInv, ExpiredOK, [PoolNext]_poolVars, NEW g \in Handlers, g \in expired'
             PROVE  stage'[g] = "runs" /\ More(g)' /\ 1 <= At(g)'
  BY PoolNextInv DEF ExpiredOK, PoolInv, PoolTypeOK
<1> USE DEF PoolInv, PoolTypeOK
<1>1. CASE UNCHANGED poolVars
  BY <1>1, OtherFacts DEF poolVars, ExpiredOK
<1>2. ASSUME NEW h \in Handlers, Start(h) \/ Finish(h)
      PROVE  stage'[g] = "runs" /\ More(g)' /\ 1 <= At(g)'
  <2>1. g \in expired /\ g # h /\ pos'[g] = pos[g] /\ stage'[g] = stage[g]
    BY <1>2 DEF Start, Finish, ExpiredOK
  <2> QED BY <2>1, OtherFacts DEF ExpiredOK
<1>3. ASSUME NEW h \in Handlers, Throw(h)
      PROVE  stage'[g] = "runs" /\ More(g)' /\ 1 <= At(g)'
  <2>1. g \in expired /\ g # h /\ pos'[g] = pos[g] /\ stage'[g] = stage[g]
    BY <1>3 DEF Throw
  <2> QED BY <2>1, OtherFacts DEF ExpiredOK
<1>4. ASSUME NEW h \in Handlers, TimeOut(h)
      PROVE  stage'[g] = "runs" /\ More(g)' /\ 1 <= At(g)'
  <2>1. pos' = pos /\ stage' = stage /\ (g \in expired \/ g = h)
    BY <1>4 DEF TimeOut
  <2>2. CASE g \in expired
    BY <2>1, <2>2, OtherFacts DEF ExpiredOK
  <2>3. CASE g = h
    <3>1. PICK c \in Conns, l \in {1, 2} : owner[c] = <<h, l>>
      BY <1>4 DEF TimeOut, Held
    <3>2. More(h) /\ l <= At(h) /\ At(h) \in 0 .. 2
      BY <3>1, StepFacts DEF DepthOK, At, Kinds
    <3>3. 1 <= At(h)
      BY <3>2
    <3> QED BY <2>1, <2>3, <3>2, <3>3, OtherFacts DEF More
  <2> QED BY <2>1, <2>2, <2>3
<1>5. ASSUME NEW h \in Handlers, More(h), Proceed(h), UNCHANGED <<stage, expired>>,
             h \in expired => NextOp(h) # "close"
      PROVE  stage'[g] = "runs" /\ More(g)' /\ 1 <= At(g)'
  <2>1. CASE g # h
    BY <1>5, <2>1, OtherFacts DEF ExpiredOK, Proceed
  <2>2. CASE g = h
    <3>1. At(h) \in 1 .. 2 /\ After(Ahead(h)) \in Int /\ 1 <= After(Ahead(h))
      BY <1>5, <2>2, StepFacts DEF ExpiredOK, Kinds, NextOp, At, After
    <3>2. More(h)' /\ 1 <= At(h)'
      BY <1>5, <3>1, ProceedFacts
    <3> QED BY <2>2, <3>2 DEF More
  <2> QED BY <2>1, <2>2
<1> QED BY <1>1, <1>2, <1>3, <1>4, <1>5
        DEF PoolNext, Quiet, Go, Open, Query, Close, GiveUp

\* ExpiredFails: a handler whose transaction was rolled back under it does not
\* end as if it had been committed.
THEOREM ExpiredNeverDone == PoolSpec => ExpiredFails
<1>1. PoolInit => ExpiredOK
  BY DEF PoolInit, ExpiredOK
<1>2. PoolInv /\ ExpiredOK /\ [PoolNext]_poolVars => [\A h \in expired : stage'[h] # "done"]_poolVars
  <2> SUFFICES ASSUME PoolInv, ExpiredOK, PoolNext, NEW g \in expired PROVE stage'[g] # "done"
    BY DEF PoolNext
  <2>1. stage[g] = "runs" /\ More(g)
    BY DEF ExpiredOK
  <2> QED BY <2>1 DEF PoolInv, PoolTypeOK, PoolNext, Quiet, poolVars, Go, Start, Open, Query, Close, Finish, GiveUp, Throw, TimeOut
<1> QED BY <1>1, <1>2, ExpiredNext, PoolAlways, PTL DEF PoolSpec, ExpiredFails
-----------------------------------------------------------------------------
(***************************************************************************)
(* CouponScheduler.                                                        *)
(***************************************************************************)

\* The steps of a run.
Stages == InTransaction \union {"idle", "pop"}

\* A run has read how many there are of each coupon it still has to do: some.
SeenOK ==
    /\ DOMAIN seen = Runs
    /\ \A r \in Runs : DOMAIN seen[r] \subseteq Fcfs
    /\ \A r \in Runs : \A f \in DOMAIN seen[r] : seen[r][f] \in Nat \ {0}

\* There are only so many rows, committed or not.
RowsFinite == IsFiniteSet(userCoupons) /\ \A r \in Runs : IsFiniteSet(inserted[r])

\* What a run has in its hands at each of its steps.
StageOK == \A r \in Runs :
    /\ at[r] \in {"lock", "issue", "mark", "decrease"} <=> batch[r] # <<>>
    /\ at[r] \in {"idle", "pop", "lock"} => inserted[r] = {} /\ taken[r] = 0
    /\ at[r] \in {"mark", "decrease"} /\ ~bare[r] => U(r) \in inserted[r]

\* A run has lost its transaction: it has nothing open, and each user it has done
\* something for has a row at once.
BareOK == \A r \in Runs : bare[r] =>
    /\ inserted[r] = {} /\ taken[r] = 0 /\ failures # 0
    /\ at[r] \notin {"idle", "pop"}
    /\ at[r] \in {"mark", "decrease"} => RowsOf(U(r), F(r)) # {}

\* Decrements a transaction still has to make for a row it has inserted.
Owed(r) == IF at[r] \in {"mark", "decrease"} /\ ~bare[r] THEN 1 ELSE 0

\* A transaction decrements once for each row, or less often if something fails.
TakenOK == \A r \in Runs :
    /\ taken[r] + Owed(r) <= Cardinality(inserted[r])
    /\ failures = 0 => taken[r] + Owed(r) = Cardinality(inserted[r])

\* Rows that are not committed yet are those of users who have none, and of one
\* transaction only.
RowsApart ==
    /\ \A r \in Runs : \A u \in inserted[r] : RowsOf(u, F(r)) = {}
    /\ \A r, s \in Runs : r # s /\ CouponOf[F(r)] = CouponOf[F(s)] =>
           inserted[r] \intersect inserted[s] = {}

\* So is the row of a call that is about to commit.
CallsApart ==
    /\ \A p \in Calls : call[p] = "commit" =>
           RowsOf(CallUser[p], CallFcfs[p]) = {} /\ InsertedBy(CallUser[p], CallFcfs[p]) = {}
    /\ \A p, q \in Calls :
           call[p] = "commit" /\ call[q] = "commit" /\ CallUser[p] = CallUser[q]
             /\ CouponOf[CallFcfs[p]] = CouponOf[CallFcfs[q]] => p = q

BatchInv ==
    /\ SchedulerTypeOK /\ SeenOK /\ RowsFinite /\ StageOK /\ BareOK /\ TakenOK
    /\ RowsApart /\ CallsApart
-----------------------------------------------------------------------------
\* The smaller one of two numbers.
LEMMA SmallerOne ==
    ASSUME NEW m \in Int, NEW n \in Int
    PROVE  Min({m, n}) = IF m <= n THEN m ELSE n
<1> DEFINE least == IF m <= n THEN m ELSE n
<1>1. least \in {m, n} /\ \A k \in {m, n} : least <= k
  OBVIOUS
<1>2. \A k \in {m, n} : (\A j \in {m, n} : k <= j) => k = least
  OBVIOUS
<1> HIDE DEF least
<1>3. (CHOOSE k \in {m, n} : \A j \in {m, n} : k <= j) = least
  BY <1>1, <1>2
<1> QED BY <1>3 DEF Min, least

\* Who stands in the queue is either taken off it or left in it.
LEMMA PopSplits ==
    ASSUME NEW q \in Seq(Users), NEW n \in Nat
    PROVE  /\ Popped(q, n) \in Seq(Users) /\ Left(q, n) \in Seq(Users)
           /\ \A u : Contains(q, u) => Contains(Popped(q, n), u) \/ Contains(Left(q, n), u)
<1> DEFINE m == IF n <= Len(q) THEN n ELSE Len(q)
<1>1. Len(q) \in Nat /\ \A i \in 1 .. Len(q) : q[i] \in Users
  BY LenProperties
<1>2. Min({n, Len(q)}) = m
  BY <1>1, SmallerOne
<1>3. m \in Nat /\ m <= Len(q)
  BY <1>1
<1>4. Popped(q, n) = SubSeq(q, 1, m) /\ Left(q, n) = SubSeq(q, m + 1, Len(q))
  BY <1>2 DEF Popped, Left
<1> HIDE DEF m
<1>5. /\ SubSeq(q, 1, m) \in Seq(Users) /\ Len(SubSeq(q, 1, m)) = m
      /\ \A i \in 1 .. m : SubSeq(q, 1, m)[i] = q[i]
  <2>1. \A i \in 1 .. m : q[i] \in Users
    BY <1>1, <1>3
  <2>2. /\ SubSeq(q, 1, m) \in Seq(Users)
        /\ Len(SubSeq(q, 1, m)) = IF 1 <= m THEN m - 1 + 1 ELSE 0
        /\ \A i \in 1 .. m - 1 + 1 : SubSeq(q, 1, m)[i] = q[1 + i - 1]
    BY <1>3, <2>1, SubSeqProperties
  <2> QED BY <1>3, <2>2
<1>6. /\ SubSeq(q, m + 1, Len(q)) \in Seq(Users) /\ Len(SubSeq(q, m + 1, Len(q))) = Len(q) - m
      /\ \A i \in 1 .. Len(q) - m : SubSeq(q, m + 1, Len(q))[i] = q[m + i]
  <2>1. \A i \in m + 1 .. Len(q) : q[i] \in Users
    BY <1>1, <1>3
  <2>2. /\ SubSeq(q, m + 1, Len(q)) \in Seq(Users)
        /\ Len(SubSeq(q, m + 1, Len(q))) = IF m + 1 <= Len(q) THEN Len(q) - (m + 1) + 1 ELSE 0
        /\ \A i \in 1 .. Len(q) - (m + 1) + 1 : SubSeq(q, m + 1, Len(q))[i] = q[(m + 1) + i - 1]
    BY <1>1, <1>3, <2>1, SubSeqProperties
  <2>3. Len(SubSeq(q, m + 1, Len(q))) = Len(q) - m
    BY <1>1, <1>3, <2>2
  <2>4. ASSUME NEW i \in 1 .. Len(q) - m PROVE SubSeq(q, m + 1, Len(q))[i] = q[m + i]
    <3>1. i \in 1 .. Len(q) - (m + 1) + 1 /\ (m + 1) + i - 1 = m + i
      BY <1>1, <1>3
    <3>2. SubSeq(q, m + 1, Len(q))[i] = q[(m + 1) + i - 1]
      BY <2>2, <3>1
    <3> QED BY <3>1, <3>2
  <2> QED BY <2>2, <2>3, <2>4
<1>7. ASSUME NEW u, Contains(q, u)
      PROVE  Contains(SubSeq(q, 1, m), u) \/ Contains(SubSeq(q, m + 1, Len(q)), u)
  <2>1. PICK i \in 1 .. Len(q) : q[i] = u
    BY <1>7 DEF Contains
  <2>2. CASE i <= m
    <3>1. i \in 1 .. m
      BY <1>3, <2>2
    <3> QED BY <1>5, <2>1, <3>1 DEF Contains
  <2>3. CASE i > m
    <3>1. i - m \in 1 .. Len(q) - m /\ m + (i - m) = i
      BY <1>1, <1>3, <2>3
    <3> QED BY <1>6, <2>1, <3>1 DEF Contains
  <2> QED BY <1>1, <1>3, <2>2, <2>3
<1> QED BY <1>4, <1>5, <1>6, <1>7

\* The first of a batch is served, the others are still there.
LEMMA TailFacts ==
    ASSUME NEW q \in Seq(Users), q # <<>>
    PROVE  /\ Head(q) \in Users /\ Tail(q) \in Seq(Users)
           /\ Len(q) = 1 <=> Tail(q) = <<>>
           /\ \A u : Contains(q, u) => u = Head(q) \/ Contains(Tail(q), u)
<1>1. /\ Head(q) \in Users /\ Tail(q) \in Seq(Users) /\ Len(Tail(q)) = Len(q) - 1
      /\ \A i \in 1 .. Len(Tail(q)) : Tail(q)[i] = q[i + 1]
  BY HeadTailProperties
<1>2. Len(q) \in Nat \ {0} /\ Head(q) = q[1]
  BY EmptySeq
<1>3. Len(q) = 1 <=> Tail(q) = <<>>
  <2>1. Tail(q) = <<>> => Len(Tail(q)) = 0
    BY EmptySeq
  <2>2. Tail(q) # <<>> => Len(Tail(q)) \in Nat \ {0}
    BY <1>1, EmptySeq
  <2> QED BY <1>1, <1>2, <2>1, <2>2
<1>4. ASSUME NEW u, Contains(q, u) PROVE u = Head(q) \/ Contains(Tail(q), u)
  <2>1. PICK i \in 1 .. Len(q) : q[i] = u
    BY <1>4 DEF Contains
  <2>2. CASE i = 1
    BY <1>2, <2>1, <2>2
  <2>3. CASE i # 1
    <3>1. i - 1 \in 1 .. Len(Tail(q)) /\ (i - 1) + 1 = i
      BY <1>1, <1>2, <2>3
    <3> QED BY <1>1, <2>1, <3>1 DEF Contains
  <2> QED BY <2>2, <2>3
<1> QED BY <1>1, <1>3, <1>4

\* Joining the queue moves nobody else.
LEMMA AppendFacts ==
    ASSUME NEW q \in Seq(Users), NEW v \in Users
    PROVE  /\ Append(q, v) \in Seq(Users) /\ Contains(Append(q, v), v)
           /\ \A u : Contains(q, u) => Contains(Append(q, v), u)
<1>1. /\ Append(q, v) \in Seq(Users) /\ Len(Append(q, v)) = Len(q) + 1
      /\ \A i \in 1 .. Len(q) : Append(q, v)[i] = q[i]
      /\ Append(q, v)[Len(q) + 1] = v
  BY AppendProperties
<1>2. Len(q) \in Nat
  BY LenProperties
<1>3. Contains(Append(q, v), v)
  BY <1>1, <1>2 DEF Contains
<1>4. ASSUME NEW u, Contains(q, u) PROVE Contains(Append(q, v), u)
  <2>1. PICK i \in 1 .. Len(q) : q[i] = u
    BY <1>4 DEF Contains
  <2>2. i \in 1 .. Len(Append(q, v)) /\ Append(q, v)[i] = u
    BY <1>1, <1>2, <2>1
  <2> QED BY <2>2 DEF Contains
<1> QED BY <1>1, <1>3, <1>4
-----------------------------------------------------------------------------
LEMMA BatchInit == SchedulerInit => BatchInv /\ NobodyForgotten
<1> SUFFICES ASSUME SchedulerInit PROVE BatchInv /\ NobodyForgotten
  OBVIOUS
<1> USE DEF SchedulerInit
<1>1. SchedulerTypeOK
  <2>1. NoFcfs \in Fcfs
    BY FcfsAssumption DEF NoFcfs
  <2>2. \A f \in Fcfs : Range(AtFirst[f]) \in SUBSET Users
    <3> SUFFICES ASSUME NEW f \in Fcfs PROVE \A i \in DOMAIN AtFirst[f] : AtFirst[f][i] \in Users
      BY DEF Range
    <3>1. AtFirst[f] \in Seq(Users)
      BY RequestsAssumption
    <3> QED BY <3>1, ElementOfSeq, LenProperties
  <2> QED BY <2>1, <2>2, FcfsAssumption, RequestsAssumption, BoundsAssumption, EmptySeq
          DEF SchedulerTypeOK
<1>2. SeenOK
  <2>1. DOMAIN <<>> = {}
    OBVIOUS
  <2> QED BY <2>1 DEF SeenOK
<1>3. RowsFinite
  BY FS_EmptySet DEF RowsFinite
<1>4. StageOK /\ BareOK
  BY DEF StageOK, BareOK
<1>5. TakenOK
  BY FS_EmptySet DEF TakenOK, Owed
<1>6. RowsApart /\ CallsApart
  BY DEF RowsApart, CallsApart
<1>7. NobodyForgotten
  <2> SUFFICES ASSUME NEW f \in Fcfs, NEW u \in asked[f] PROVE Contains(queue[f], u)
    BY DEF NobodyForgotten
  <2>1. AtFirst[f] \in Seq(Users) /\ u \in Range(AtFirst[f]) /\ queue[f] = AtFirst[f]
    BY RequestsAssumption
  <2>2. DOMAIN AtFirst[f] = 1 .. Len(AtFirst[f])
    BY <2>1, LenProperties
  <2> QED BY <2>1, <2>2 DEF Contains, Range
<1> QED BY <1>1, <1>2, <1>3, <1>4, <1>5, <1>6, <1>7 DEF BatchInv
-----------------------------------------------------------------------------
\* What has failed, has failed.
LEMMA FailuresGrow ==
    ASSUME SchedulerTypeOK, Works \/ Breaks \/ failures' = failures + 1
    PROVE  /\ failures' \in Nat
           /\ failures' = 0 => failures = 0 /\ ~Breaks
BY DEF SchedulerTypeOK, Works, Breaks

\* The step of a run from one stage to another.
LEMMA GoesFacts ==
    ASSUME SchedulerTypeOK, NEW r \in Runs, NEW from, NEW to \in Stages, Goes(r, from, to)
    PROVE  /\ at' \in [Runs -> Stages] /\ at[r] = from /\ at'[r] = to
           /\ \A s \in Runs : s # r => at'[s] = at[s]
BY DEF SchedulerTypeOK, Goes, Stages

\* Going on with the next user: the one before is out of the run's hands.
LEMMA NextUserFacts ==
    ASSUME BatchInv, NEW r \in Runs, at[r] \in {"issue", "mark", "decrease"},
           NEW b \in BOOLEAN, NextUser(r, b)
    PROVE  /\ batch' \in [Runs -> Seq(Users)] /\ at' \in [Runs -> Stages]
           /\ at'[r] \in {"issue", "lock", "commit"} /\ (at'[r] # "commit" <=> batch'[r] # <<>>)
           /\ at'[r] = "lock" => b
           /\ \A s \in Runs : s # r => at'[s] = at[s] /\ batch'[s] = batch[s]
           /\ \A u : Contains(batch[r], u) => u = U(r) \/ Contains(batch'[r], u)
<1> DEFINE next == IF Len(batch[r]) = 1 THEN "commit" ELSE IF b THEN "lock" ELSE "issue"
<1>1. batch \in [Runs -> Seq(Users)] /\ at \in [Runs -> Stages]
  BY DEF BatchInv, SchedulerTypeOK, Stages
<1>2. batch[r] \in Seq(Users) /\ batch[r] # <<>>
  BY <1>1 DEF BatchInv, StageOK
<1>3. /\ Tail(batch[r]) \in Seq(Users)
      /\ Len(batch[r]) = 1 <=> Tail(batch[r]) = <<>>
      /\ \A u : Contains(batch[r], u) => u = Head(batch[r]) \/ Contains(Tail(batch[r]), u)
  BY <1>2, TailFacts
<1>4. /\ batch' = [batch EXCEPT ![r] = Tail(batch[r])]
      /\ at' = [at EXCEPT ![r] = next]
  BY DEF NextUser
<1>5. next \in Stages /\ next \in {"issue", "lock", "commit"}
      /\ (next = "commit" <=> Len(batch[r]) = 1) /\ (next = "lock" => b)
  BY DEF Stages, InTransaction
<1> HIDE DEF next
<1>6. batch'[r] = Tail(batch[r]) /\ batch' \in [Runs -> Seq(Users)]
  BY <1>1, <1>3, <1>4
<1>7. at'[r] = next /\ at' \in [Runs -> Stages]
  BY <1>1, <1>4, <1>5
<1>8. \A s \in Runs : s # r => at'[s] = at[s] /\ batch'[s] = batch[s]
  BY <1>1, <1>4
<1> QED BY <1>3, <1>5, <1>6, <1>7, <1>8 DEF U

\* A step that opens nothing, and commits no row whose key is open elsewhere.
LEMMA FewerOpen ==
    ASSUME BatchInv,
           \A s \in Runs : \A u \in inserted'[s] : u \in inserted[s] /\ current'[s] = current[s],
           \A p \in Calls : call'[p] = "commit" => call[p] = "commit",
           \A c \in userCoupons' \ userCoupons :
               /\ \A s \in Runs : c.user \in inserted'[s] => CouponOf[c.fcfs] # CouponOf[F(s)]
               /\ \A p \in Calls : call'[p] = "commit" /\ c.user = CallUser[p] =>
                      CouponOf[c.fcfs] # CouponOf[CallFcfs[p]]
    PROVE  RowsApart' /\ CallsApart'
<1>1. ASSUME NEW s \in Runs, NEW u \in inserted'[s] PROVE RowsOf(u, F(s))' = {}
  <2>1. u \in inserted[s] /\ F(s)' = F(s) /\ RowsOf(u, F(s)) = {}
    BY DEF F, BatchInv, RowsApart
  <2>2. \A c \in userCoupons' \ userCoupons : c.user = u => CouponOf[c.fcfs] # CouponOf[F(s)]
    OBVIOUS
  <2> QED BY <2>1, <2>2 DEF RowsOf
<1>2. ASSUME NEW s \in Runs, NEW t \in Runs, s # t, CouponOf[F(s)'] = CouponOf[F(t)']
      PROVE  inserted'[s] \intersect inserted'[t] = {}
  <2> SUFFICES ASSUME NEW u, u \in inserted'[s], u \in inserted'[t] PROVE FALSE
    OBVIOUS
  <2>1. /\ u \in inserted[s] /\ u \in inserted[t]
        /\ F(s)' = F(s) /\ F(t)' = F(t)
    BY DEF F
  <2> QED BY <1>2, <2>1 DEF BatchInv, RowsApart
<1>3. ASSUME NEW p \in Calls, call'[p] = "commit"
      PROVE  RowsOf(CallUser[p], CallFcfs[p])' = {} /\ InsertedBy(CallUser[p], CallFcfs[p])' = {}
  <2>1. RowsOf(CallUser[p], CallFcfs[p]) = {} /\ InsertedBy(CallUser[p], CallFcfs[p]) = {}
    BY <1>3 DEF BatchInv, CallsApart
  <2>2. RowsOf(CallUser[p], CallFcfs[p])' = {}
    BY <1>3, <2>1 DEF RowsOf
  <2>3. InsertedBy(CallUser[p], CallFcfs[p])' = {}
    BY <2>1 DEF InsertedBy, F
  <2> QED BY <2>2, <2>3
<1>4. \A p, q \in Calls :
          call'[p] = "commit" /\ call'[q] = "commit" /\ CallUser[p] = CallUser[q]
            /\ CouponOf[CallFcfs[p]] = CouponOf[CallFcfs[q]] => p = q
  BY DEF BatchInv, CallsApart
<1> QED BY <1>1, <1>2, <1>3, <1>4 DEF RowsApart, CallsApart

\* A step that neither commits nor changes what is open.
LEMMA SameRows ==
    ASSUME BatchInv, UNCHANGED <<userCoupons, inserted, current, call>>
    PROVE  RowsFinite' /\ RowsApart' /\ CallsApart'
BY FewerOpen DEF BatchInv, RowsFinite

\* A step of one run, for the others.
LEMMA OthersStay ==
    ASSUME BatchInv, NEW r \in Runs, failures' = 0 => failures = 0, userCoupons \subseteq userCoupons',
           \A s \in Runs : s # r => /\ at'[s] = at[s] /\ batch'[s] = batch[s]
                                    /\ inserted'[s] = inserted[s] /\ taken'[s] = taken[s]
                                    /\ bare'[s] = bare[s] /\ current'[s] = current[s],
           at'[r] \in {"lock", "issue", "mark", "decrease"} <=> batch'[r] # <<>>,
           at'[r] \in {"idle", "pop", "lock"} => inserted'[r] = {} /\ taken'[r] = 0,
           at'[r] \in {"mark", "decrease"} /\ ~bare'[r] => U(r)' \in inserted'[r],
           bare'[r] => /\ inserted'[r] = {} /\ taken'[r] = 0 /\ failures' # 0
                       /\ at'[r] \notin {"idle", "pop"}
                       /\ at'[r] \in {"mark", "decrease"} => RowsOf(U(r), F(r))' # {},
           taken'[r] + Owed(r)' <= Cardinality(inserted'[r]),
           failures' = 0 => taken'[r] + Owed(r)' = Cardinality(inserted'[r])
    PROVE  StageOK' /\ BareOK' /\ TakenOK'
<1>1. ASSUME NEW s \in Runs
      PROVE  /\ at'[s] \in {"lock", "issue", "mark", "decrease"} <=> batch'[s] # <<>>
             /\ at'[s] \in {"idle", "pop", "lock"} => inserted'[s] = {} /\ taken'[s] = 0
             /\ at'[s] \in {"mark", "decrease"} /\ ~bare'[s] => U(s)' \in inserted'[s]
  BY DEF BatchInv, StageOK, U
<1>2. ASSUME NEW s \in Runs
      PROVE  /\ taken'[s] + Owed(s)' <= Cardinality(inserted'[s])
             /\ failures' = 0 => taken'[s] + Owed(s)' = Cardinality(inserted'[s])
  BY DEF BatchInv, TakenOK, Owed
<1>3. ASSUME NEW s \in Runs, bare'[s]
      PROVE  /\ inserted'[s] = {} /\ taken'[s] = 0 /\ failures' # 0
             /\ at'[s] \notin {"idle", "pop"}
             /\ at'[s] \in {"mark", "decrease"} => RowsOf(U(s), F(s))' # {}
  <2>1. CASE s = r
    BY <1>3, <2>1
  <2>2. CASE s # r
    <3>1. bare[s] /\ U(s)' = U(s) /\ F(s)' = F(s)
      BY <1>3, <2>2 DEF U, F
    <3>2. RowsOf(U(s), F(s)) \subseteq RowsOf(U(s), F(s))'
      BY <3>1 DEF RowsOf
    <3> QED BY <2>2, <3>1, <3>2 DEF BatchInv, BareOK
  <2> QED BY <2>1, <2>2
<1> QED BY <1>1, <1>2, <1>3 DEF StageOK, TakenOK, BareOK

LEMMA RequestInv ==
    ASSUME BatchInv, NEW f \in Fcfs, NEW u \in Users, AddToRequestQueue(f, u)
    PROVE  BatchInv'
<1>1. queue' \in [Fcfs -> Seq(Users)] /\ asked' \in [Fcfs -> SUBSET Users]
  <2>1. queue \in [Fcfs -> Seq(Users)] /\ asked \in [Fcfs -> SUBSET Users]
    BY DEF BatchInv, SchedulerTypeOK
  <2>2. Append(queue[f], u) \in Seq(Users)
    BY <2>1, AppendFacts
  <2> QED BY <2>1, <2>2 DEF AddToRequestQueue
<1>2. SchedulerTypeOK' /\ SeenOK'
  BY <1>1 DEF BatchInv, SchedulerTypeOK, SeenOK, AddToRequestQueue, mysql, run, direct
<1>3. StageOK' /\ BareOK' /\ TakenOK'
  BY DEF BatchInv, StageOK, BareOK, TakenOK, Owed, U, F, RowsOf, AddToRequestQueue, mysql, run
<1>4. RowsFinite' /\ RowsApart' /\ CallsApart'
  BY SameRows DEF AddToRequestQueue, mysql, run, direct
<1> QED BY <1>2, <1>3, <1>4 DEF BatchInv

\* What a step of a call does: it inserts, commits or does neither.
LEMMA CallFacts ==
    ASSUME BatchInv, NEW p \in Calls, IssueFcfsCoupon(p)
    PROVE  /\ UNCHANGED <<stock, queue, asked, run, now>> /\ (Works \/ Breaks)
           /\ call' \in [Calls -> {"new", "hasIssued", "count", "insert", "commit", "mark", "over"}]
           /\ noted' \in [Calls -> Int] /\ issued' \in [Fcfs -> SUBSET Users]
           /\ \A q \in Calls : q # p => call'[q] = call[q]
           /\ \/ UNCHANGED userCoupons /\ call'[p] # "commit"
              \/ /\ UNCHANGED userCoupons /\ call'[p] = "commit"
                 /\ KeyFree(CallUser[p], CallFcfs[p])
              \/ CommitDirectly(p) /\ call[p] = "commit" /\ call'[p] = "mark"
<1>1. /\ call \in [Calls -> {"new", "hasIssued", "count", "insert", "commit", "mark", "over"}]
      /\ noted \in [Calls -> Int] /\ issued \in [Fcfs -> SUBSET Users] /\ stock \in [Fcfs -> Int]
  BY DEF BatchInv, SchedulerTypeOK
<1>2. CallUser[p] \in Users /\ CallFcfs[p] \in Fcfs
  BY RequestsAssumption
<1>3. CASE FindFcfsCoupon(p)
  BY <1>1, <1>2, <1>3 DEF FindFcfsCoupon, CallGoes, AsideFromCall
<1>4. CASE HasIssued(p) \/ GetIssuedCount(p) \/ EndCall(p)
  BY <1>1, <1>4 DEF HasIssued, GetIssuedCount, EndCall, CallGoes, AsideFromCall
<1>5. CASE InsertDirectly(p)
  BY <1>1, <1>5 DEF InsertDirectly, CallGoes, AsideFromCall
<1>6. CASE CommitDirectly(p)
  BY <1>1, <1>6 DEF CommitDirectly, CallGoes, AsideFromCall
<1>7. CASE MarkDirectly(p)
  BY <1>1, <1>2, <1>7 DEF MarkDirectly, CallGoes, AsideFromCall
<1> QED BY <1>3, <1>4, <1>5, <1>6, <1>7 DEF IssueFcfsCoupon

\* A call that has inserted its row.
LEMMA InsertApart ==
    ASSUME BatchInv, NEW p \in Calls, UNCHANGED <<userCoupons, run>>,
           KeyFree(CallUser[p], CallFcfs[p]), \A q \in Calls : q # p => call'[q] = call[q]
    PROVE  RowsApart' /\ CallsApart'
<1>1. RowsApart'
  BY DEF BatchInv, RowsApart, RowsOf, F, run
<1>2. \A q \in Calls : /\ RowsOf(CallUser[q], CallFcfs[q])' = RowsOf(CallUser[q], CallFcfs[q])
                       /\ InsertedBy(CallUser[q], CallFcfs[q])' = InsertedBy(CallUser[q], CallFcfs[q])
  BY DEF RowsOf, InsertedBy, F, run
<1>3. ASSUME NEW q \in Calls, call'[q] = "commit"
      PROVE  /\ RowsOf(CallUser[q], CallFcfs[q])' = {}
             /\ InsertedBy(CallUser[q], CallFcfs[q])' = {}
  <2>1. CASE q = p
    BY <1>2, <2>1 DEF KeyFree
  <2>2. CASE q # p
    BY <1>2, <1>3, <2>2 DEF BatchInv, CallsApart
  <2> QED BY <2>1, <2>2
<1>4. ASSUME NEW q \in Calls, q # p, call'[q] = "commit", CallUser[q] = CallUser[p],
             CouponOf[CallFcfs[q]] = CouponOf[CallFcfs[p]]
      PROVE  FALSE
  <2>1. q \in CalledBy(CallUser[p], CallFcfs[p])
    BY <1>4 DEF CalledBy
  <2> QED BY <2>1 DEF KeyFree
<1>5. ASSUME NEW q \in Calls, NEW t \in Calls, call'[q] = "commit", call'[t] = "commit",
             CallUser[q] = CallUser[t], CouponOf[CallFcfs[q]] = CouponOf[CallFcfs[t]]
      PROVE  q = t
  <2>1. CASE q = p \/ t = p
    BY <1>4, <1>5, <2>1
  <2>2. CASE q # p /\ t # p
    BY <1>5, <2>2 DEF BatchInv, CallsApart
  <2> QED BY <2>1, <2>2
<1> QED BY <1>1, <1>3, <1>5 DEF CallsApart

LEMMA CallInv ==
    ASSUME BatchInv, NEW p \in Calls, IssueFcfsCoupon(p)
    PROVE  BatchInv'
<1> DEFINE row == [user |-> CallUser[p], fcfs |-> CallFcfs[p], by |-> "http"]
<1>0. /\ UNCHANGED <<stock, queue, asked, run, now>> /\ (Works \/ Breaks)
      /\ call' \in [Calls -> {"new", "hasIssued", "count", "insert", "commit", "mark", "over"}]
      /\ noted' \in [Calls -> Int] /\ issued' \in [Fcfs -> SUBSET Users]
      /\ \A q \in Calls : q # p => call'[q] = call[q]
  BY CallFacts
<1>1. failures' \in Nat /\ (failures' = 0 => failures = 0)
  BY <1>0, FailuresGrow DEF BatchInv
<1>2. UNCHANGED userCoupons \/ userCoupons' = userCoupons \union {row}
  BY CallFacts DEF CommitDirectly
<1>3. row \in UserCoupon
  BY RequestsAssumption DEF UserCoupon
<1>4. SchedulerTypeOK' /\ SeenOK'
  BY <1>0, <1>1, <1>2, <1>3 DEF BatchInv, SchedulerTypeOK, SeenOK, run
<1>5. StageOK' /\ TakenOK'
  BY <1>0, <1>1 DEF BatchInv, StageOK, TakenOK, Owed, U, run
<1>6. BareOK'
  <2>1. ASSUME NEW r \in Runs PROVE RowsOf(U(r), F(r)) \subseteq RowsOf(U(r), F(r))'
    BY <1>0, <1>2 DEF RowsOf, U, F, run
  <2> QED BY <1>0, <1>1, <2>1 DEF BatchInv, BareOK, run
<1>7. RowsFinite'
  <2>1. IsFiniteSet(userCoupons \union {row})
    BY FS_AddElement DEF BatchInv, RowsFinite
  <2> QED BY <1>0, <1>2, <2>1 DEF BatchInv, RowsFinite, run
<1>8. CASE UNCHANGED userCoupons /\ call'[p] # "commit"
  <2>1. RowsApart' /\ CallsApart'
    BY <1>0, <1>8, FewerOpen DEF run
  <2> QED BY <1>4, <1>5, <1>6, <1>7, <2>1 DEF BatchInv
<1>9. CASE UNCHANGED userCoupons /\ KeyFree(CallUser[p], CallFcfs[p])
  <2>1. RowsApart' /\ CallsApart'
    BY <1>0, <1>9, InsertApart
  <2> QED BY <1>4, <1>5, <1>6, <1>7, <2>1 DEF BatchInv
<1>10. CASE CommitDirectly(p) /\ call[p] = "commit" /\ call'[p] = "mark"
  <2>1. \A s \in Runs : CallUser[p] \in inserted[s] => CouponOf[CallFcfs[p]] # CouponOf[F(s)]
    BY <1>10 DEF BatchInv, CallsApart, InsertedBy
  <2>2. \A q \in Calls : call'[q] = "commit" /\ CallUser[p] = CallUser[q] =>
            CouponOf[CallFcfs[p]] # CouponOf[CallFcfs[q]]
    BY <1>0, <1>10 DEF BatchInv, CallsApart
  <2>3. \A c \in userCoupons' \ userCoupons : c.user = CallUser[p] /\ c.fcfs = CallFcfs[p]
    BY <1>2
  <2>4. RowsApart' /\ CallsApart'
    BY <1>0, <1>10, <2>1, <2>2, <2>3, FewerOpen DEF run
  <2> QED BY <1>4, <1>5, <1>6, <1>7, <2>4 DEF BatchInv
<1> QED BY <1>8, <1>9, <1>10, CallFacts

LEMMA TickInv ==
    ASSUME BatchInv, Tick
    PROVE  BatchInv'
<1>1. SchedulerTypeOK' /\ SeenOK'
  BY BoundsAssumption DEF BatchInv, SchedulerTypeOK, SeenOK, Tick, mysql, redis, run, direct
<1>2. StageOK' /\ BareOK' /\ TakenOK'
  BY DEF BatchInv, StageOK, BareOK, TakenOK, Owed, U, F, RowsOf, Tick, mysql, run
<1>3. RowsFinite' /\ RowsApart' /\ CallsApart'
  BY SameRows DEF Tick, mysql, run, direct
<1> QED BY <1>1, <1>2, <1>3 DEF BatchInv

LEMMA StartRunInv ==
    ASSUME BatchInv, NEW r \in Runs, StartRun(r)
    PROVE  BatchInv'
<1>0. /\ UNCHANGED <<mysql, redis, current, batch, inserted, taken, bare, direct, now, failures>>
      /\ Goes(r, "idle", "pop")
  BY DEF StartRun
<1>1. /\ at' \in [Runs -> Stages] /\ at[r] = "idle" /\ at'[r] = "pop"
      /\ \A s \in Runs : s # r => at'[s] = at[s]
  BY <1>0, GoesFacts DEF BatchInv, Stages
<1>2. PICK page \in SUBSET Available : seen' = [seen EXCEPT ![r] = [f \in page |-> stock[f]]]
  BY DEF StartRun
<1> DEFINE read == [f \in page |-> stock[f]]
<1>3. DOMAIN read \subseteq Fcfs /\ \A f \in DOMAIN read : read[f] \in Nat \ {0}
  BY DEF BatchInv, SchedulerTypeOK, Available
<1> HIDE DEF read
<1>4. SeenOK'
  BY <1>2, <1>3 DEF BatchInv, SeenOK, read
<1>5. SchedulerTypeOK'
  BY <1>0, <1>1, <1>4 DEF BatchInv, SchedulerTypeOK, SeenOK, Stages, mysql, redis, direct
<1>6. StageOK' /\ BareOK' /\ TakenOK'
  <2>1. Owed(r)' = Owed(r) /\ U(r)' = U(r)
    BY <1>0, <1>1 DEF Owed, U
  <2>2. inserted[r] = {} /\ taken[r] = 0 /\ batch[r] = <<>> /\ ~bare[r]
    BY <1>1 DEF BatchInv, StageOK, BareOK
  <2>3. /\ taken[r] + Owed(r) <= Cardinality(inserted[r])
        /\ failures = 0 => taken[r] + Owed(r) = Cardinality(inserted[r])
    BY DEF BatchInv, TakenOK
  <2> QED BY <1>0, <1>1, <2>1, <2>2, <2>3, OthersStay DEF mysql
<1>7. RowsFinite' /\ RowsApart' /\ CallsApart'
  BY <1>0, SameRows DEF mysql, direct
<1> QED BY <1>4, <1>5, <1>6, <1>7 DEF BatchInv

\* The users that are taken off a queue, and those that stay.
LEMMA PopFacts ==
    ASSUME BatchInv, NEW r \in Runs, NEW f \in DOMAIN seen[r]
    PROVE  /\ f \in Fcfs /\ HowMany(seen[r][f]) \in Nat \ {0}
           /\ Popped(queue[f], HowMany(seen[r][f])) \in Seq(Users)
           /\ Left(queue[f], HowMany(seen[r][f])) \in Seq(Users)
           /\ \A u : Contains(queue[f], u) =>
                  \/ Contains(Popped(queue[f], HowMany(seen[r][f])), u)
                  \/ Contains(Left(queue[f], HowMany(seen[r][f])), u)
<1>1. f \in Fcfs /\ HowMany(seen[r][f]) \in Nat \ {0}
  BY BoundsAssumption DEF BatchInv, SeenOK, HowMany
<1>2. queue[f] \in Seq(Users)
  BY <1>1 DEF BatchInv, SchedulerTypeOK
<1> QED BY <1>1, <1>2, PopSplits

LEMMA PopInv ==
    ASSUME BatchInv, NEW r \in Runs, Pop(r)
    PROVE  BatchInv'
<1>0. PICK f \in DOMAIN seen[r] :
          LET n == HowMany(seen[r][f])  users == Popped(queue[f], n) IN
          /\ Goes(r, "pop", IF users = <<>> THEN "pop" ELSE "lock")
          /\ seen' = [seen EXCEPT ![r] = [g \in DOMAIN @ \ {f} |-> @[g]]]
          /\ current' = [current EXCEPT ![r] = IF users = <<>> THEN @ ELSE f]
          /\ batch' = [batch EXCEPT ![r] = users]
          /\ queue' = [queue EXCEPT ![f] = Left(@, n)]
          /\ UNCHANGED <<mysql, asked, issued, inserted, taken, bare, direct, now, failures>>
  BY DEF Pop
<1> DEFINE n == HowMany(seen[r][f])
           users == Popped(queue[f], n)
           rest == Left(queue[f], n)
<1>1. f \in Fcfs /\ users \in Seq(Users) /\ rest \in Seq(Users)
  BY PopFacts
<1>2. /\ batch' = [batch EXCEPT ![r] = users] /\ queue' = [queue EXCEPT ![f] = rest]
      /\ Goes(r, "pop", IF users = <<>> THEN "pop" ELSE "lock")
      /\ current' = [current EXCEPT ![r] = IF users = <<>> THEN @ ELSE f]
  BY <1>0
<1> HIDE DEF users, rest, n
<1>3. /\ at' \in [Runs -> Stages] /\ at[r] = "pop"
      /\ at'[r] = (IF users = <<>> THEN "pop" ELSE "lock")
      /\ \A s \in Runs : s # r => at'[s] = at[s]
  <2>1. (IF users = <<>> THEN "pop" ELSE "lock") \in Stages
    BY DEF Stages, InTransaction
  <2> QED BY <1>2, <2>1, GoesFacts DEF BatchInv
<1>4. /\ batch' \in [Runs -> Seq(Users)] /\ queue' \in [Fcfs -> Seq(Users)]
      /\ batch'[r] = users /\ \A s \in Runs : s # r => batch'[s] = batch[s]
  BY <1>1, <1>2 DEF BatchInv, SchedulerTypeOK
<1>5. /\ current' \in [Runs -> Fcfs]
      /\ \A s \in Runs : s # r => current'[s] = current[s]
  BY <1>1, <1>2 DEF BatchInv, SchedulerTypeOK
<1>6. UNCHANGED <<mysql, asked, issued, inserted, taken, bare, direct, now, failures>>
  BY <1>0
<1>7. inserted[r] = {} /\ taken[r] = 0 /\ ~bare[r]
  BY <1>3 DEF BatchInv, StageOK, BareOK
<1>8. SeenOK'
  <2>1. seen' = [seen EXCEPT ![r] = [g \in DOMAIN seen[r] \ {f} |-> seen[r][g]]]
    BY <1>0
  <2> QED BY <2>1 DEF BatchInv, SeenOK
<1>9. SchedulerTypeOK'
  BY <1>3, <1>4, <1>5, <1>6, <1>8 DEF BatchInv, SchedulerTypeOK, SeenOK, Stages, mysql, direct
<1>10. StageOK' /\ BareOK' /\ TakenOK'
  <2>1. Owed(r)' = 0 /\ Owed(r) = 0
    BY <1>3 DEF Owed
  <2>2. /\ taken[r] + Owed(r) <= Cardinality(inserted[r])
        /\ failures = 0 => taken[r] + Owed(r) = Cardinality(inserted[r])
    BY DEF BatchInv, TakenOK
  <2> QED BY <1>3, <1>4, <1>5, <1>6, <1>7, <2>1, <2>2, OthersStay DEF mysql
<1>11. RowsFinite'
  BY <1>6 DEF BatchInv, RowsFinite, mysql
<1>12. RowsApart' /\ CallsApart'
  <2>1. \A s \in Runs : \A u \in inserted'[s] : u \in inserted[s] /\ current'[s] = current[s]
    BY <1>5, <1>6, <1>7
  <2> QED BY <1>6, <2>1, FewerOpen DEF mysql, direct
<1> QED BY <1>8, <1>9, <1>10, <1>11, <1>12 DEF BatchInv

LEMMA FinishRunInv ==
    ASSUME BatchInv, NEW r \in Runs, FinishRun(r) \/ Lock(r)
    PROVE  BatchInv'
<1>0. /\ UNCHANGED <<mysql, redis, seen, current, batch, inserted, taken, bare, direct, now, failures>>
      /\ Goes(r, "pop", "idle") \/ Goes(r, "lock", "issue")
  BY DEF FinishRun, Lock
<1>1. /\ at' \in [Runs -> Stages]
      /\ (at[r] = "pop" /\ at'[r] = "idle") \/ (at[r] = "lock" /\ at'[r] = "issue")
      /\ \A s \in Runs : s # r => at'[s] = at[s]
  BY <1>0, GoesFacts DEF BatchInv, Stages, InTransaction
<1>2. SchedulerTypeOK' /\ SeenOK'
  BY <1>0, <1>1 DEF BatchInv, SchedulerTypeOK, SeenOK, Stages, mysql, redis, direct
<1>3. StageOK' /\ BareOK' /\ TakenOK'
  <2>1. Owed(r)' = Owed(r)
    BY <1>0, <1>1 DEF Owed
  <2>2. /\ inserted[r] = {} /\ taken[r] = 0 /\ (at'[r] = "issue" <=> batch[r] # <<>>)
        /\ bare[r] => failures # 0 /\ at'[r] = "issue"
    BY <1>1 DEF BatchInv, StageOK, BareOK
  <2>3. /\ taken[r] + Owed(r) <= Cardinality(inserted[r])
        /\ failures = 0 => taken[r] + Owed(r) = Cardinality(inserted[r])
    BY DEF BatchInv, TakenOK
  <2> QED BY <1>0, <1>1, <2>1, <2>2, <2>3, OthersStay DEF mysql
<1>4. RowsFinite' /\ RowsApart' /\ CallsApart'
  BY <1>0, SameRows DEF mysql, direct
<1> QED BY <1>2, <1>3, <1>4 DEF BatchInv

LEMMA SkipInv ==
    ASSUME BatchInv, NEW r \in Runs, Skip(r)
    PROVE  BatchInv'
<1>0. /\ at[r] = "issue" /\ NextUser(r, bare[r]) /\ (Works \/ Breaks) /\ bare[r] \in BOOLEAN
      /\ UNCHANGED <<mysql, redis, seen, current, inserted, taken, bare, direct, now>>
  BY DEF Skip, Aside, redis, BatchInv, SchedulerTypeOK
<1>1. failures' \in Nat /\ (failures' = 0 => failures = 0)
  BY <1>0, FailuresGrow DEF BatchInv
<1>2. /\ batch' \in [Runs -> Seq(Users)] /\ at' \in [Runs -> Stages]
      /\ at'[r] \in {"issue", "lock", "commit"} /\ (at'[r] # "commit" <=> batch'[r] # <<>>)
      /\ at'[r] = "lock" => bare[r]
      /\ \A s \in Runs : s # r => at'[s] = at[s] /\ batch'[s] = batch[s]
  BY <1>0, NextUserFacts
<1>3. SchedulerTypeOK' /\ SeenOK'
  BY <1>0, <1>1, <1>2 DEF BatchInv, SchedulerTypeOK, SeenOK, Stages, mysql, redis, direct
<1>4. StageOK' /\ BareOK' /\ TakenOK'
  <2>1. Owed(r)' = 0 /\ Owed(r) = 0
    BY <1>0, <1>2 DEF Owed
  <2>2. /\ taken[r] + Owed(r) <= Cardinality(inserted[r])
        /\ failures = 0 => taken[r] + Owed(r) = Cardinality(inserted[r])
    BY DEF BatchInv, TakenOK
  <2>3. bare[r] => inserted[r] = {} /\ taken[r] = 0 /\ failures # 0
    BY DEF BatchInv, BareOK
  <2> QED BY <1>0, <1>1, <1>2, <2>1, <2>2, <2>3, OthersStay DEF mysql
<1>5. RowsFinite' /\ RowsApart' /\ CallsApart'
  BY <1>0, SameRows DEF mysql, direct
<1> QED BY <1>3, <1>4, <1>5 DEF BatchInv

\* What createUserCoupon adds to a transaction.
LEMMA CreateFacts ==
    ASSUME BatchInv, NEW r \in Runs, CreateUserCoupon(r)
    PROVE  /\ U(r) \in Users /\ F(r) \in Fcfs /\ U(r) \notin inserted[r]
           /\ ~bare[r] => /\ inserted' \in [Runs -> SUBSET Users]
                          /\ inserted'[r] = inserted[r] \union {U(r)}
                          /\ IsFiniteSet(inserted'[r])
                          /\ Cardinality(inserted'[r]) = Cardinality(inserted[r]) + 1
                          /\ \A s \in Runs : s # r => inserted'[s] = inserted[s]
<1>1. U(r) \in Users /\ F(r) \in Fcfs
  <2>1. batch[r] \in Seq(Users) /\ batch[r] # <<>>
    BY DEF BatchInv, SchedulerTypeOK, StageOK, CreateUserCoupon, Goes
  <2> QED BY <2>1, TailFacts DEF U, F, BatchInv, SchedulerTypeOK
<1>2. U(r) \notin inserted[r]
  BY DEF CreateUserCoupon, KeyFree, InsertedBy
<1>3. ASSUME ~bare[r] PROVE inserted' = [inserted EXCEPT ![r] = @ \union {U(r)}]
  BY <1>3 DEF CreateUserCoupon
<1>4. inserted \in [Runs -> SUBSET Users]
  BY DEF BatchInv, SchedulerTypeOK
<1>5. /\ IsFiniteSet(inserted[r] \union {U(r)})
      /\ Cardinality(inserted[r] \union {U(r)}) = Cardinality(inserted[r]) + 1
  BY <1>2, FS_AddElement DEF BatchInv, RowsFinite
<1> QED BY <1>1, <1>2, <1>3, <1>4, <1>5

LEMMA CreateUserCouponInv ==
    ASSUME BatchInv, NEW r \in Runs, CreateUserCoupon(r)
    PROVE  BatchInv'
<1> DEFINE row == CronRow(U(r), F(r))
<1>0. /\ Goes(r, "issue", "mark") /\ KeyFree(U(r), F(r))
      /\ UNCHANGED <<stock, redis, seen, current, batch, taken, bare, direct, now, failures>>
  BY DEF CreateUserCoupon, Aside, redis, Works
<1>1. /\ at' \in [Runs -> Stages] /\ at[r] = "issue" /\ at'[r] = "mark"
      /\ \A s \in Runs : s # r => at'[s] = at[s]
  BY <1>0, GoesFacts DEF BatchInv, Stages, InTransaction
<1>2. /\ U(r)' = U(r) /\ F(r)' = F(r) /\ Owed(r) = 0 /\ batch[r] # <<>>
      /\ taken[r] + Owed(r) <= Cardinality(inserted[r])
      /\ failures = 0 => taken[r] + Owed(r) = Cardinality(inserted[r])
      /\ taken[r] \in Nat /\ Cardinality(inserted[r]) \in Nat
      /\ row \in UserCoupon
  BY <1>0, <1>1, CreateFacts, FS_CardinalityType
     DEF U, F, Owed, BatchInv, StageOK, TakenOK, SchedulerTypeOK, RowsFinite, CronRow, UserCoupon
<1> HIDE DEF row
<1>3. CASE ~bare[r]
  <2>0. UNCHANGED userCoupons
    BY <1>3 DEF CreateUserCoupon
  <2>1. SchedulerTypeOK' /\ SeenOK'
    BY <1>0, <1>1, <1>3, <2>0, CreateFacts
       DEF BatchInv, SchedulerTypeOK, SeenOK, Stages, redis, direct
  <2>2. StageOK' /\ BareOK' /\ TakenOK'
    <3>1. Owed(r)' = 1
      BY <1>0, <1>1, <1>3 DEF Owed
    <3>2. /\ taken'[r] + Owed(r)' <= Cardinality(inserted'[r])
          /\ failures' = 0 => taken'[r] + Owed(r)' = Cardinality(inserted'[r])
      BY <1>0, <1>2, <1>3, <3>1, CreateFacts
    <3>3. U(r)' \in inserted'[r] /\ batch'[r] # <<>> /\ ~bare'[r] /\ (failures' = 0 => failures = 0)
      BY <1>0, <1>2, <1>3, CreateFacts
    <3>4. \A s \in Runs : s # r => /\ at'[s] = at[s] /\ batch'[s] = batch[s]
                                   /\ inserted'[s] = inserted[s] /\ taken'[s] = taken[s]
                                   /\ bare'[s] = bare[s] /\ current'[s] = current[s]
      BY <1>0, <1>1, <1>3, CreateFacts
    <3> QED BY <1>1, <2>0, <3>2, <3>3, <3>4, OthersStay
  <2>3. RowsFinite'
    BY <1>3, <2>0, CreateFacts DEF BatchInv, RowsFinite
  <2>4. ASSUME NEW s \in Runs, NEW u \in inserted'[s]
        PROVE  RowsOf(u, F(s))' = {}
    <3>1. RowsOf(u, F(s)) = {}
      BY <1>0, <1>3, CreateFacts DEF BatchInv, RowsApart, KeyFree
    <3> QED BY <1>0, <2>0, <3>1 DEF RowsOf, F
  <2>5. ASSUME NEW s \in Runs, NEW t \in Runs, s # t, CouponOf[F(s)'] = CouponOf[F(t)']
        PROVE  inserted'[s] \intersect inserted'[t] = {}
    <3>1. CouponOf[F(s)] = CouponOf[F(t)] /\ inserted[s] \intersect inserted[t] = {}
      BY <1>0, <2>5 DEF BatchInv, RowsApart, F
    <3>2. CASE s = r
      <4>1. U(r) \notin inserted[t]
        BY <1>0, <3>1, <3>2 DEF KeyFree, InsertedBy
      <4> QED BY <1>3, <2>5, <3>1, <3>2, <4>1, CreateFacts
    <3>3. CASE t = r
      <4>1. U(r) \notin inserted[s]
        BY <1>0, <3>1, <3>3 DEF KeyFree, InsertedBy
      <4> QED BY <1>3, <2>5, <3>1, <3>3, <4>1, CreateFacts
    <3>4. CASE s # r /\ t # r
      BY <1>3, <3>1, <3>4, CreateFacts
    <3> QED BY <3>2, <3>3, <3>4
  <2>6. ASSUME NEW p \in Calls, call[p] = "commit"
        PROVE  /\ RowsOf(CallUser[p], CallFcfs[p])' = {}
               /\ InsertedBy(CallUser[p], CallFcfs[p])' = {}
    <3>1. RowsOf(CallUser[p], CallFcfs[p]) = {} /\ InsertedBy(CallUser[p], CallFcfs[p]) = {}
      BY <2>6 DEF BatchInv, CallsApart
    <3>2. ~(CallUser[p] = U(r) /\ CouponOf[CallFcfs[p]] = CouponOf[F(r)])
      BY <1>0, <2>6 DEF KeyFree, CalledBy
    <3>3. InsertedBy(CallUser[p], CallFcfs[p])' = {}
      <4> SUFFICES ASSUME NEW s \in Runs, CouponOf[F(s)'] = CouponOf[CallFcfs[p]],
                          CallUser[p] \in inserted'[s]
                   PROVE  FALSE
        BY DEF InsertedBy
      <4>1. F(s)' = F(s) /\ CallUser[p] \notin inserted[s]
        BY <1>0, <3>1 DEF InsertedBy, F
      <4>2. CASE s = r
        BY <1>3, <3>2, <4>1, <4>2, CreateFacts
      <4>3. CASE s # r
        BY <1>3, <4>1, <4>3, CreateFacts
      <4> QED BY <4>2, <4>3
    <3> QED BY <2>0, <3>1, <3>3 DEF RowsOf
  <2>7. RowsApart' /\ CallsApart'
    BY <1>0, <2>4, <2>5, <2>6 DEF RowsApart, CallsApart, direct, BatchInv
  <2> QED BY <2>1, <2>2, <2>3, <2>7 DEF BatchInv
<1>4. CASE bare[r]
  <2>0. UNCHANGED inserted /\ userCoupons' = userCoupons \union {row}
    BY <1>4 DEF CreateUserCoupon, row
  <2>1. SchedulerTypeOK' /\ SeenOK'
    BY <1>0, <1>1, <1>2, <2>0
       DEF BatchInv, SchedulerTypeOK, SeenOK, Stages, redis, direct
  <2>2. StageOK' /\ BareOK' /\ TakenOK'
    <3>1. Owed(r)' = 0 /\ bare'[r]
      BY <1>0, <1>4 DEF Owed
    <3>2. inserted[r] = {} /\ taken[r] = 0 /\ failures # 0
      BY <1>4 DEF BatchInv, BareOK
    <3>3. row \in RowsOf(U(r), F(r))'
      BY <1>2, <2>0 DEF RowsOf, row, CronRow
    <3>4. RowsOf(U(r), F(r))' # {} /\ batch'[r] # <<>>
      BY <1>0, <1>2, <3>3
    <3> QED BY <1>0, <1>1, <1>2, <2>0, <3>1, <3>2, <3>4, OthersStay
  <2>3. RowsFinite'
    <3>1. IsFiniteSet(userCoupons \union {row})
      BY FS_AddElement DEF BatchInv, RowsFinite
    <3> QED BY <2>0, <3>1 DEF BatchInv, RowsFinite
  <2>4. RowsApart' /\ CallsApart'
    <3>1. \A s \in Runs : U(r) \in inserted[s] => CouponOf[F(r)] # CouponOf[F(s)]
      BY <1>0 DEF KeyFree, InsertedBy
    <3>2. \A p \in Calls : call[p] = "commit" /\ U(r) = CallUser[p] =>
              CouponOf[F(r)] # CouponOf[CallFcfs[p]]
      BY <1>0 DEF KeyFree, CalledBy
    <3>3. \A c \in userCoupons' \ userCoupons : c.user = U(r) /\ c.fcfs = F(r)
      BY <2>0 DEF row, CronRow
    <3> QED BY <1>0, <2>0, <3>1, <3>2, <3>3, FewerOpen DEF direct
  <2> QED BY <2>1, <2>2, <2>3, <2>4 DEF BatchInv
<1> QED BY <1>3, <1>4

\* The run of a transaction that is rolled back goes on with the next user.
LEMMA DeadlockInv ==
    ASSUME BatchInv, NEW r \in Runs, Deadlock(r)
    PROVE  BatchInv'
<1>0. /\ at[r] = "issue" /\ NextUser(r, TRUE) /\ failures' = failures + 1
      /\ inserted' = [inserted EXCEPT ![r] = {}] /\ taken' = [taken EXCEPT ![r] = 0]
      /\ bare' = [bare EXCEPT ![r] = TRUE]
      /\ UNCHANGED <<mysql, redis, seen, current, direct, now>>
  BY DEF Deadlock, Aside, redis
<1>1. failures' \in Nat /\ failures' # 0
  BY <1>0 DEF BatchInv, SchedulerTypeOK
<1>2. /\ batch' \in [Runs -> Seq(Users)] /\ at' \in [Runs -> Stages]
      /\ at'[r] \in {"issue", "lock", "commit"} /\ (at'[r] # "commit" <=> batch'[r] # <<>>)
      /\ \A s \in Runs : s # r => at'[s] = at[s] /\ batch'[s] = batch[s]
  BY <1>0, NextUserFacts
<1>3. /\ inserted' \in [Runs -> SUBSET Users] /\ taken' \in [Runs -> Nat]
      /\ bare' \in [Runs -> BOOLEAN] /\ inserted'[r] = {} /\ taken'[r] = 0 /\ bare'[r]
      /\ \A s \in Runs : s # r => /\ inserted'[s] = inserted[s] /\ taken'[s] = taken[s]
                                  /\ bare'[s] = bare[s]
  BY <1>0 DEF BatchInv, SchedulerTypeOK
<1>4. SchedulerTypeOK' /\ SeenOK'
  BY <1>0, <1>1, <1>2, <1>3 DEF BatchInv, SchedulerTypeOK, SeenOK, Stages, mysql, redis, direct
<1>5. StageOK' /\ BareOK' /\ TakenOK'
  <2>1. Owed(r)' = 0 /\ Cardinality(inserted'[r]) = 0
    BY <1>2, <1>3, FS_EmptySet DEF Owed
  <2>2. /\ taken'[r] + Owed(r)' <= Cardinality(inserted'[r])
        /\ taken'[r] + Owed(r)' = Cardinality(inserted'[r])
    BY <1>3, <2>1
  <2>3. userCoupons \subseteq userCoupons' /\ current' = current
    BY <1>0 DEF mysql
  <2> QED BY <1>1, <1>2, <1>3, <2>2, <2>3, OthersStay
<1>6. RowsFinite'
  BY <1>0, <1>3, FS_EmptySet DEF BatchInv, RowsFinite, mysql
<1>7. RowsApart' /\ CallsApart'
  BY <1>0, <1>3, FewerOpen DEF mysql, direct
<1> QED BY <1>4, <1>5, <1>6, <1>7 DEF BatchInv

LEMMA MarkAsIssuedInv ==
    ASSUME BatchInv, NEW r \in Runs, MarkAsIssued(r)
    PROVE  BatchInv'
<1>0. /\ at[r] = "mark" /\ bare[r] \in BOOLEAN
      /\ UNCHANGED <<mysql, queue, asked, seen, current, inserted, taken, bare, direct, now>>
  BY DEF MarkAsIssued, Aside, BatchInv, SchedulerTypeOK
<1>1. RowsFinite' /\ RowsApart' /\ CallsApart'
  BY <1>0, SameRows DEF mysql, direct
<1>2. /\ taken[r] + Owed(r) <= Cardinality(inserted[r])
      /\ failures = 0 => taken[r] + Owed(r) = Cardinality(inserted[r])
      /\ ~bare[r] => U(r) \in inserted[r]
      /\ bare[r] => inserted[r] = {} /\ taken[r] = 0 /\ failures # 0 /\ RowsOf(U(r), F(r)) # {}
      /\ batch[r] # <<>> /\ Owed(r) \in {0, 1}
  BY <1>0 DEF BatchInv, TakenOK, StageOK, BareOK, Owed
<1>3. taken[r] \in Nat /\ Cardinality(inserted[r]) \in Nat
  BY FS_CardinalityType DEF BatchInv, SchedulerTypeOK, RowsFinite
<1>4. CASE Goes(r, "mark", "decrease") /\ UNCHANGED batch /\ Works
           /\ issued' = [issued EXCEPT ![F(r)] = @ \union {U(r)}]
  <2>1. /\ at' \in [Runs -> Stages] /\ at'[r] = "decrease"
        /\ \A s \in Runs : s # r => at'[s] = at[s]
    BY <1>4, GoesFacts DEF BatchInv, Stages, InTransaction
  <2>2. U(r) \in Users /\ F(r) \in Fcfs
    <3>1. batch[r] \in Seq(Users) /\ batch[r] # <<>>
      BY <1>2 DEF BatchInv, SchedulerTypeOK
    <3> QED BY <3>1, TailFacts DEF U, F, BatchInv, SchedulerTypeOK
  <2>3. issued' \in [Fcfs -> SUBSET Users]
    BY <1>4, <2>2 DEF BatchInv, SchedulerTypeOK
  <2>4. SchedulerTypeOK' /\ SeenOK'
    BY <1>0, <1>4, <2>1, <2>3 DEF BatchInv, SchedulerTypeOK, SeenOK, Stages, mysql, direct, Works
  <2>5. Owed(r)' = Owed(r) /\ U(r)' = U(r) /\ F(r)' = F(r) /\ failures' = failures
    BY <1>0, <1>4, <2>1 DEF Owed, U, F, Works
  <2>6. RowsOf(U(r), F(r))' = RowsOf(U(r), F(r))
    BY <1>0, <2>5 DEF RowsOf, mysql
  <2>7. StageOK' /\ BareOK' /\ TakenOK'
    BY <1>0, <1>2, <1>4, <2>1, <2>5, <2>6, OthersStay DEF mysql
  <2> QED BY <1>1, <2>4, <2>7 DEF BatchInv
<1>5. CASE NextUser(r, bare[r]) /\ UNCHANGED issued /\ Breaks
  <2>1. failures' \in Nat /\ failures' # 0
    BY <1>5, FailuresGrow DEF BatchInv
  <2>2. /\ batch' \in [Runs -> Seq(Users)] /\ at' \in [Runs -> Stages]
        /\ at'[r] \in {"issue", "lock", "commit"} /\ (at'[r] # "commit" <=> batch'[r] # <<>>)
        /\ at'[r] = "lock" => bare[r]
        /\ \A s \in Runs : s # r => at'[s] = at[s] /\ batch'[s] = batch[s]
    BY <1>0, <1>5, NextUserFacts
  <2>3. SchedulerTypeOK' /\ SeenOK'
    BY <1>0, <1>5, <2>1, <2>2 DEF BatchInv, SchedulerTypeOK, SeenOK, Stages, mysql, direct
  <2>4. Owed(r)' = 0
    BY <2>2 DEF Owed
  <2>5. taken'[r] + Owed(r)' <= Cardinality(inserted'[r])
    BY <1>0, <1>2, <1>3, <2>4
  <2>6. bare'[r] => inserted'[r] = {} /\ taken'[r] = 0
    BY <1>0, <1>2
  <2>7. StageOK' /\ BareOK' /\ TakenOK'
    BY <1>0, <2>1, <2>2, <2>5, <2>6, OthersStay DEF mysql
  <2> QED BY <1>1, <2>3, <2>7 DEF BatchInv
<1> QED BY <1>4, <1>5 DEF MarkAsIssued

LEMMA DecreaseStockInv ==
    ASSUME BatchInv, NEW r \in Runs, DecreaseStock(r)
    PROVE  BatchInv'
<1>0. /\ at[r] = "decrease" /\ NextUser(r, bare[r]) /\ bare[r] \in BOOLEAN
      /\ UNCHANGED <<userCoupons, redis, seen, current, inserted, bare, direct, now>>
      /\ (Works \/ Breaks)
  BY DEF DecreaseStock, Aside, redis, BatchInv, SchedulerTypeOK
<1>1. failures' \in Nat /\ (failures' = 0 => failures = 0 /\ ~Breaks)
  BY <1>0, FailuresGrow DEF BatchInv
<1>2. /\ batch' \in [Runs -> Seq(Users)] /\ at' \in [Runs -> Stages]
      /\ at'[r] \in {"issue", "lock", "commit"} /\ (at'[r] # "commit" <=> batch'[r] # <<>>)
      /\ at'[r] = "lock" => bare[r]
      /\ \A s \in Runs : s # r => at'[s] = at[s] /\ batch'[s] = batch[s]
  BY <1>0, NextUserFacts
<1>3. /\ taken' \in [Runs -> Nat] /\ taken'[r] \in {taken[r], taken[r] + 1}
      /\ bare[r] => taken' = taken
      /\ ~bare[r] /\ failures' = 0 => taken'[r] = taken[r] + 1
      /\ \A s \in Runs : s # r => taken'[s] = taken[s]
  <2>1. taken \in [Runs -> Nat]
    BY DEF BatchInv, SchedulerTypeOK
  <2> QED BY <1>1, <2>1 DEF DecreaseStock
<1>4. stock' \in [Fcfs -> Int]
  <2>1. stock \in [Fcfs -> Int] /\ F(r) \in Fcfs
    BY DEF BatchInv, SchedulerTypeOK, F
  <2>2. stock' = stock \/ stock' = [stock EXCEPT ![F(r)] = @ - 1]
    BY DEF DecreaseStock
  <2> QED BY <2>1, <2>2
<1>5. SchedulerTypeOK' /\ SeenOK'
  BY <1>0, <1>1, <1>2, <1>3, <1>4 DEF BatchInv, SchedulerTypeOK, SeenOK, Stages, redis, direct
<1>6. StageOK' /\ BareOK' /\ TakenOK'
  <2>1. Owed(r)' = 0 /\ Owed(r) = IF bare[r] THEN 0 ELSE 1
    BY <1>0, <1>2 DEF Owed
  <2>2. /\ taken[r] + Owed(r) <= Cardinality(inserted[r])
        /\ failures = 0 => taken[r] + Owed(r) = Cardinality(inserted[r])
        /\ bare[r] => inserted[r] = {} /\ taken[r] = 0 /\ failures # 0
    BY DEF BatchInv, TakenOK, BareOK
  <2>3. taken[r] \in Nat /\ Cardinality(inserted[r]) \in Nat
    BY FS_CardinalityType DEF BatchInv, SchedulerTypeOK, RowsFinite
  <2>4. /\ taken'[r] + Owed(r)' <= Cardinality(inserted'[r])
        /\ failures' = 0 => taken'[r] + Owed(r)' = Cardinality(inserted'[r])
    BY <1>0, <1>1, <1>3, <2>1, <2>2, <2>3
  <2>5. bare[r] => taken'[r] = 0 /\ failures' # 0
    BY <1>1, <1>3, <2>2
  <2> QED BY <1>0, <1>1, <1>2, <1>3, <2>2, <2>4, <2>5, OthersStay
<1>7. RowsFinite' /\ RowsApart' /\ CallsApart'
  BY <1>0, SameRows DEF direct
<1> QED BY <1>5, <1>6, <1>7 DEF BatchInv

\* The rows of a transaction.
Rows(r) == {CronRow(u, F(r)) : u \in inserted[r]}

\* There is one for each user it has inserted.
LEMMA RowsCounted ==
    ASSUME BatchInv, NEW r \in Runs
    PROVE  /\ Rows(r) \subseteq UserCoupon /\ IsFiniteSet(Rows(r))
           /\ Cardinality(Rows(r)) = Cardinality(inserted[r])
<1> DEFINE row == [u \in inserted[r] |-> CronRow(u, F(r))]
<1>1. Rows(r) \subseteq UserCoupon
  BY DEF BatchInv, SchedulerTypeOK, Rows, CronRow, UserCoupon, F
<1>2. row \in Bijection(inserted[r], Rows(r))
  <2>1. row \in [inserted[r] -> Rows(r)]
    BY DEF Rows
  <2>2. \A u, v \in inserted[r] : row[u] = row[v] => u = v
    <3>1. \A u \in inserted[r] : row[u].user = u
      BY DEF CronRow
    <3> QED BY <3>1
  <2>3. \A c \in Rows(r) : \E u \in inserted[r] : row[u] = c
    BY DEF Rows
  <2> HIDE DEF row
  <2> QED BY <2>1, <2>2, <2>3 DEF Bijection, Injection, Surjection, IsInjective
<1>3. ExistsBijection(inserted[r], Rows(r))
  BY <1>2 DEF ExistsBijection
<1>4. IsFiniteSet(inserted[r])
  BY DEF BatchInv, RowsFinite
<1> QED BY <1>1, <1>3, <1>4, FS_Bijection

\* The end of a transaction, committed or not.
LEMMA EndFacts ==
    ASSUME BatchInv, NEW r \in Runs, EndTransaction(r)
    PROVE  /\ inserted' \in [Runs -> SUBSET Users] /\ taken' \in [Runs -> Nat]
           /\ bare' \in [Runs -> BOOLEAN] /\ current' \in [Runs -> Fcfs]
           /\ inserted'[r] = {} /\ taken'[r] = 0 /\ ~bare'[r]
           /\ \A s \in Runs : s # r => /\ inserted'[s] = inserted[s] /\ taken'[s] = taken[s]
                                    /\ bare'[s] = bare[s] /\ current'[s] = current[s]
           /\ \A s \in Runs : IsFiniteSet(inserted'[s])
           /\ \A s \in Runs : \A u \in inserted'[s] :
                  s # r /\ u \in inserted[s] /\ current'[s] = current[s]
<1>1. /\ inserted' \in [Runs -> SUBSET Users] /\ taken' \in [Runs -> Nat]
      /\ bare' \in [Runs -> BOOLEAN] /\ inserted'[r] = {} /\ taken'[r] = 0 /\ ~bare'[r]
      /\ \A s \in Runs : s # r => /\ inserted'[s] = inserted[s] /\ taken'[s] = taken[s]
                                  /\ bare'[s] = bare[s]
  BY DEF BatchInv, SchedulerTypeOK, EndTransaction
<1>2. /\ current' \in [Runs -> Fcfs] /\ \A s \in Runs : s # r => current'[s] = current[s]
  <2>1. NoFcfs \in Fcfs
    BY FcfsAssumption DEF NoFcfs
  <2> QED BY <2>1 DEF BatchInv, SchedulerTypeOK, EndTransaction
<1>3. \A s \in Runs : IsFiniteSet(inserted'[s])
  BY <1>1, FS_EmptySet DEF BatchInv, RowsFinite
<1> QED BY <1>1, <1>2, <1>3

LEMMA CommitInv ==
    ASSUME BatchInv, NEW r \in Runs, Commit(r)
    PROVE  BatchInv'
<1>0. /\ Goes(r, "commit", "pop") /\ userCoupons' = userCoupons \union Rows(r)
      /\ stock' = [stock EXCEPT ![F(r)] = @ - taken[r]]
      /\ EndTransaction(r) /\ UNCHANGED <<redis, seen, batch, direct, now, failures>>
  BY DEF Commit, Rows
<1>1. /\ at' \in [Runs -> Stages] /\ at[r] = "commit" /\ at'[r] = "pop"
      /\ \A s \in Runs : s # r => at'[s] = at[s]
  BY <1>0, GoesFacts DEF BatchInv, Stages
<1>2. stock' \in [Fcfs -> Int]
  <2>1. stock \in [Fcfs -> Int] /\ taken[r] \in Nat /\ F(r) \in Fcfs
    BY DEF BatchInv, SchedulerTypeOK, F
  <2>2. stock[F(r)] - taken[r] \in Int
    BY <2>1
  <2> QED BY <1>0, <2>1, <2>2
<1>3. SchedulerTypeOK' /\ SeenOK'
  BY <1>0, <1>1, <1>2, EndFacts, RowsCounted DEF BatchInv, SchedulerTypeOK, SeenOK, Stages, redis, direct
<1>4. StageOK' /\ BareOK' /\ TakenOK'
  <2>1. Owed(r)' = 0 /\ batch'[r] = <<>> /\ Cardinality(inserted'[r]) = 0
    BY <1>0, <1>1, EndFacts, FS_EmptySet DEF Owed, BatchInv, StageOK
  <2>2. /\ inserted'[r] = {} /\ taken'[r] = 0 /\ ~bare'[r]
        /\ \A s \in Runs : s # r => /\ inserted'[s] = inserted[s] /\ taken'[s] = taken[s]
                                    /\ bare'[s] = bare[s] /\ current'[s] = current[s]
    BY <1>0, EndFacts
  <2>3. /\ taken'[r] + Owed(r)' <= Cardinality(inserted'[r])
        /\ taken'[r] + Owed(r)' = Cardinality(inserted'[r])
    BY <2>1, <2>2
  <2>4. userCoupons \subseteq userCoupons' /\ batch' = batch /\ failures' = failures
    BY <1>0
  <2> QED BY <1>1, <2>1, <2>2, <2>3, <2>4, OthersStay
<1>5. RowsFinite'
  <2>1. IsFiniteSet(userCoupons) /\ IsFiniteSet(Rows(r))
    BY RowsCounted DEF BatchInv, RowsFinite
  <2>2. IsFiniteSet(userCoupons \union Rows(r))
    BY <2>1, FS_Union
  <2> QED BY <1>0, <2>2, EndFacts DEF RowsFinite
<1>6. RowsApart' /\ CallsApart'
  <2>1. \A c \in userCoupons' \ userCoupons : c.user \in inserted[r] /\ c.fcfs = F(r)
    BY <1>0 DEF Rows, CronRow
  <2>2. \A s \in Runs : s # r => F(s)' = F(s)
    BY <1>0, EndFacts DEF F
  <2>3. ASSUME NEW c \in userCoupons' \ userCoupons, NEW s \in Runs, c.user \in inserted'[s]
        PROVE  CouponOf[c.fcfs] # CouponOf[F(s)]
    <3>1. s # r /\ c.user \in inserted[s] /\ c.user \in inserted[r] /\ c.fcfs = F(r)
      BY <1>0, <2>1, <2>3, EndFacts
    <3> QED BY <3>1 DEF BatchInv, RowsApart
  <2>4. ASSUME NEW c \in userCoupons' \ userCoupons, NEW p \in Calls, call[p] = "commit",
               c.user = CallUser[p]
        PROVE  CouponOf[c.fcfs] # CouponOf[CallFcfs[p]]
    <3>1. InsertedBy(CallUser[p], CallFcfs[p]) = {}
      BY <2>4 DEF BatchInv, CallsApart
    <3> QED BY <2>1, <2>4, <3>1 DEF InsertedBy
  <2>5. \A s \in Runs : \A u \in inserted'[s] : u \in inserted[s] /\ current'[s] = current[s]
    BY <1>0, EndFacts
  <2> QED BY <1>0, <2>3, <2>4, <2>5, FewerOpen DEF direct
<1> QED BY <1>3, <1>4, <1>5, <1>6 DEF BatchInv

LEMMA AbortInv ==
    ASSUME BatchInv, NEW r \in Runs, Abort(r)
    PROVE  BatchInv'
<1>0. /\ at' = [at EXCEPT ![r] = "idle"] /\ seen' = [seen EXCEPT ![r] = <<>>]
      /\ batch' = [batch EXCEPT ![r] = <<>>]
      /\ EndTransaction(r) /\ Breaks /\ UNCHANGED <<mysql, redis, direct, now>>
  BY DEF Abort
<1>1. failures' \in Nat /\ (failures' = 0 => failures = 0)
  BY <1>0, FailuresGrow DEF BatchInv
<1>2. /\ at' \in [Runs -> Stages] /\ at'[r] = "idle"
      /\ \A s \in Runs : s # r => at'[s] = at[s] /\ batch'[s] = batch[s]
      /\ batch' \in [Runs -> Seq(Users)] /\ batch'[r] = <<>>
  <2>1. at \in [Runs -> Stages] /\ "idle" \in Stages /\ batch \in [Runs -> Seq(Users)]
    BY DEF BatchInv, SchedulerTypeOK, Stages
  <2>2. <<>> \in Seq(Users)
    BY EmptySeq
  <2> QED BY <1>0, <2>1, <2>2
<1>3. SeenOK'
  <2>1. DOMAIN <<>> = {}
    OBVIOUS
  <2> QED BY <1>0, <2>1 DEF BatchInv, SeenOK
<1>4. SchedulerTypeOK'
  BY <1>0, <1>1, <1>2, <1>3, EndFacts DEF BatchInv, SchedulerTypeOK, SeenOK, Stages, mysql, redis, direct
<1>5. StageOK' /\ BareOK' /\ TakenOK'
  <2>1. Owed(r)' = 0 /\ Cardinality(inserted'[r]) = 0
    BY <1>2, EndFacts, <1>0, FS_EmptySet DEF Owed
  <2>2. /\ inserted'[r] = {} /\ taken'[r] = 0 /\ ~bare'[r]
        /\ \A s \in Runs : s # r => /\ inserted'[s] = inserted[s] /\ taken'[s] = taken[s]
                                    /\ bare'[s] = bare[s] /\ current'[s] = current[s]
    BY <1>0, EndFacts
  <2>3. /\ taken'[r] + Owed(r)' <= Cardinality(inserted'[r])
        /\ taken'[r] + Owed(r)' = Cardinality(inserted'[r])
    BY <2>1, <2>2
  <2>4. userCoupons \subseteq userCoupons'
    BY <1>0 DEF mysql
  <2> QED BY <1>1, <1>2, <2>2, <2>3, <2>4, OthersStay
<1>6. RowsFinite'
  BY <1>0, EndFacts DEF BatchInv, RowsFinite, mysql
<1>7. RowsApart' /\ CallsApart'
  BY <1>0, EndFacts, FewerOpen DEF mysql, direct
<1> QED BY <1>3, <1>4, <1>5, <1>6, <1>7 DEF BatchInv

LEMMA BatchNext == BatchInv /\ [SchedulerNext]_schedulerVars => BatchInv'
<1> SUFFICES ASSUME BatchInv, [SchedulerNext]_schedulerVars PROVE BatchInv'
  OBVIOUS
<1>1. CASE UNCHANGED schedulerVars
  <2>1. UNCHANGED <<stock, userCoupons, queue, asked, issued, at, seen, current, batch, inserted,
                    taken, bare, call, noted, now, failures>>
    BY <1>1 DEF schedulerVars, mysql, redis, run, direct
  <2>2. SchedulerTypeOK' /\ SeenOK'
    BY <2>1 DEF BatchInv, SchedulerTypeOK, SeenOK
  <2>3. StageOK' /\ TakenOK'
    BY <2>1 DEF BatchInv, StageOK, TakenOK, Owed, U
  <2>4. BareOK'
    BY <2>1 DEF BatchInv, BareOK, U, F, RowsOf
  <2> QED BY <2>1, <2>2, <2>3, <2>4, SameRows DEF BatchInv
<1>2. ASSUME NEW r \in Runs, ProcessCouponRequests(r) \/ Abort(r) PROVE BatchInv'
  BY <1>2, StartRunInv, PopInv, FinishRunInv, SkipInv, CreateUserCouponInv, DeadlockInv,
     MarkAsIssuedInv, DecreaseStockInv, CommitInv, AbortInv DEF ProcessCouponRequests
<1>3. ASSUME NEW ask \in Asks, AddToRequestQueue(ask[1], ask[2]) PROVE BatchInv'
  <2>1. ask[1] \in Fcfs /\ ask[2] \in Users
    BY RequestsAssumption
  <2> QED BY <1>3, <2>1, RequestInv
<1> QED BY <1>1, <1>2, <1>3, CallInv, TickInv DEF SchedulerNext

LEMMA BatchAlways == SchedulerSpec => []BatchInv
<1>1. SchedulerInit => BatchInv
  BY BatchInit
<1> QED BY <1>1, BatchNext, PTL DEF SchedulerSpec
-----------------------------------------------------------------------------
\* SchedulerTypeOK: whatever overlaps and fails, the variables keep to users,
\* coupons and steps of a run.
THEOREM SchedulerTypes == SchedulerSpec => []SchedulerTypeOK
<1>1. BatchInv => SchedulerTypeOK
  BY DEF BatchInv
<1> QED BY <1>1, BatchAlways, PTL

\* Runs without a transaction whose user has the coupon, while the decrement for it
\* is still to come.
Behind(f) == {r \in Runs : bare[r] /\ at[r] \in {"mark", "decrease"} /\ F(r) = f}

\* The stock follows the coupons issued, those runs excepted.
FollowsOK == \A f \in Fcfs :
    LET down == Quantity[f] - stock[f] IN
    /\ down + Cardinality(Behind(f)) <= Cardinality(Cron(f))
    /\ failures = 0 => down = Cardinality(Cron(f))

LEMMA FollowsFacts ==
    ASSUME BatchInv, NEW f \in Fcfs
    PROVE  /\ Quantity[f] - stock[f] \in Int /\ stock[f] \in Int /\ Quantity[f] \in Nat
           /\ IsFiniteSet(Behind(f)) /\ IsFiniteSet(Cron(f))
           /\ Cardinality(Behind(f)) \in Nat /\ Cardinality(Cron(f)) \in Nat
<1>1. Behind(f) \in SUBSET Runs /\ Cron(f) \in SUBSET userCoupons
  BY DEF Behind, Cron
<1>2. IsFiniteSet(Behind(f)) /\ IsFiniteSet(Cron(f))
  BY <1>1, RequestsAssumption, FS_Subset DEF BatchInv, RowsFinite
<1>3. stock[f] \in Int /\ Quantity[f] \in Nat
  BY FcfsAssumption DEF BatchInv, SchedulerTypeOK
<1> QED BY <1>2, <1>3, FS_CardinalityType

\* A step that neither commits nor takes anything from the stock.
LEMMA SameStock ==
    ASSUME BatchInv, FollowsOK, stock' = stock, failures' = 0 => failures = 0,
           \A f \in Fcfs : Cron(f)' = Cron(f),
           \A s \in Runs : bare'[s] /\ at'[s] \in {"mark", "decrease"} =>
               bare[s] /\ at[s] \in {"mark", "decrease"} /\ current'[s] = current[s]
    PROVE  FollowsOK'
<1> SUFFICES ASSUME NEW f \in Fcfs
             PROVE  /\ (Quantity[f] - stock'[f]) + Cardinality(Behind(f)') <= Cardinality(Cron(f)')
                    /\ failures' = 0 => Quantity[f] - stock'[f] = Cardinality(Cron(f)')
  BY DEF FollowsOK
<1>1. Behind(f)' \subseteq Behind(f)
  BY DEF Behind, F
<1>2. Cardinality(Behind(f)') <= Cardinality(Behind(f)) /\ Cardinality(Behind(f)') \in Nat
  BY <1>1, FollowsFacts, FS_Subset, FS_CardinalityType
<1>3. /\ (Quantity[f] - stock[f]) + Cardinality(Behind(f)) <= Cardinality(Cron(f))
      /\ failures = 0 => Quantity[f] - stock[f] = Cardinality(Cron(f))
  BY DEF FollowsOK
<1> QED BY <1>2, <1>3, FollowsFacts

\* A commit: as many rows more as the transaction has inserted, none of which was
\* there, and as much less of the stock as it has taken.
LEMMA CommitFollows ==
    ASSUME BatchInv, FollowsOK, NEW r \in Runs, Commit(r)
    PROVE  FollowsOK'
<1>0. /\ at[r] = "commit" /\ userCoupons' = userCoupons \union Rows(r)
      /\ stock' = [stock EXCEPT ![F(r)] = @ - taken[r]] /\ failures' = failures
      /\ Goes(r, "commit", "pop") /\ EndTransaction(r)
  BY DEF Commit, Rows, Goes
<1>g. PICK g \in Fcfs : F(r) = g
  BY DEF BatchInv, SchedulerTypeOK, F
<1>1. /\ stock \in [Fcfs -> Int] /\ taken[r] \in Nat
      /\ stock' = [stock EXCEPT ![g] = @ - taken[r]]
  BY <1>0, <1>g DEF BatchInv, SchedulerTypeOK
<1>2. /\ taken[r] <= Cardinality(inserted[r])
      /\ failures = 0 => taken[r] = Cardinality(inserted[r])
  <2>1. Owed(r) = 0
    BY <1>0 DEF Owed
  <2> QED BY <1>1, <2>1 DEF BatchInv, TakenOK
<1>3. \A c \in Rows(r) : c.user \in inserted[r] /\ c.fcfs = g /\ c.by = "cron"
  BY <1>g DEF Rows, CronRow
<1>4. Cron(g)' = Cron(g) \union Rows(r) /\ Cron(g) \intersect Rows(r) = {}
  <2>1. ASSUME NEW c \in Rows(r) PROVE c \notin userCoupons
    <3>1. RowsOf(c.user, g) = {}
      BY <1>3, <1>g DEF BatchInv, RowsApart
    <3> QED BY <1>3, <3>1 DEF RowsOf
  <2> QED BY <1>0, <1>3, <2>1 DEF Cron
<1>5. Cardinality(Cron(g)') = Cardinality(Cron(g)) + Cardinality(inserted[r])
      /\ Cardinality(Cron(g)) \in Nat /\ Cardinality(inserted[r]) \in Nat
  <2>1. Cron(g) \in SUBSET userCoupons
    BY DEF Cron
  <2>2. IsFiniteSet(Cron(g)) /\ IsFiniteSet(Rows(r))
    BY <2>1, FS_Subset, RowsCounted DEF BatchInv, RowsFinite
  <2>3. Cardinality(Cron(g) \union Rows(r)) =
            Cardinality(Cron(g)) + Cardinality(Rows(r)) - Cardinality({})
    BY <1>4, <2>2, FS_Union
  <2>4. Cardinality(Cron(g)) \in Nat /\ Cardinality(Rows(r)) \in Nat
    BY <2>2, FS_CardinalityType
  <2> QED BY <1>4, <2>3, <2>4, FS_EmptySet, RowsCounted
<1>6. ASSUME NEW f \in Fcfs
      PROVE  Cardinality(Behind(f)') <= Cardinality(Behind(f)) /\ Cardinality(Behind(f)') \in Nat
  <2>1. at'[r] = "pop" /\ \A s \in Runs : s # r => at'[s] = at[s]
    BY <1>0, GoesFacts DEF BatchInv, Stages
  <2>2. \A s \in Runs : s # r => bare'[s] = bare[s] /\ current'[s] = current[s]
    BY <1>0, EndFacts
  <2>3. Behind(f)' \subseteq Behind(f)
    BY <2>1, <2>2 DEF Behind, F
  <2> QED BY <2>3, FollowsFacts, FS_Subset, FS_CardinalityType
<1>7. ASSUME NEW f \in Fcfs
      PROVE  /\ (Quantity[f] - stock'[f]) + Cardinality(Behind(f)') <= Cardinality(Cron(f)')
             /\ failures = 0 => Quantity[f] - stock'[f] = Cardinality(Cron(f)')
  <2>1. /\ (Quantity[f] - stock[f]) + Cardinality(Behind(f)) <= Cardinality(Cron(f))
        /\ failures = 0 => Quantity[f] - stock[f] = Cardinality(Cron(f))
    BY DEF FollowsOK
  <2>2. CASE f # g
    <3>1. Cron(f)' = Cron(f) /\ stock'[f] = stock[f]
      BY <1>0, <1>1, <1>3, <2>2 DEF Cron
    <3> QED BY <1>6, <2>1, <3>1, FollowsFacts
  <2>3. CASE f = g
    <3>1. stock'[f] = stock[f] - taken[r]
      BY <1>0, <1>1, <2>3
    <3>2. Cardinality(Cron(f)') = Cardinality(Cron(f)) + Cardinality(inserted[r])
          /\ Cardinality(inserted[r]) \in Nat
      BY <1>5, <2>3
    <3> QED BY <1>1, <1>2, <1>6, <2>1, <3>1, <3>2, FollowsFacts
  <2> QED BY <2>2, <2>3
<1> QED BY <1>0, <1>7 DEF FollowsOK

\* A coupon issued without a transaction: a row more, and one run more that has to
\* take it from the stock.
LEMMA BareCreateFollows ==
    ASSUME BatchInv, FollowsOK, NEW r \in Runs, CreateUserCoupon(r), bare[r]
    PROVE  FollowsOK'
<1> DEFINE row == CronRow(U(r), F(r))
<1>0. /\ Goes(r, "issue", "mark") /\ KeyFree(U(r), F(r))
      /\ userCoupons' = userCoupons \union {row}
      /\ UNCHANGED <<stock, bare, current, failures>>
  BY DEF CreateUserCoupon, Aside, Works
<1>1. at[r] = "issue" /\ at'[r] = "mark" /\ \A s \in Runs : s # r => at'[s] = at[s]
  BY <1>0, GoesFacts DEF BatchInv, Stages, InTransaction
<1>2. row.user = U(r) /\ row.fcfs = F(r) /\ row.by = "cron"
  BY DEF CronRow
<1> HIDE DEF row
<1>3. row \notin userCoupons
  BY <1>0, <1>2 DEF KeyFree, RowsOf
<1> SUFFICES ASSUME NEW f \in Fcfs
             PROVE  /\ (Quantity[f] - stock'[f]) + Cardinality(Behind(f)') <= Cardinality(Cron(f)')
                    /\ failures' = 0 => Quantity[f] - stock'[f] = Cardinality(Cron(f)')
  BY DEF FollowsOK
<1>4. (Quantity[f] - stock[f]) + Cardinality(Behind(f)) <= Cardinality(Cron(f))
  BY DEF FollowsOK
<1>5. failures' # 0 /\ stock' = stock
  BY <1>0 DEF BatchInv, BareOK
<1>6. CASE f # F(r)
  <2>1. Behind(f)' = Behind(f) /\ Cron(f)' = Cron(f)
    BY <1>0, <1>1, <1>2, <1>6 DEF Behind, Cron, F
  <2> QED BY <1>4, <1>5, <2>1
<1>7. CASE f = F(r)
  <2>1. Behind(f)' = Behind(f) \union {r} /\ r \notin Behind(f)
    BY <1>0, <1>1, <1>7 DEF Behind, F
  <2>2. Cron(f)' = Cron(f) \union {row} /\ row \notin Cron(f)
    BY <1>0, <1>2, <1>3, <1>7 DEF Cron
  <2>3. /\ Cardinality(Behind(f)') = Cardinality(Behind(f)) + 1
        /\ Cardinality(Cron(f)') = Cardinality(Cron(f)) + 1
    BY <2>1, <2>2, FollowsFacts, FS_AddElement
  <2> QED BY <1>4, <1>5, <2>3, FollowsFacts
<1> QED BY <1>6, <1>7

\* That run takes it from the stock.
LEMMA BareDecreaseFollows ==
    ASSUME BatchInv, FollowsOK, NEW r \in Runs, at[r] = "decrease", bare[r], NextUser(r, bare[r]),
           stock' = [stock EXCEPT ![F(r)] = @ - 1],
           UNCHANGED <<userCoupons, bare, current, failures>>
    PROVE  FollowsOK'
<1>1. at'[r] \notin {"mark", "decrease"} /\ \A s \in Runs : s # r => at'[s] = at[s]
  BY NextUserFacts DEF BatchInv, SchedulerTypeOK
<1> SUFFICES ASSUME NEW f \in Fcfs
             PROVE  /\ (Quantity[f] - stock'[f]) + Cardinality(Behind(f)') <= Cardinality(Cron(f)')
                    /\ failures' = 0 => Quantity[f] - stock'[f] = Cardinality(Cron(f)')
  BY DEF FollowsOK
<1>2. (Quantity[f] - stock[f]) + Cardinality(Behind(f)) <= Cardinality(Cron(f))
  BY DEF FollowsOK
<1>3. failures' # 0 /\ Cron(f)' = Cron(f)
  BY DEF BatchInv, BareOK, Cron
<1>4. stock \in [Fcfs -> Int]
  BY DEF BatchInv, SchedulerTypeOK
<1>5. CASE f # F(r)
  <2>1. Behind(f)' = Behind(f) /\ stock'[f] = stock[f]
    BY <1>1, <1>4, <1>5 DEF Behind, F
  <2> QED BY <1>2, <1>3, <2>1
<1>6. CASE f = F(r)
  <2>1. Behind(f)' = Behind(f) \ {r} /\ r \in Behind(f)
    BY <1>1, <1>6 DEF Behind, F
  <2>2. stock'[f] = stock[f] - 1
    BY <1>4, <1>6
  <2>3. Cardinality(Behind(f)') = Cardinality(Behind(f)) - 1
    BY <2>1, FollowsFacts, FS_RemoveElement
  <2> QED BY <1>2, <1>3, <2>2, <2>3, FollowsFacts
<1> QED BY <1>5, <1>6

\* Only a commit of the cron job touches either side, or a statement of it that is
\* in no transaction.
LEMMA FollowsNext ==
    BatchInv /\ FollowsOK /\ [SchedulerNext]_schedulerVars => FollowsOK'
<1> SUFFICES ASSUME BatchInv, FollowsOK, [SchedulerNext]_schedulerVars PROVE FollowsOK'
  OBVIOUS
<1>1. ASSUME UNCHANGED <<stock, userCoupons, at, bare, current>>, failures' = 0 => failures = 0
      PROVE  FollowsOK'
  BY <1>1, SameStock DEF Cron
<1>2. CASE UNCHANGED schedulerVars \/ Tick
  BY <1>1, <1>2 DEF schedulerVars, mysql, run, Tick
<1>3. ASSUME NEW f, NEW u, AddToRequestQueue(f, u) PROVE FollowsOK'
  BY <1>1, <1>3 DEF AddToRequestQueue, mysql, run
<1>4. ASSUME NEW p \in Calls, IssueFcfsCoupon(p) PROVE FollowsOK'
  <2>1. UNCHANGED <<stock, run>> /\ (failures' = 0 => failures = 0)
    BY <1>4, CallFacts, FailuresGrow DEF BatchInv
  <2>2. \A c : c \in userCoupons' /\ c \notin userCoupons => c.by = "http"
    BY <1>4, CallFacts DEF CommitDirectly
  <2>3. \A c : c \in userCoupons => c \in userCoupons'
    BY <1>4, CallFacts DEF CommitDirectly
  <2>4. \A g \in Fcfs : Cron(g)' = Cron(g)
    BY <2>2, <2>3 DEF Cron
  <2> QED BY <2>1, <2>4, SameStock DEF run
<1>5. ASSUME NEW r \in Runs, StartRun(r) \/ Pop(r) \/ FinishRun(r) \/ Lock(r) PROVE FollowsOK'
  <2>1. /\ UNCHANGED <<stock, userCoupons, bare, failures>>
        /\ \E from, to \in {"idle", "pop", "lock", "issue"} : Goes(r, from, to)
    BY <1>5 DEF StartRun, Pop, FinishRun, Lock, mysql
  <2>2. /\ at'[r] \notin {"mark", "decrease"} /\ \A s \in Runs : s # r => at'[s] = at[s]
    BY <2>1, GoesFacts DEF BatchInv, Stages, InTransaction
  <2>3. \A s \in Runs : s # r => current'[s] = current[s]
    BY <1>5 DEF StartRun, Pop, FinishRun, Lock, BatchInv, SchedulerTypeOK
  <2> QED BY <2>1, <2>2, <2>3, SameStock DEF Cron
<1>6. ASSUME NEW r \in Runs, Skip(r) \/ Deadlock(r) PROVE FollowsOK'
  <2>1. /\ UNCHANGED <<stock, userCoupons, current>> /\ at[r] = "issue"
        /\ \E b \in BOOLEAN : NextUser(r, b)
        /\ Works \/ Breaks \/ failures' = failures + 1
        /\ \A s \in Runs : s # r => bare'[s] = bare[s]
    BY <1>6 DEF Skip, Deadlock, Aside, mysql, BatchInv, SchedulerTypeOK
  <2>2. /\ at'[r] \notin {"mark", "decrease"} /\ \A s \in Runs : s # r => at'[s] = at[s]
    BY <2>1, NextUserFacts
  <2>3. failures' = 0 => failures = 0
    BY <2>1, FailuresGrow DEF BatchInv
  <2> QED BY <2>1, <2>2, <2>3, SameStock DEF Cron
<1>7. ASSUME NEW r \in Runs, CreateUserCoupon(r), ~bare[r] PROVE FollowsOK'
  <2>1. UNCHANGED <<stock, userCoupons, bare, current, failures>> /\ Goes(r, "issue", "mark")
    BY <1>7 DEF CreateUserCoupon, Aside, Works
  <2>2. \A s \in Runs : s # r => at'[s] = at[s]
    BY <2>1, GoesFacts DEF BatchInv, Stages, InTransaction
  <2> QED BY <1>7, <2>1, <2>2, SameStock DEF Cron
<1>8. ASSUME NEW r \in Runs, MarkAsIssued(r) PROVE FollowsOK'
  <2>1. /\ UNCHANGED <<stock, userCoupons, bare, current>> /\ at[r] = "mark"
        /\ Works \/ Breaks
    BY <1>8 DEF MarkAsIssued, Aside, mysql
  <2>2. \A s \in Runs : s # r => at'[s] = at[s]
    <3>1. CASE Goes(r, "mark", "decrease")
      BY <3>1, GoesFacts DEF BatchInv, Stages, InTransaction
    <3>2. CASE NextUser(r, bare[r])
      BY <2>1, <3>2, NextUserFacts DEF BatchInv, SchedulerTypeOK
    <3> QED BY <1>8, <3>1, <3>2 DEF MarkAsIssued
  <2>3. failures' = 0 => failures = 0
    BY <2>1, FailuresGrow DEF BatchInv
  <2> QED BY <2>1, <2>2, <2>3, SameStock DEF Cron
<1>9. ASSUME NEW r \in Runs, DecreaseStock(r) PROVE FollowsOK'
  <2>1. /\ UNCHANGED <<userCoupons, bare, current>> /\ at[r] = "decrease"
        /\ Works \/ Breaks
        /\ NextUser(r, bare[r]) /\ bare[r] \in BOOLEAN
    BY <1>9 DEF DecreaseStock, Aside, BatchInv, SchedulerTypeOK
  <2>2. /\ at'[r] \notin {"mark", "decrease"} /\ \A s \in Runs : s # r => at'[s] = at[s]
    BY <2>1, NextUserFacts
  <2>3. failures' = 0 => failures = 0
    BY <2>1, FailuresGrow DEF BatchInv
  <2>4. CASE UNCHANGED stock
    BY <2>1, <2>2, <2>3, <2>4, SameStock DEF Cron
  <2>5. CASE bare[r] /\ stock' = [stock EXCEPT ![F(r)] = @ - 1] /\ Works
    BY <2>1, <2>5, BareDecreaseFollows DEF Works
  <2> QED BY <1>9, <2>4, <2>5 DEF DecreaseStock
<1>10. ASSUME NEW r \in Runs, Abort(r) PROVE FollowsOK'
  <2>1. /\ UNCHANGED <<stock, userCoupons>> /\ EndTransaction(r) /\ Breaks
        /\ at' = [at EXCEPT ![r] = "idle"]
    BY <1>10 DEF Abort, mysql
  <2>2. at'[r] = "idle" /\ \A s \in Runs : s # r => at'[s] = at[s]
    BY <2>1 DEF BatchInv, SchedulerTypeOK
  <2>3. failures' = 0 => failures = 0
    BY <2>1, FailuresGrow DEF BatchInv
  <2> QED BY <2>1, <2>2, <2>3, EndFacts, SameStock DEF Cron
<1> QED BY <1>2, <1>3, <1>4, <1>5, <1>6, <1>7, <1>8, <1>9, <1>10, CommitFollows, BareCreateFollows
        DEF SchedulerNext, ProcessCouponRequests

LEMMA FollowsInit == SchedulerInit => FollowsOK
<1> SUFFICES ASSUME SchedulerInit, NEW f \in Fcfs
             PROVE  /\ (Quantity[f] - stock[f]) + Cardinality(Behind(f)) <= Cardinality(Cron(f))
                    /\ Quantity[f] - stock[f] = Cardinality(Cron(f))
  BY DEF FollowsOK
<1>1. Behind(f) = {} /\ Cron(f) = {} /\ Quantity[f] - stock[f] = 0
  BY FcfsAssumption DEF SchedulerInit, Behind, Cron
<1>2. Cardinality(Behind(f)) = 0 /\ Cardinality(Cron(f)) = 0
  BY <1>1, FS_EmptySet, Zenon
<1> QED BY <1>1, <1>2

\* StockFollowsBatches: the stock of a coupon goes down by no more than the batches
\* have issued of it, whatever is rolled back, overlaps or fails, and by exactly
\* as much while nothing fails.
THEOREM StockFollows == SchedulerSpec => []StockFollowsBatches
<1>1. ASSUME BatchInv, FollowsOK PROVE StockFollowsBatches
  <2> SUFFICES ASSUME NEW f \in Fcfs
               PROVE  /\ Quantity[f] - stock[f] <= Cardinality(Cron(f))
                      /\ failures = 0 => Quantity[f] - stock[f] = Cardinality(Cron(f))
    BY DEF StockFollowsBatches
  <2> QED BY <1>1, FollowsFacts DEF FollowsOK
<1> QED BY <1>1, FollowsInit, FollowsNext, BatchAlways, PTL DEF SchedulerSpec
-----------------------------------------------------------------------------
\* Where a user who asked for f is accounted for.
Waiting(f, u) == Contains(queue[f], u)
InHands(f, u) == \E r \in Runs : F(r) = f /\ (Contains(batch[r], u) \/ u \in inserted[r])
Accounted(f, u) == Waiting(f, u) \/ RowsOf(u, f) # {} \/ InHands(f, u)

\* A step that takes nobody out of account.
LEMMA NobodyLost ==
    ASSUME NobodyForgotten, failures' = 0 => failures = 0, asked' = asked,
           \A f \in Fcfs : \A u \in asked[f] : failures = 0 /\ Accounted(f, u) => Accounted(f, u)'
    PROVE  NobodyForgotten'
<1> SUFFICES ASSUME failures' = 0, NEW f \in Fcfs, NEW u \in asked[f] PROVE Accounted(f, u)'
  BY DEF NobodyForgotten, Accounted, Waiting, InHands
<1>1. failures = 0 /\ Accounted(f, u)
  BY DEF NobodyForgotten, Accounted, Waiting, InHands
<1> QED BY <1>1

\* Who was in the hands of another run still is.
LEMMA OtherHands ==
    ASSUME NEW r \in Runs, NEW f, NEW u,
           \A s \in Runs : s # r => /\ batch'[s] = batch[s] /\ inserted'[s] = inserted[s]
                                    /\ current'[s] = current[s],
           InHands(f, u)
    PROVE  InHands(f, u)' \/ (F(r) = f /\ (Contains(batch[r], u) \/ u \in inserted[r]))
BY DEF InHands, F

LEMMA RequestKeeps ==
    ASSUME BatchInv, NobodyForgotten, NEW f \in Fcfs, NEW u \in Users, AddToRequestQueue(f, u)
    PROVE  NobodyForgotten'
<1>1. /\ asked' = [asked EXCEPT ![f] = @ \union {u}] /\ queue' = [queue EXCEPT ![f] = Append(@, u)]
      /\ UNCHANGED <<mysql, run, failures>>
  BY DEF AddToRequestQueue
<1>2. asked \in [Fcfs -> SUBSET Users] /\ queue \in [Fcfs -> Seq(Users)]
  BY DEF BatchInv, SchedulerTypeOK
<1>3. /\ Contains(queue'[f], u)
      /\ \A g \in Fcfs, v \in Users : Contains(queue[g], v) => Contains(queue'[g], v)
  <2>1. Contains(queue'[f], u) /\ \A v \in Users : Contains(queue[f], v) => Contains(queue'[f], v)
    BY <1>1, <1>2, AppendFacts
  <2>2. \A g \in Fcfs : g # f => queue'[g] = queue[g]
    BY <1>1, <1>2
  <2> QED BY <2>1, <2>2
<1> SUFFICES ASSUME failures = 0, NEW g \in Fcfs, NEW v \in asked'[g] PROVE Accounted(g, v)'
  BY <1>1 DEF NobodyForgotten, Accounted, Waiting, InHands
<1>4. CASE g = f /\ v = u
  BY <1>3, <1>4 DEF Accounted, Waiting
<1>5. CASE ~(g = f /\ v = u)
  <2>1. v \in asked[g] /\ v \in Users
    BY <1>1, <1>2, <1>5
  <2>2. Accounted(g, v)
    BY <2>1 DEF NobodyForgotten, Accounted, Waiting, InHands
  <2> QED BY <1>1, <1>3, <2>1, <2>2 DEF Accounted, Waiting, InHands, RowsOf, F, mysql, run
<1> QED BY <1>4, <1>5

LEMMA PopKeeps ==
    ASSUME BatchInv, NobodyForgotten, NEW r \in Runs, Pop(r)
    PROVE  NobodyForgotten'
<1>1. PICK g \in DOMAIN seen[r] :
          /\ current' = [current EXCEPT ![r] = IF batch'[r] = <<>> THEN @ ELSE g]
          /\ batch' = [batch EXCEPT ![r] = Popped(queue[g], HowMany(seen[r][g]))]
          /\ queue' = [queue EXCEPT ![g] = Left(queue[g], HowMany(seen[r][g]))]
          /\ UNCHANGED <<mysql, asked, inserted, failures>>
  BY DEF Pop, BatchInv, SchedulerTypeOK
<1>2. /\ g \in Fcfs /\ current \in [Runs -> Fcfs] /\ queue \in [Fcfs -> Seq(Users)]
      /\ batch \in [Runs -> Seq(Users)]
  BY DEF BatchInv, SchedulerTypeOK, SeenOK
<1>3. \A u : Contains(queue[g], u) => Contains(batch'[r], u) \/ Contains(queue'[g], u)
  <2>1. /\ batch'[r] = Popped(queue[g], HowMany(seen[r][g]))
        /\ queue'[g] = Left(queue[g], HowMany(seen[r][g]))
    BY <1>1, <1>2
  <2> QED BY <2>1, PopFacts
<1>4. /\ batch'[r] # <<>> => current'[r] = g
      /\ \A f \in Fcfs : f # g => queue'[f] = queue[f]
      /\ \A s \in Runs : s # r => current'[s] = current[s] /\ batch'[s] = batch[s]
  BY <1>1, <1>2
<1>5. batch[r] = <<>> /\ inserted[r] = {}
  BY DEF Pop, Goes, BatchInv, StageOK
<1>6. ASSUME NEW f \in Fcfs, NEW u \in asked[f], Accounted(f, u) PROVE Accounted(f, u)'
  <2>1. CASE Waiting(f, u)
    <3>1. CASE f # g
      BY <1>4, <2>1, <3>1 DEF Accounted, Waiting
    <3>2. CASE f = g /\ Contains(queue'[g], u)
      BY <3>2 DEF Accounted, Waiting
    <3>3. CASE f = g /\ Contains(batch'[r], u)
      <4>1. batch'[r] # <<>>
        BY <3>3 DEF Contains
      <4> QED BY <1>4, <3>3, <4>1 DEF Accounted, InHands, F
    <3> QED BY <1>3, <2>1, <3>1, <3>2, <3>3 DEF Waiting
  <2>2. CASE RowsOf(u, f) # {}
    BY <1>1, <2>2 DEF Accounted, RowsOf, mysql
  <2>3. CASE InHands(f, u)
    <3>1. ~Contains(batch[r], u)
      BY <1>5 DEF Contains
    <3>2. \A s \in Runs : s # r => inserted'[s] = inserted[s]
      BY <1>1
    <3>3. InHands(f, u)'
      BY <1>4, <1>5, <2>3, <3>1, <3>2, OtherHands
    <3> QED BY <3>3 DEF Accounted
  <2> QED BY <1>6, <2>1, <2>2, <2>3 DEF Accounted
<1>7. failures' = failures /\ asked' = asked
  BY <1>1
<1> QED BY <1>6, <1>7, NobodyLost

\* A run that goes on to the next user has given the one before a row, or the
\* user had one.
LEMMA NextUserKeeps ==
    ASSUME BatchInv, NobodyForgotten, NEW r \in Runs, at[r] \in {"issue", "mark", "decrease"},
           NEW b \in BOOLEAN, NextUser(r, b),
           UNCHANGED <<userCoupons, queue, asked, current, inserted>>,
           failures' = 0 => failures = 0 /\ (RowsOf(U(r), F(r)) # {} \/ U(r) \in inserted[r])
    PROVE  NobodyForgotten'
<1>1. /\ \A s \in Runs : s # r => batch'[s] = batch[s]
      /\ \A u : Contains(batch[r], u) => u = U(r) \/ Contains(batch'[r], u)
  BY NextUserFacts
<1> SUFFICES ASSUME failures' = 0, NEW f \in Fcfs, NEW u \in asked[f] PROVE Accounted(f, u)'
  BY DEF NobodyForgotten, Accounted, Waiting, InHands
<1>2. failures = 0 /\ Accounted(f, u)
  BY DEF NobodyForgotten, Accounted, Waiting, InHands
<1>3. CASE Waiting(f, u) \/ RowsOf(u, f) # {}
  BY <1>3 DEF Accounted, Waiting, RowsOf
<1>4. CASE InHands(f, u)
  <2>1. PICK s \in Runs : F(s) = f /\ (Contains(batch[s], u) \/ u \in inserted[s])
    BY <1>4 DEF InHands
  <2>2. CASE s # r \/ u \in inserted[s] \/ Contains(batch'[s], u)
    BY <1>1, <2>1, <2>2 DEF Accounted, InHands, F
  <2>3. CASE s = r /\ u = U(r)
    BY <2>1, <2>3 DEF Accounted, InHands, RowsOf, F
  <2> QED BY <1>1, <2>1, <2>2, <2>3
<1> QED BY <1>2, <1>3, <1>4 DEF Accounted

\* A commit turns what is inserted into rows.
LEMMA CommitKeeps ==
    ASSUME BatchInv, NobodyForgotten, NEW r \in Runs, Commit(r)
    PROVE  NobodyForgotten'
<1>1. /\ userCoupons' = userCoupons \union Rows(r) /\ at[r] = "commit" /\ EndTransaction(r)
      /\ UNCHANGED <<queue, asked, batch, failures>>
  BY DEF Commit, Rows, Goes, redis
<1>2. batch[r] = <<>>
  BY <1>1 DEF BatchInv, StageOK
<1>3. ASSUME NEW f \in Fcfs, NEW u \in asked[f], Accounted(f, u) PROVE Accounted(f, u)'
  <2>1. CASE Waiting(f, u) \/ RowsOf(u, f) # {}
    BY <1>1, <2>1 DEF Accounted, Waiting, RowsOf
  <2>2. CASE InHands(f, u)
    <3>1. ~Contains(batch[r], u)
      BY <1>2 DEF Contains
    <3>2. InHands(f, u)' \/ (F(r) = f /\ u \in inserted[r])
      BY <1>1, <2>2, <3>1, EndFacts, OtherHands
    <3>3. CASE F(r) = f /\ u \in inserted[r]
      <4>1. CronRow(u, F(r)) \in Rows(r)
        BY <3>3 DEF Rows
      <4>2. CronRow(u, F(r)) \in RowsOf(u, f)'
        BY <1>1, <3>3, <4>1 DEF RowsOf, CronRow
      <4> QED BY <4>2 DEF Accounted
    <3> QED BY <3>2, <3>3 DEF Accounted
  <2> QED BY <1>3, <2>1, <2>2 DEF Accounted
<1> QED BY <1>1, <1>3, NobodyLost

\* No step takes a user who waits out of all the places where one may be.
LEMMA KeepsNext ==
    BatchInv /\ NobodyForgotten /\ [SchedulerNext]_schedulerVars => NobodyForgotten'
<1> SUFFICES ASSUME BatchInv, NobodyForgotten, [SchedulerNext]_schedulerVars
             PROVE  NobodyForgotten'
  OBVIOUS
<1>1. ASSUME UNCHANGED <<userCoupons, queue, asked, current, batch, inserted, failures>>
      PROVE  NobodyForgotten'
  BY <1>1, NobodyLost DEF Accounted, Waiting, InHands, RowsOf, F
<1>2. CASE UNCHANGED schedulerVars \/ Tick
  BY <1>1, <1>2 DEF schedulerVars, mysql, redis, run, Tick
<1>3. ASSUME NEW p \in Calls, IssueFcfsCoupon(p) PROVE NobodyForgotten'
  <2>1. UNCHANGED <<queue, asked, current, batch, inserted>> /\ (failures' = 0 => failures = 0)
    BY <1>3, CallFacts, FailuresGrow DEF run, BatchInv
  <2>2. userCoupons \subseteq userCoupons'
    BY <1>3, CallFacts DEF CommitDirectly
  <2>3. \A g \in Fcfs : \A v \in asked[g] : Accounted(g, v) => Accounted(g, v)'
    BY <2>1, <2>2 DEF Accounted, Waiting, InHands, RowsOf, F
  <2> QED BY <2>1, <2>3, NobodyLost
<1>4. ASSUME NEW r \in Runs, StartRun(r) \/ FinishRun(r) \/ Lock(r) PROVE NobodyForgotten'
  BY <1>1, <1>4 DEF StartRun, FinishRun, Lock, mysql, redis
<1>5. ASSUME NEW r \in Runs, CreateUserCoupon(r) PROVE NobodyForgotten'
  <2>1. UNCHANGED <<queue, asked, current, batch, failures>> /\ userCoupons \subseteq userCoupons'
    BY <1>5 DEF CreateUserCoupon, Aside, Works
  <2>2. \A s \in Runs : inserted[s] \subseteq inserted'[s]
    BY <1>5, CreateFacts DEF CreateUserCoupon
  <2>3. \A g \in Fcfs : \A v \in asked[g] : Accounted(g, v) => Accounted(g, v)'
    BY <2>1, <2>2 DEF Accounted, Waiting, InHands, RowsOf, F
  <2> QED BY <2>1, <2>3, NobodyLost
<1>6. ASSUME NEW r \in Runs, Skip(r) PROVE NobodyForgotten'
  <2>1. /\ at[r] = "issue" /\ NextUser(r, bare[r]) /\ bare[r] \in BOOLEAN
        /\ UNCHANGED <<userCoupons, queue, asked, current, inserted>>
        /\ (RowsOf(U(r), F(r)) # {} /\ Works) \/ Breaks
    BY <1>6 DEF Skip, Aside, mysql, BatchInv, SchedulerTypeOK
  <2>2. failures' = 0 => failures = 0 /\ RowsOf(U(r), F(r)) # {}
    BY <2>1, FailuresGrow DEF BatchInv
  <2> QED BY <2>1, <2>2, NextUserKeeps
<1>7. ASSUME NEW r \in Runs, MarkAsIssued(r) PROVE NobodyForgotten'
  <2>1. CASE UNCHANGED batch /\ Works
    BY <1>1, <1>7, <2>1 DEF MarkAsIssued, Aside, Works, mysql
  <2>2. CASE Breaks
    <3>1. failures' # 0
      BY <2>2, FailuresGrow DEF BatchInv
    <3> QED BY <3>1 DEF NobodyForgotten
  <2> QED BY <1>7, <2>1, <2>2 DEF MarkAsIssued
<1>8. ASSUME NEW r \in Runs, DecreaseStock(r) PROVE NobodyForgotten'
  <2>1. /\ at[r] = "decrease" /\ NextUser(r, bare[r]) /\ bare[r] \in BOOLEAN
        /\ UNCHANGED <<userCoupons, queue, asked, current, inserted>> /\ (Works \/ Breaks)
    BY <1>8 DEF DecreaseStock, Aside, BatchInv, SchedulerTypeOK
  <2>2. /\ failures' = 0 => failures = 0
        /\ bare[r] => failures # 0
        /\ ~bare[r] => U(r) \in inserted[r]
    BY <2>1, FailuresGrow DEF BatchInv, StageOK, BareOK
  <2> QED BY <2>1, <2>2, NextUserKeeps
<1>9. ASSUME NEW r \in Runs, Abort(r) \/ Deadlock(r) PROVE NobodyForgotten'
  <2>1. failures' = failures + 1 /\ failures \in Nat
    BY <1>9 DEF Abort, Deadlock, Breaks, BatchInv, SchedulerTypeOK
  <2> QED BY <2>1 DEF NobodyForgotten
<1>10. ASSUME NEW ask \in Asks, AddToRequestQueue(ask[1], ask[2]) PROVE NobodyForgotten'
  <2>1. ask[1] \in Fcfs /\ ask[2] \in Users
    BY RequestsAssumption
  <2> QED BY <1>10, <2>1, RequestKeeps
<1> QED BY <1>2, <1>3, <1>4, <1>5, <1>6, <1>7, <1>8, <1>9, <1>10, PopKeeps, CommitKeeps
        DEF SchedulerNext, ProcessCouponRequests

\* NobodyForgotten: while nothing fails, a user who asked is in the queue, in the
\* hands of a run or in possession of the coupon, however many runs overlap and
\* whoever gets a coupon past them.
THEOREM NobodyIsForgotten == SchedulerSpec => []NobodyForgotten
<1>1. SchedulerInit => NobodyForgotten
  BY BatchInit
<1> QED BY <1>1, KeepsNext, BatchAlways, PTL DEF SchedulerSpec
-----------------------------------------------------------------------------
\* Nobody stands in q twice.
Once(q) == \A i, j \in 1 .. Len(q) : q[i] = q[j] => i = j

\* Nobody waits twice, in the line or in a batch, and who waits in a batch has no
\* row in its transaction but for the user it is at.
OnceInLine == \A f \in Fcfs :
    Once(queue[f]) /\ \A u : Contains(queue[f], u) => u \in asked[f]

OnceInTurn == \A r \in Runs :
    /\ Once(batch[r])
    /\ \A u \in inserted[r] : Contains(batch[r], u) => u = U(r) /\ at[r] \in {"mark", "decrease"}

LineInv == BatchInv /\ OnceInLine /\ OnceInTurn

\* A newcomer at the end of a queue.
LEMMA AppendOnce ==
    ASSUME NEW q \in Seq(Users), NEW v \in Users, Once(q), ~Contains(q, v)
    PROVE  /\ Once(Append(q, v))
           /\ \A u : Contains(Append(q, v), u) => u = v \/ Contains(q, u)
<1>1. /\ Len(Append(q, v)) = Len(q) + 1 /\ Append(q, v)[Len(q) + 1] = v
      /\ \A i \in 1 .. Len(q) : Append(q, v)[i] = q[i]
  BY AppendProperties
<1>2. Len(q) \in Nat
  BY LenProperties
<1>3. \A i \in 1 .. Len(q) : q[i] # v
  BY DEF Contains
<1>4. \A i \in 1 .. Len(q) + 1 : i \in 1 .. Len(q) \/ i = Len(q) + 1
  BY <1>2
<1>5. \A u : Contains(Append(q, v), u) => u = v \/ Contains(q, u)
  BY <1>1, <1>4 DEF Contains
<1>6. ASSUME NEW i \in 1 .. Len(q) + 1, NEW j \in 1 .. Len(q) + 1, Append(q, v)[i] = Append(q, v)[j]
      PROVE  i = j
  <2>1. CASE i \in 1 .. Len(q) /\ j \in 1 .. Len(q)
    BY <1>1, <1>6, <2>1 DEF Once
  <2>2. CASE i = Len(q) + 1 \/ j = Len(q) + 1
    BY <1>1, <1>3, <1>4, <1>6, <2>2
  <2> QED BY <1>4, <2>1, <2>2
<1> QED BY <1>1, <1>5, <1>6 DEF Once

\* A part of a queue.
LEMMA PartOnce ==
    ASSUME NEW q \in Seq(Users), Once(q), NEW a \in Nat \ {0}, NEW b \in Nat, b <= Len(q), a <= b + 1
    PROVE  /\ SubSeq(q, a, b) \in Seq(Users) /\ Once(SubSeq(q, a, b))
           /\ Len(SubSeq(q, a, b)) = b + 1 - a
           /\ \A i \in 1 .. b + 1 - a : SubSeq(q, a, b)[i] = q[a + i - 1]
           /\ \A u : Contains(SubSeq(q, a, b), u) => Contains(q, u)
<1>1. Len(q) \in Nat /\ \A i \in 1 .. Len(q) : q[i] \in Users
  BY LenProperties
<1>2. \A i \in a .. b : q[i] \in Users
  BY <1>1
<1>3. /\ SubSeq(q, a, b) \in Seq(Users)
      /\ Len(SubSeq(q, a, b)) = IF a <= b THEN b - a + 1 ELSE 0
      /\ \A i \in 1 .. b - a + 1 : SubSeq(q, a, b)[i] = q[a + i - 1]
  BY <1>2, SubSeqProperties
<1>4. Len(SubSeq(q, a, b)) = b + 1 - a /\ b - a + 1 = b + 1 - a
  BY <1>3
<1>5. \A i \in 1 .. b + 1 - a : a + i - 1 \in 1 .. Len(q)
  BY <1>1
<1>6. Once(SubSeq(q, a, b))
  <2> SUFFICES ASSUME NEW i \in 1 .. b + 1 - a, NEW j \in 1 .. b + 1 - a,
                      SubSeq(q, a, b)[i] = SubSeq(q, a, b)[j]
               PROVE  i = j
    BY <1>4 DEF Once
  <2>1. q[a + i - 1] = q[a + j - 1]
    BY <1>3, <1>4
  <2>2. a + i - 1 = a + j - 1
    BY <1>5, <2>1 DEF Once
  <2> QED BY <2>2
<1>7. \A u : Contains(SubSeq(q, a, b), u) => Contains(q, u)
  BY <1>3, <1>4, <1>5 DEF Contains
<1> QED BY <1>3, <1>4, <1>6, <1>7

\* A batch without its first.
LEMMA TailOnce ==
    ASSUME NEW q \in Seq(Users), Once(q), q # <<>>
    PROVE  /\ Once(Tail(q)) /\ ~Contains(Tail(q), Head(q))
           /\ \A u : Contains(q, u) <=> u = Head(q) \/ Contains(Tail(q), u)
<1>1. /\ Len(Tail(q)) = Len(q) - 1 /\ \A i \in 1 .. Len(Tail(q)) : Tail(q)[i] = q[i + 1]
  BY HeadTailProperties
<1>2. Len(q) \in Nat \ {0} /\ Head(q) = q[1]
  BY EmptySeq
<1>3. \A i \in 1 .. Len(Tail(q)) : i + 1 \in 1 .. Len(q) /\ i + 1 # 1
  BY <1>1, <1>2
<1>4. ~Contains(Tail(q), Head(q))
  <2> SUFFICES ASSUME NEW i \in 1 .. Len(Tail(q)), Tail(q)[i] = Head(q) PROVE FALSE
    BY DEF Contains
  <2>1. q[i + 1] = q[1] /\ 1 \in 1 .. Len(q)
    BY <1>1, <1>2
  <2> QED BY <1>3, <2>1 DEF Once
<1>5. Once(Tail(q))
  <2> SUFFICES ASSUME NEW i \in 1 .. Len(Tail(q)), NEW j \in 1 .. Len(Tail(q)), Tail(q)[i] = Tail(q)[j]
               PROVE  i = j
    BY DEF Once
  <2>1. i + 1 = j + 1
    BY <1>1, <1>3 DEF Once
  <2> QED BY <2>1
<1>6. \A u : u = Head(q) \/ Contains(Tail(q), u) => Contains(q, u)
  <2>1. Contains(q, Head(q))
    BY <1>2 DEF Contains
  <2>2. ASSUME NEW u, Contains(Tail(q), u) PROVE Contains(q, u)
    BY <1>1, <1>3, <2>2 DEF Contains
  <2> QED BY <2>1, <2>2
<1> QED BY <1>4, <1>5, <1>6, TailFacts

\* What Pop takes and leaves, as WaitingLine says it.
LEMMA PoppedPart ==
    ASSUME NEW q \in Seq(Users), NEW n \in Nat \ {0}
    PROVE  \E m \in Nat : /\ m <= Len(q) /\ m <= n /\ (m = 0 <=> q = <<>>)
                          /\ Popped(q, n) = SubSeq(q, 1, m) /\ Left(q, n) = SubSeq(q, m + 1, Len(q))
<1>1. Len(q) \in Nat /\ (Len(q) = 0 <=> q = <<>>)
  BY EmptySeq
<1> DEFINE m == IF n <= Len(q) THEN n ELSE Len(q)
<1>2. Min({n, Len(q)}) = m
  BY <1>1, SmallerOne
<1>3. m \in Nat /\ m <= Len(q) /\ m <= n /\ (m = 0 <=> q = <<>>)
  BY <1>1
<1>4. Popped(q, n) = SubSeq(q, 1, m) /\ Left(q, n) = SubSeq(q, m + 1, Len(q))
  BY <1>2 DEF Popped, Left
<1> QED BY <1>3, <1>4
-----------------------------------------------------------------------------
\* A step of one run, for what the runs have in hands.
LEMMA TurnOnce ==
    ASSUME OnceInTurn, NEW r \in Runs,
           \A s \in Runs : s # r => /\ batch'[s] = batch[s] /\ inserted'[s] = inserted[s]
                                    /\ at'[s] = at[s],
           Once(batch'[r]),
           \A u \in inserted'[r] : Contains(batch'[r], u) => u = U(r)' /\ at'[r] \in {"mark", "decrease"}
    PROVE  OnceInTurn'
<1> SUFFICES ASSUME NEW s \in Runs
             PROVE  /\ Once(batch'[s])
                    /\ \A u \in inserted'[s] : Contains(batch'[s], u) =>
                           u = U(s)' /\ at'[s] \in {"mark", "decrease"}
  BY DEF OnceInTurn, Once, Contains
<1>1. CASE s = r
  BY <1>1
<1>2. CASE s # r
  BY <1>2 DEF OnceInTurn, U
<1> QED BY <1>1, <1>2

LEMMA NoneOnce ==
    Once(<<>>) /\ \A u : ~Contains(<<>>, u)
BY DEF Once, Contains

LEMMA NextUserOnce ==
    ASSUME BatchInv, OnceInTurn, NEW r \in Runs, at[r] \in {"issue", "mark", "decrease"},
           NEW b \in BOOLEAN, NextUser(r, b), inserted'[r] \subseteq inserted[r],
           \A s \in Runs : s # r => inserted'[s] = inserted[s]
    PROVE  OnceInTurn'
<1>1. batch \in [Runs -> Seq(Users)] /\ batch[r] \in Seq(Users) /\ batch[r] # <<>> /\ Once(batch[r])
  BY DEF BatchInv, SchedulerTypeOK, StageOK, OnceInTurn
<1>2. batch'[r] = Tail(batch[r]) /\ \A s \in Runs : s # r => batch'[s] = batch[s] /\ at'[s] = at[s]
  BY <1>1, NextUserFacts DEF NextUser
<1>3. /\ Once(Tail(batch[r])) /\ ~Contains(Tail(batch[r]), U(r))
      /\ \A u : Contains(Tail(batch[r]), u) => Contains(batch[r], u)
  BY <1>1, TailOnce DEF U
<1>4. ASSUME NEW u \in inserted'[r], Contains(batch'[r], u) PROVE FALSE
  BY <1>2, <1>3, <1>4 DEF OnceInTurn
<1> QED BY <1>2, <1>3, <1>4, TurnOnce

LEMMA LineInvInit == SchedulerInit => LineInv
<1> SUFFICES ASSUME SchedulerInit PROVE LineInv
  OBVIOUS
<1>1. OnceInTurn
  BY NoneOnce DEF SchedulerInit, OnceInTurn
<1>2. OnceInLine
  <2> SUFFICES ASSUME NEW f \in Fcfs
               PROVE  Once(queue[f]) /\ \A u : Contains(queue[f], u) => u \in asked[f]
    BY DEF OnceInLine
  <2>1. /\ AtFirst[f] \in Seq(Users) /\ IsInjective(AtFirst[f])
        /\ queue[f] = AtFirst[f] /\ asked[f] = Range(AtFirst[f])
    BY RequestsAssumption DEF SchedulerInit
  <2>2. DOMAIN AtFirst[f] = 1 .. Len(AtFirst[f])
    BY <2>1, LenProperties
  <2> QED BY <2>1, <2>2 DEF Once, Contains, Range, IsInjective
<1> QED BY <1>1, <1>2, BatchInit DEF LineInv

\* What a step does to the lines.
LEMMA LineStays ==
    ASSUME OnceInLine, queue' = queue, asked' = asked
    PROVE  OnceInLine'
BY DEF OnceInLine

LEMMA JoinOnce ==
    ASSUME BatchInv, OnceInLine, NEW f \in Fcfs, NEW u \in Users, AddToRequestQueue(f, u)
    PROVE  OnceInLine'
<1>1. /\ u \notin asked[f] /\ queue' = [queue EXCEPT ![f] = Append(@, u)]
      /\ asked' = [asked EXCEPT ![f] = @ \union {u}]
  BY DEF AddToRequestQueue
<1>2. queue \in [Fcfs -> Seq(Users)] /\ asked \in [Fcfs -> SUBSET Users]
  BY DEF BatchInv, SchedulerTypeOK
<1>3. Once(queue[f]) /\ \A v : Contains(queue[f], v) => v \in asked[f]
  BY DEF OnceInLine
<1>4. Once(Append(queue[f], u)) /\ \A v : Contains(Append(queue[f], u), v) => v = u \/ Contains(queue[f], v)
  BY <1>1, <1>2, <1>3, AppendOnce
<1>5. queue'[f] = Append(queue[f], u) /\ asked'[f] = asked[f] \union {u}
  BY <1>1, <1>2
<1>6. \A g \in Fcfs : g # f => queue'[g] = queue[g] /\ asked'[g] = asked[g]
  BY <1>1, <1>2
<1> SUFFICES ASSUME NEW g \in Fcfs
             PROVE  Once(queue'[g]) /\ \A v : Contains(queue'[g], v) => v \in asked'[g]
  BY DEF OnceInLine, Once, Contains
<1>7. CASE g = f
  BY <1>3, <1>4, <1>5, <1>7
<1>8. CASE g # f
  BY <1>6, <1>8 DEF OnceInLine
<1> QED BY <1>7, <1>8

LEMMA PopOnce ==
    ASSUME BatchInv, OnceInLine, OnceInTurn, NEW r \in Runs, Pop(r)
    PROVE  OnceInLine' /\ OnceInTurn'
<1>1. PICK f \in DOMAIN seen[r] :
          /\ batch' = [batch EXCEPT ![r] = Popped(queue[f], HowMany(seen[r][f]))]
          /\ queue' = [queue EXCEPT ![f] = Left(queue[f], HowMany(seen[r][f]))]
          /\ Goes(r, "pop", IF Popped(queue[f], HowMany(seen[r][f])) = <<>> THEN "pop" ELSE "lock")
          /\ UNCHANGED <<asked, inserted>>
  BY DEF Pop
<1>2. /\ f \in Fcfs /\ HowMany(seen[r][f]) \in Nat \ {0} /\ queue \in [Fcfs -> Seq(Users)]
      /\ batch \in [Runs -> Seq(Users)]
  BY PopFacts DEF BatchInv, SchedulerTypeOK
<1>3. PICK m \in Nat : /\ m <= Len(queue[f])
                       /\ Popped(queue[f], HowMany(seen[r][f])) = SubSeq(queue[f], 1, m)
                       /\ Left(queue[f], HowMany(seen[r][f])) = SubSeq(queue[f], m + 1, Len(queue[f]))
  BY <1>2, PoppedPart
<1>4. queue[f] \in Seq(Users) /\ Once(queue[f]) /\ \A u : Contains(queue[f], u) => u \in asked[f]
  BY <1>2 DEF OnceInLine
<1>5. Once(SubSeq(queue[f], 1, m))
  BY <1>3, <1>4, PartOnce
<1>6. /\ Once(SubSeq(queue[f], m + 1, Len(queue[f])))
      /\ \A u : Contains(SubSeq(queue[f], m + 1, Len(queue[f])), u) => Contains(queue[f], u)
  <2>1. Len(queue[f]) \in Nat /\ m + 1 \in Nat \ {0} /\ m + 1 <= Len(queue[f]) + 1
    BY <1>3, <1>4, LenProperties
  <2> QED BY <1>4, <2>1, PartOnce
<1>7. OnceInLine'
  <2> SUFFICES ASSUME NEW g \in Fcfs
               PROVE  Once(queue'[g]) /\ \A v : Contains(queue'[g], v) => v \in asked'[g]
    BY DEF OnceInLine, Once, Contains
  <2>1. CASE g = f
    BY <1>1, <1>2, <1>3, <1>4, <1>6, <2>1
  <2>2. CASE g # f
    <3>1. queue'[g] = queue[g] /\ asked'[g] = asked[g]
      BY <1>1, <1>2, <2>2
    <3> QED BY <3>1 DEF OnceInLine
  <2> QED BY <2>1, <2>2
<1>8. batch'[r] = SubSeq(queue[f], 1, m) /\ \A s \in Runs : s # r => batch'[s] = batch[s]
  BY <1>1, <1>2, <1>3
<1>9. at[r] = "pop" /\ \A s \in Runs : s # r => at'[s] = at[s]
  BY <1>1 DEF Goes, BatchInv, SchedulerTypeOK
<1>10. inserted'[r] = {}
  BY <1>1, <1>9 DEF BatchInv, StageOK
<1>11. OnceInTurn'
  BY <1>1, <1>5, <1>8, <1>9, <1>10, TurnOnce
<1> QED BY <1>7, <1>11

\* A transaction that ends, and a run that gives up, have nobody in hands.
LEMMA EndOnce ==
    ASSUME BatchInv, OnceInTurn, NEW r \in Runs, Commit(r) \/ Abort(r)
    PROVE  OnceInTurn'
<1>1. EndTransaction(r) /\ \A s \in Runs : s # r => at'[s] = at[s] /\ batch'[s] = batch[s]
  BY DEF Commit, Abort, Goes, BatchInv, SchedulerTypeOK
<1>2. batch'[r] = <<>>
  BY DEF Commit, Abort, Goes, BatchInv, SchedulerTypeOK, StageOK
<1>3. inserted'[r] = {} /\ \A s \in Runs : s # r => inserted'[s] = inserted[s]
  BY <1>1, EndFacts
<1> QED BY <1>1, <1>2, <1>3, NoneOnce, TurnOnce

LEMMA CreateOnce ==
    ASSUME BatchInv, OnceInTurn, NEW r \in Runs, CreateUserCoupon(r)
    PROVE  OnceInTurn'
<1>1. /\ at[r] = "issue" /\ at'[r] = "mark" /\ batch' = batch
      /\ \A s \in Runs : s # r => at'[s] = at[s] /\ inserted'[s] = inserted[s]
      /\ \A u \in inserted'[r] : u \in inserted[r] \/ u = U(r)
  BY DEF CreateUserCoupon, Goes, BatchInv, SchedulerTypeOK
<1>2. \A u \in inserted[r] : ~Contains(batch[r], u)
  BY <1>1 DEF OnceInTurn
<1>3. U(r)' = U(r) /\ Once(batch[r])
  BY <1>1 DEF U, OnceInTurn
<1> QED BY <1>1, <1>2, <1>3, TurnOnce

LEMMA LineInvNext == LineInv /\ [SchedulerNext]_schedulerVars => LineInv'
<1> SUFFICES ASSUME LineInv, [SchedulerNext]_schedulerVars PROVE LineInv'
  OBVIOUS
<1>0. BatchInv /\ OnceInLine /\ OnceInTurn /\ BatchInv'
  BY BatchNext DEF LineInv
<1>1. ASSUME UNCHANGED run PROVE OnceInTurn'
  BY <1>0, <1>1 DEF run, OnceInTurn, U
<1>2. CASE UNCHANGED schedulerVars \/ Tick
  BY <1>0, <1>1, <1>2, LineStays DEF LineInv, schedulerVars, redis, Tick
<1>3. ASSUME NEW ask \in Asks, AddToRequestQueue(ask[1], ask[2]) PROVE LineInv'
  <2>1. ask[1] \in Fcfs /\ ask[2] \in Users
    BY RequestsAssumption
  <2>2. OnceInLine'
    BY <1>0, <1>3, <2>1, JoinOnce
  <2> QED BY <1>0, <1>1, <1>3, <2>2 DEF LineInv, AddToRequestQueue
<1>4. ASSUME NEW p \in Calls, IssueFcfsCoupon(p) PROVE LineInv'
  <2>1. UNCHANGED <<queue, asked, run>>
    BY <1>0, <1>4, CallFacts
  <2> QED BY <1>0, <1>1, <2>1, LineStays DEF LineInv
<1>5. ASSUME NEW r \in Runs, Pop(r) PROVE LineInv'
  BY <1>0, <1>5, PopOnce DEF LineInv
<1>6. ASSUME NEW r \in Runs, StartRun(r) \/ FinishRun(r) \/ Lock(r) PROVE LineInv'
  <2>1. /\ UNCHANGED <<queue, asked, batch, inserted>> /\ at[r] \in {"idle", "pop", "lock"}
        /\ \A s \in Runs : s # r => at'[s] = at[s]
    BY <1>0, <1>6 DEF StartRun, FinishRun, Lock, Goes, redis, BatchInv, SchedulerTypeOK
  <2>2. Once(batch[r]) /\ inserted[r] = {}
    BY <1>0, <2>1 DEF OnceInTurn, BatchInv, StageOK
  <2>3. OnceInTurn'
    BY <1>0, <2>1, <2>2, TurnOnce
  <2> QED BY <1>0, <2>1, <2>3, LineStays DEF LineInv
<1>7. ASSUME NEW r \in Runs, Skip(r) \/ DecreaseStock(r) \/ Deadlock(r) PROVE LineInv'
  <2>1. /\ UNCHANGED <<queue, asked>> /\ at[r] \in {"issue", "mark", "decrease"}
        /\ \E b \in BOOLEAN : NextUser(r, b)
        /\ inserted'[r] \subseteq inserted[r]
        /\ \A s \in Runs : s # r => inserted'[s] = inserted[s]
    BY <1>0, <1>7 DEF Skip, DecreaseStock, Deadlock, Aside, BatchInv, SchedulerTypeOK
  <2> QED BY <1>0, <2>1, NextUserOnce, LineStays DEF LineInv
<1>8. ASSUME NEW r \in Runs, CreateUserCoupon(r) PROVE LineInv'
  BY <1>0, <1>8, CreateOnce, LineStays DEF LineInv, CreateUserCoupon, Aside
<1>9. ASSUME NEW r \in Runs, MarkAsIssued(r) PROVE LineInv'
  <2>1. at[r] = "mark" /\ UNCHANGED <<queue, asked, inserted>> /\ bare[r] \in BOOLEAN
    BY <1>0, <1>9 DEF MarkAsIssued, Aside, BatchInv, SchedulerTypeOK
  <2>2. CASE NextUser(r, bare[r])
    BY <1>0, <2>1, <2>2, NextUserOnce, LineStays DEF LineInv
  <2>3. CASE Goes(r, "mark", "decrease") /\ UNCHANGED batch
    <3>1. at'[r] = "decrease" /\ \A s \in Runs : s # r => at'[s] = at[s]
      BY <1>0, <2>3 DEF Goes, BatchInv, SchedulerTypeOK
    <3>2. U(r)' = U(r) /\ Once(batch[r])
      BY <1>0, <2>3 DEF U, OnceInTurn
    <3>3. \A u \in inserted'[r] : Contains(batch'[r], u) => u = U(r)'
      BY <1>0, <2>1, <2>3, <3>2 DEF OnceInTurn
    <3>4. OnceInTurn'
      BY <1>0, <2>1, <2>3, <3>1, <3>2, <3>3, TurnOnce
    <3> QED BY <1>0, <2>1, <3>4, LineStays DEF LineInv
  <2> QED BY <1>9, <2>2, <2>3 DEF MarkAsIssued
<1>10. ASSUME NEW r \in Runs, Commit(r) \/ Abort(r) PROVE LineInv'
  <2>1. UNCHANGED <<queue, asked>>
    BY <1>10 DEF Commit, Abort, redis
  <2> QED BY <1>0, <1>10, <2>1, EndOnce, LineStays DEF LineInv
<1> QED BY <1>2, <1>3, <1>4, <1>5, <1>6, <1>7, <1>8, <1>9, <1>10 DEF SchedulerNext, ProcessCouponRequests

LEMMA LineInvAlways == SchedulerSpec => []LineInv
BY LineInvInit, LineInvNext, PTL DEF SchedulerSpec
-----------------------------------------------------------------------------
TurnOf(r) == {[fcfs |-> F(r), user |-> u] : u \in InTurn(r)}

\* A step of one run, for the turns.
LEMMA TurnMoves ==
    ASSUME NEW r \in Runs,
           \A s \in Runs : s # r => /\ batch'[s] = batch[s] /\ inserted'[s] = inserted[s]
                                    /\ current'[s] = current[s]
    PROVE  turn' = [turn EXCEPT ![r] = TurnOf(r)'] /\ turn[r] = TurnOf(r)
<1>1. /\ turn = [s \in Runs |-> TurnOf(s)] /\ turn' = [s \in Runs |-> TurnOf(s)']
  BY DEF turn, TurnOf
<1>2. ASSUME NEW s \in Runs, s # r PROVE TurnOf(s)' = TurnOf(s)
  BY <1>2 DEF TurnOf, InTurn, F
<1> QED BY <1>1, <1>2

LEMMA TurnStays ==
    ASSUME NEW r \in Runs,
           \A s \in Runs : s # r => /\ batch'[s] = batch[s] /\ inserted'[s] = inserted[s]
                                    /\ current'[s] = current[s],
           TurnOf(r)' = TurnOf(r)
    PROVE  turn' = turn
<1>1. turn = [s \in Runs |-> TurnOf(s)]
  BY DEF turn, TurnOf
<1> QED BY <1>1, TurnMoves

LEMMA SameHas ==
    ASSUME NEW u, NEW f
    PROVE  Line!Has(u, f) = RowsOf(u, f)
BY DEF Line!Has, RowsOf

LEMMA JoinSimulates ==
    ASSUME NEW f, NEW u, AddToRequestQueue(f, u)
    PROVE  Line!Join(f, u)
<1>1. turn' = turn
  BY DEF AddToRequestQueue, run, turn, InTurn, F
<1> QED BY <1>1 DEF AddToRequestQueue, mysql, Line!Join

\* A failing query or command: some lose their turn.
LEMMA FaultSimulates ==
    ASSUME failures' = failures + 1, UNCHANGED <<queue, asked, mysql>>,
           \A s \in Runs : turn'[s] \subseteq turn[s]
    PROVE  Line!Fault
<1> DEFINE gone == [s \in Runs |-> turn[s] \ turn'[s]]
           called == UNION {turn[s] : s \in Runs}
<1>1. DOMAIN turn' = Runs /\ turn' = [s \in Runs |-> turn'[s]]
  BY DEF turn
<1>2. \A s \in Runs : turn[s] \ gone[s] = turn'[s]
  OBVIOUS
<1>3. \A s \in Runs : turn[s] \subseteq called
  OBVIOUS
<1>4. gone \in [Runs -> SUBSET called]
  BY <1>3
<1> HIDE DEF gone
<1>5. turn' = [s \in Runs |-> turn[s] \ gone[s]]
  BY <1>1, <1>2
<1> QED BY <1>4, <1>5 DEF Line!Fault, mysql

\* A call gives to one who has none, or changes nothing in the line.
LEMMA CallSimulates ==
    ASSUME LineInv, NEW p \in Calls, IssueFcfsCoupon(p)
    PROVE  UNCHANGED Line!lineVars \/ Line!Fault \/ Line!GiveDirectly(CallFcfs[p], CallUser[p])
<1>1. UNCHANGED <<stock, queue, asked, run>> /\ (Works \/ Breaks)
  BY CallFacts DEF LineInv
<1>2. turn' = turn
  BY <1>1 DEF run, turn, InTurn, F
<1>3. CASE UNCHANGED userCoupons /\ Works
  BY <1>1, <1>2, <1>3 DEF Works, Line!lineVars
<1>4. CASE UNCHANGED userCoupons /\ Breaks
  BY <1>1, <1>2, <1>4, FaultSimulates DEF Breaks, mysql
<1>5. CASE CommitDirectly(p)
  <2>1. call[p] = "commit"
    BY <1>5 DEF CommitDirectly, CallGoes
  <2>2. Line!Has(CallUser[p], CallFcfs[p]) = {}
    BY <2>1, SameHas DEF LineInv, BatchInv, CallsApart
  <2> QED BY <1>1, <1>2, <1>5, <2>2 DEF CommitDirectly, Works, Line!GiveDirectly
<1> QED BY <1>1, <1>3, <1>4, <1>5, CallFacts DEF LineInv

LEMMA PopSimulates ==
    ASSUME LineInv, NEW r \in Runs, Pop(r)
    PROVE  UNCHANGED Line!lineVars \/ \E f \in Fcfs, n \in 1 .. BatchSize : Line!Call(r, f, n)
<1>0. BatchInv
  BY DEF LineInv
<1>1. PICK f \in DOMAIN seen[r] :
          /\ batch' = [batch EXCEPT ![r] = Popped(queue[f], HowMany(seen[r][f]))]
          /\ queue' = [queue EXCEPT ![f] = Left(queue[f], HowMany(seen[r][f]))]
          /\ current' = [current EXCEPT ![r] = IF batch'[r] = <<>> THEN @ ELSE f] /\ at[r] = "pop"
          /\ UNCHANGED <<mysql, asked, inserted, failures>>
  BY <1>0 DEF Pop, Goes, BatchInv, SchedulerTypeOK
<1>2. /\ f \in Fcfs /\ HowMany(seen[r][f]) \in Nat \ {0} /\ queue \in [Fcfs -> Seq(Users)]
      /\ batch \in [Runs -> Seq(Users)] /\ current \in [Runs -> Fcfs]
  BY <1>0, PopFacts DEF BatchInv, SchedulerTypeOK
<1>3. HowMany(seen[r][f]) <= BatchSize
  BY <1>0, BoundsAssumption DEF HowMany, BatchInv, SeenOK
<1>4. PICK m \in Nat : /\ m <= Len(queue[f]) /\ m <= HowMany(seen[r][f])
                       /\ m = 0 <=> queue[f] = <<>>
                       /\ Popped(queue[f], HowMany(seen[r][f])) = SubSeq(queue[f], 1, m)
                       /\ Left(queue[f], HowMany(seen[r][f])) = SubSeq(queue[f], m + 1, Len(queue[f]))
  BY <1>2, PoppedPart
<1>5. queue[f] \in Seq(Users) /\ Len(queue[f]) \in Nat
  BY <1>2, LenProperties
<1>6. batch[r] = <<>> /\ inserted[r] = {} /\ inserted'[r] = {}
  BY <1>0, <1>1 DEF BatchInv, StageOK
<1>7. batch'[r] = SubSeq(queue[f], 1, m) /\ (batch'[r] # <<>> => F(r)' = f)
  BY <1>1, <1>2, <1>4 DEF F
<1>8. \A s \in Runs : s # r => batch'[s] = batch[s] /\ inserted'[s] = inserted[s] /\ current'[s] = current[s]
  BY <1>1
<1>9. TurnOf(r) = {}
  BY <1>6, NoneOnce DEF TurnOf, InTurn
<1>10. TurnOf(r)' = Line!Called(f, SubSeq(queue[f], 1, m))
  <2>1. /\ SubSeq(queue[f], 1, m) \in Seq(Users) /\ Len(SubSeq(queue[f], 1, m)) \in Nat
        /\ \A i \in 1 .. Len(SubSeq(queue[f], 1, m)) : SubSeq(queue[f], 1, m)[i] \in Users
    <3>1. SubSeq(queue[f], 1, m) \in Seq(Users)
      BY <1>4, <1>5, PartOnce DEF LineInv, OnceInLine
    <3> QED BY <3>1, LenProperties
  <2>2. InTurn(r)' = {SubSeq(queue[f], 1, m)[i] : i \in 1 .. Len(SubSeq(queue[f], 1, m))}
    BY <1>6, <1>7, <2>1 DEF InTurn, Contains
  <2>3. batch'[r] = <<>> => InTurn(r)' = {}
    BY <1>6, NoneOnce DEF InTurn
  <2> QED BY <1>7, <2>2, <2>3 DEF TurnOf, Line!Called
<1>11. turn' = [turn EXCEPT ![r] = TurnOf(r)'] /\ turn[r] = TurnOf(r)
  BY <1>8, TurnMoves
<1>12. CASE m = 0
  <2>1. Len(SubSeq(queue[f], 1, m)) = 0
    BY <1>4, <1>5, <1>12, PartOnce DEF LineInv, OnceInLine
  <2>2. TurnOf(r)' = TurnOf(r)
    BY <1>9, <1>10, <2>1 DEF Line!Called
  <2>3. turn' = turn
    BY <1>8, <2>2, TurnStays
  <2>4. queue' = queue
    <3>1. SubSeq(queue[f], m + 1, Len(queue[f])) = <<>>
      <4>1. Len(queue[f]) = 0
        BY <1>4, <1>12, <1>5, EmptySeq
      <4>2. SubSeq(queue[f], m + 1, Len(queue[f])) \in Seq(Users) /\ Len(SubSeq(queue[f], m + 1, Len(queue[f]))) = 0
        BY <1>2, <1>5, <1>12, <4>1, PartOnce DEF LineInv, OnceInLine
      <4> QED BY <4>2, EmptySeq
    <3> QED BY <1>1, <1>2, <1>4, <1>12, <3>1
  <2> QED BY <1>1, <2>3, <2>4 DEF Line!lineVars, mysql
<1>13. CASE m # 0
  <2>1. m \in 1 .. BatchSize
    BY <1>2, <1>3, <1>4, <1>13, BoundsAssumption
  <2>2. Line!Call(r, f, m)
    BY <1>1, <1>4, <1>9, <1>10, <1>11 DEF Line!Call, mysql
  <2> QED BY <1>2, <2>1, <2>2
<1> QED BY <1>12, <1>13

\* A step that goes on with the next user: the one before is out of the run's hands,
\* or has a row in its open transaction.
LEMMA NextUserTurn ==
    ASSUME LineInv, NEW r \in Runs, at[r] \in {"issue", "mark", "decrease"},
           NEW b \in BOOLEAN, NextUser(r, b), UNCHANGED <<inserted, current>>
    PROVE  /\ at[r] = "issue" \/ bare[r] =>
                  /\ turn' = [turn EXCEPT ![r] = @ \ {[fcfs |-> F(r), user |-> U(r)]}]
                  /\ [fcfs |-> F(r), user |-> U(r)] \in turn[r]
           /\ at[r] # "issue" /\ ~bare[r] => turn' = turn
           /\ \A s \in Runs : turn'[s] \subseteq turn[s]
<1>1. /\ batch \in [Runs -> Seq(Users)] /\ batch[r] \in Seq(Users) /\ batch[r] # <<>>
      /\ Once(batch[r]) /\ U(r) \in Users
  <2>1. batch \in [Runs -> Seq(Users)] /\ batch[r] \in Seq(Users) /\ batch[r] # <<>>
    BY DEF LineInv, BatchInv, SchedulerTypeOK, StageOK
  <2> QED BY <2>1, TailFacts DEF LineInv, OnceInTurn, U
<1>2. batch'[r] = Tail(batch[r]) /\ \A s \in Runs : s # r => batch'[s] = batch[s]
  BY <1>1 DEF NextUser
<1>3. /\ ~Contains(Tail(batch[r]), U(r))
      /\ \A u : Contains(batch[r], u) <=> u = U(r) \/ Contains(Tail(batch[r]), u)
  BY <1>1, TailOnce DEF U
<1>4. turn' = [turn EXCEPT ![r] = TurnOf(r)'] /\ turn[r] = TurnOf(r)
  BY <1>2, TurnMoves
<1>5. ASSUME at[r] = "issue" \/ bare[r]
      PROVE  /\ turn' = [turn EXCEPT ![r] = @ \ {[fcfs |-> F(r), user |-> U(r)]}]
             /\ [fcfs |-> F(r), user |-> U(r)] \in turn[r]
  <2>1. U(r) \notin inserted[r]
    BY <1>3, <1>5 DEF LineInv, OnceInTurn, BatchInv, BareOK
  <2>2. InTurn(r)' = InTurn(r) \ {U(r)} /\ U(r) \in InTurn(r)
    BY <1>1, <1>2, <1>3, <2>1 DEF InTurn
  <2>3. \A u, v : [fcfs |-> F(r), user |-> u] = [fcfs |-> F(r), user |-> v] => u = v
    <3>1. \A u : [fcfs |-> F(r), user |-> u].user = u
      OBVIOUS
    <3> QED BY <3>1
  <2>4. TurnOf(r)' = TurnOf(r) \ {[fcfs |-> F(r), user |-> U(r)]}
    BY <2>2, <2>3 DEF TurnOf, F
  <2> QED BY <1>4, <2>2, <2>4 DEF TurnOf
<1>6. ASSUME at[r] # "issue", ~bare[r] PROVE turn' = turn
  <2>1. U(r) \in inserted[r]
    BY <1>6 DEF LineInv, BatchInv, StageOK
  <2>2. InTurn(r)' = InTurn(r)
    BY <1>2, <1>3, <2>1 DEF InTurn
  <2> QED BY <1>2, <2>2, TurnStays DEF TurnOf, F
<1>7. \A s \in Runs : turn'[s] \subseteq turn[s]
  <2>1. turn = [s \in Runs |-> turn[s]]
    BY DEF turn
  <2> QED BY <1>5, <1>6, <2>1
<1> QED BY <1>5, <1>6, <1>7

LEMMA SkipSimulates ==
    ASSUME LineInv, NEW r \in Runs, Skip(r)
    PROVE  Line!PassOver(r) \/ Line!Fault
<1>0. at[r] = "issue" /\ NextUser(r, bare[r]) /\ bare[r] \in BOOLEAN /\ UNCHANGED <<inserted, current>>
  BY DEF Skip, Aside, LineInv, BatchInv, SchedulerTypeOK
<1>1. /\ turn' = [turn EXCEPT ![r] = @ \ {[fcfs |-> F(r), user |-> U(r)]}]
      /\ [fcfs |-> F(r), user |-> U(r)] \in turn[r]
      /\ \A s \in Runs : turn'[s] \subseteq turn[s]
  BY <1>0, NextUserTurn
<1>2. UNCHANGED <<queue, asked, mysql>>
  BY DEF Skip, Aside
<1>3. CASE RowsOf(U(r), F(r)) # {} /\ Works
  BY <1>1, <1>2, <1>3, SameHas DEF Line!PassOver, Works, mysql
<1>4. CASE Breaks
  BY <1>1, <1>2, <1>4, FaultSimulates DEF Breaks
<1> QED BY <1>3, <1>4 DEF Skip

LEMMA CreateSimulates ==
    ASSUME LineInv, NEW r \in Runs, CreateUserCoupon(r)
    PROVE  UNCHANGED Line!lineVars \/ (Line!ServeOne(r) /\ userCoupons' # userCoupons)
<1>1. /\ at[r] = "issue" /\ UNCHANGED <<stock, queue, asked, current, batch, failures>>
      /\ \A s \in Runs : s # r => inserted'[s] = inserted[s]
  BY DEF CreateUserCoupon, Goes, Aside, Works, LineInv, BatchInv, SchedulerTypeOK
<1>2. U(r) \in Users /\ Contains(batch[r], U(r))
  <2>1. batch[r] \in Seq(Users) /\ batch[r] # <<>>
    BY <1>1 DEF LineInv, BatchInv, SchedulerTypeOK, StageOK
  <2>2. Once(batch[r])
    BY DEF LineInv, OnceInTurn
  <2> QED BY <2>1, <2>2, TailFacts, TailOnce DEF U
<1>3. InTurn(r)' = InTurn(r)
  <2>1. inserted'[r] = inserted[r] \/ inserted'[r] = inserted[r] \union {U(r)}
    BY DEF CreateUserCoupon, LineInv, BatchInv, SchedulerTypeOK
  <2> QED BY <1>1, <1>2, <2>1 DEF InTurn
<1>4. turn' = turn
  BY <1>1, <1>3, TurnStays DEF TurnOf, F
<1>5. CASE ~bare[r]
  <2>1. userCoupons' = userCoupons
    BY <1>5 DEF CreateUserCoupon
  <2> QED BY <1>1, <1>4, <2>1 DEF Line!lineVars
<1>6. CASE bare[r]
  <2> DEFINE t == [fcfs |-> F(r), user |-> U(r)]
             row == [user |-> t.user, fcfs |-> t.fcfs, by |-> "cron"]
  <2>1. t \in turn[r] /\ t.fcfs = F(r) /\ t.user = U(r)
    BY <1>2 DEF turn, InTurn
  <2>2. RowsOf(U(r), F(r)) = {} /\ userCoupons' = userCoupons \union {row}
    BY <1>6 DEF CreateUserCoupon, KeyFree, CronRow
  <2>3. row \notin userCoupons
    BY <2>2 DEF RowsOf
  <2>4. Line!Has(t.user, t.fcfs) = {}
    BY <2>1, <2>2, SameHas
  <2>5. failures \in Nat /\ failures # 0
    BY <1>6 DEF LineInv, BatchInv, BareOK, SchedulerTypeOK
  <2> HIDE DEF t
  <2>6. \E c \in turn[r] : /\ Line!Has(c.user, c.fcfs) = {}
                           /\ userCoupons' = userCoupons \union
                                  {[user |-> c.user, fcfs |-> c.fcfs, by |-> "cron"]}
    BY <2>1, <2>2, <2>4
  <2>7. failures > 0
    BY <2>5
  <2> QED BY <1>1, <1>4, <2>2, <2>3, <2>6, <2>7 DEF Line!ServeOne
<1> QED BY <1>5, <1>6

\* A transaction that is rolled back: those it has inserted a row for lose their turn.
LEMMA DeadlockSimulates ==
    ASSUME LineInv, NEW r \in Runs, Deadlock(r)
    PROVE  Line!Fault
<1>1. /\ at[r] = "issue" /\ NextUser(r, TRUE) /\ failures' = failures + 1
      /\ UNCHANGED <<queue, asked, mysql, current>> /\ inserted'[r] = {}
      /\ \A s \in Runs : s # r => inserted'[s] = inserted[s]
  BY DEF Deadlock, Aside, LineInv, BatchInv, SchedulerTypeOK
<1>2. /\ batch[r] \in Seq(Users) /\ batch[r] # <<>> /\ Once(batch[r])
      /\ batch'[r] = Tail(batch[r]) /\ \A s \in Runs : s # r => batch'[s] = batch[s]
  BY <1>1 DEF LineInv, BatchInv, SchedulerTypeOK, StageOK, OnceInTurn, NextUser
<1>3. \A u : Contains(batch'[r], u) => Contains(batch[r], u)
  BY <1>2, TailOnce
<1>4. TurnOf(r)' \subseteq TurnOf(r)
  BY <1>1, <1>3 DEF TurnOf, InTurn, F
<1>5. turn' = [turn EXCEPT ![r] = TurnOf(r)'] /\ turn[r] = TurnOf(r)
  BY <1>1, <1>2, TurnMoves
<1>6. \A s \in Runs : turn'[s] \subseteq turn[s]
  <2>1. turn = [s \in Runs |-> turn[s]]
    BY DEF turn
  <2> QED BY <1>4, <1>5, <2>1
<1> QED BY <1>1, <1>6, FaultSimulates

\* Without a transaction the decrement is one for a user who has been served; in one
\* it is not seen before the commit.
LEMMA WorkSimulates ==
    ASSUME LineInv, NEW r \in Runs, MarkAsIssued(r) \/ DecreaseStock(r)
    PROVE  UNCHANGED Line!lineVars \/ Line!Fault \/ Line!PassOver(r)
<1>1. /\ UNCHANGED <<userCoupons, queue, asked, inserted, current>> /\ at[r] \in {"mark", "decrease"}
      /\ bare[r] \in BOOLEAN /\ (NextUser(r, bare[r]) \/ UNCHANGED batch)
  BY DEF MarkAsIssued, DecreaseStock, Aside, mysql, LineInv, BatchInv, SchedulerTypeOK
<1>0. ASSUME UNCHANGED batch PROVE turn' = turn
  <2>1. UNCHANGED <<inserted, current>>
    BY <1>1
  <2> QED BY <1>0, <2>1 DEF turn, InTurn, F
<1>2. ASSUME Breaks, UNCHANGED stock PROVE Line!Fault
  <2>1. \A s \in Runs : turn'[s] \subseteq turn[s]
    <3>1. CASE NextUser(r, bare[r])
      BY <1>1, <3>1, NextUserTurn
    <3>2. CASE UNCHANGED batch
      BY <1>0, <3>2
    <3> QED BY <1>1, <3>1, <3>2
  <2> QED BY <1>1, <1>2, <2>1, FaultSimulates DEF Breaks, mysql
<1>3. ASSUME Works, UNCHANGED stock, turn' = turn PROVE UNCHANGED Line!lineVars
  BY <1>1, <1>3 DEF Works, Line!lineVars
<1>4. CASE MarkAsIssued(r)
  <2>1. UNCHANGED stock
    BY <1>4 DEF MarkAsIssued, mysql
  <2>2. CASE UNCHANGED batch /\ Works
    BY <1>0, <1>3, <2>1, <2>2
  <2> QED BY <1>2, <1>4, <2>1, <2>2 DEF MarkAsIssued
<1>5. CASE DecreaseStock(r)
  <2>1. NextUser(r, bare[r]) /\ at[r] = "decrease"
    BY <1>5 DEF DecreaseStock
  <2>2. CASE ~bare[r] /\ UNCHANGED stock /\ Works
    <3>1. turn' = turn
      BY <1>1, <2>1, <2>2, NextUserTurn
    <3> QED BY <1>3, <2>2, <3>1
  <2>3. CASE bare[r] /\ stock' = [stock EXCEPT ![F(r)] = @ - 1] /\ Works
    <3> DEFINE t == [fcfs |-> F(r), user |-> U(r)]
    <3>1. t \in turn[r] /\ turn' = [turn EXCEPT ![r] = @ \ {t}]
      BY <1>1, <2>1, <2>3, NextUserTurn
    <3>2. t.fcfs = F(r) /\ t.user = U(r)
      OBVIOUS
    <3>3. RowsOf(U(r), F(r)) # {} /\ failures \in Nat /\ failures # 0
      BY <1>1, <2>3 DEF LineInv, BatchInv, BareOK, SchedulerTypeOK
    <3>4. Line!Has(t.user, t.fcfs) # {}
      BY <3>2, <3>3, SameHas
    <3> HIDE DEF t
    <3>5. failures > 0 /\ stock' = [stock EXCEPT ![t.fcfs] = @ - 1]
      BY <2>3, <3>2, <3>3
    <3> QED BY <1>1, <2>3, <3>1, <3>4, <3>5 DEF Line!PassOver, Works
  <2> QED BY <1>2, <1>5, <2>2, <2>3 DEF DecreaseStock
<1> QED BY <1>4, <1>5

\* FiniteSets as WaitingLine sees it.
LEMMA SameCardinality ==
    ASSUME NEW S
    PROVE  Line!Cardinality(S) = Cardinality(S)
BY DEF Line!Cardinality, Cardinality, Line!IsFiniteSet, IsFiniteSet

LEMMA CommitSimulates ==
    ASSUME LineInv, NEW r \in Runs, Commit(r)
    PROVE  UNCHANGED Line!lineVars \/ Line!Serve(r, F(r))
<1>0. BatchInv
  BY DEF LineInv
<1>1. /\ at[r] = "commit" /\ EndTransaction(r) /\ UNCHANGED <<redis, batch, failures>>
      /\ userCoupons' = userCoupons \union Rows(r)
      /\ stock' = [stock EXCEPT ![F(r)] = @ - taken[r]]
  BY DEF Commit, Goes, Rows
<1>2. batch[r] = <<>> /\ batch'[r] = <<>> /\ inserted'[r] = {}
  BY <1>0, <1>1, EndFacts DEF BatchInv, StageOK
<1>3. /\ turn' = [turn EXCEPT ![r] = TurnOf(r)'] /\ turn[r] = TurnOf(r)
      /\ \A s \in Runs : s # r => inserted'[s] = inserted[s] /\ current'[s] = current[s]
  BY <1>0, <1>1, EndFacts, TurnMoves
<1>4. InTurn(r) = inserted[r] /\ InTurn(r)' = {}
  <2>1. inserted[r] \subseteq Users
    BY <1>0 DEF BatchInv, SchedulerTypeOK
  <2> QED BY <1>2, <2>1, NoneOnce DEF InTurn
<1>5. TurnOf(r) = {[fcfs |-> F(r), user |-> u] : u \in inserted[r]} /\ TurnOf(r)' = {}
  BY <1>4 DEF TurnOf
<1>6. Cardinality(TurnOf(r)) = Cardinality(inserted[r]) /\ IsFiniteSet(inserted[r])
  <2> DEFINE t == [u \in inserted[r] |-> [fcfs |-> F(r), user |-> u]]
  <2>1. t \in Bijection(inserted[r], TurnOf(r))
    <3>1. t \in [inserted[r] -> TurnOf(r)]
      BY <1>5
    <3>2. \A u, v \in inserted[r] : t[u] = t[v] => u = v
      <4>1. \A u \in inserted[r] : t[u].user = u
        OBVIOUS
      <4> QED BY <4>1
    <3>3. \A c \in TurnOf(r) : \E u \in inserted[r] : t[u] = c
      BY <1>5
    <3> HIDE DEF t
    <3> QED BY <3>1, <3>2, <3>3 DEF Bijection, Injection, Surjection, IsInjective
  <2>2. ExistsBijection(inserted[r], TurnOf(r))
    BY <2>1 DEF ExistsBijection
  <2>3. IsFiniteSet(inserted[r])
    BY <1>0 DEF BatchInv, RowsFinite
  <2> QED BY <2>2, <2>3, FS_Bijection
<1>7. /\ taken[r] \in Nat /\ taken[r] <= Cardinality(inserted[r]) /\ Cardinality(inserted[r]) \in Nat
      /\ failures = 0 => taken[r] = Cardinality(inserted[r])
  <2>1. Owed(r) = 0 /\ taken[r] \in Nat
    BY <1>0, <1>1 DEF Owed, BatchInv, SchedulerTypeOK
  <2> QED BY <1>0, <1>6, <2>1, FS_CardinalityType DEF BatchInv, TakenOK
<1>8. CASE inserted[r] = {}
  <2>1. Rows(r) = {} /\ taken[r] = 0
    BY <1>7, <1>8, FS_EmptySet DEF Rows
  <2>2. userCoupons' = userCoupons
    BY <1>1, <2>1
  <2>3. stock' = stock
    BY <1>0, <1>1, <2>1 DEF BatchInv, SchedulerTypeOK
  <2>4. turn' = turn
    <3>1. TurnOf(r)' = TurnOf(r)
      BY <1>5, <1>8
    <3>2. \A s \in Runs : s # r => batch'[s] = batch[s]
      BY <1>1
    <3> QED BY <1>3, <3>1, <3>2, TurnStays
  <2> QED BY <1>1, <2>2, <2>3, <2>4 DEF Line!lineVars, redis
<1>9. CASE inserted[r] # {}
  <2>1. turn[r] # {} /\ turn' = [turn EXCEPT ![r] = {}]
    <3>1. PICK u : u \in inserted[r]
      BY <1>9
    <3>2. [fcfs |-> F(r), user |-> u] \in turn[r]
      BY <1>3, <1>5, <3>1
    <3>3. turn' = [turn EXCEPT ![r] = {}]
      BY <1>3, <1>5, Zenon
    <3> QED BY <3>2, <3>3
  <2>2. \A t \in turn[r] : t.fcfs = F(r) /\ t.user \in inserted[r]
    BY <1>3, <1>5
  <2>3. \A t \in turn[r] : Line!Has(t.user, F(r)) = {}
    BY <1>0, <2>2, SameHas DEF BatchInv, RowsApart
  <2>4. Rows(r) = {[user |-> t.user, fcfs |-> F(r), by |-> "cron"] : t \in turn[r]}
    <3>1. \A u \in inserted[r] : [fcfs |-> F(r), user |-> u] \in turn[r]
      BY <1>3, <1>5
    <3>2. \A u \in inserted[r] : [fcfs |-> F(r), user |-> u].user = u
      OBVIOUS
    <3>3. \A u \in inserted[r] : \E t \in turn[r] : t.user = u
      BY <3>1, <3>2
    <3> QED BY <2>2, <3>3 DEF Rows, CronRow
  <2>5. /\ taken[r] \in 0 .. Line!Cardinality(turn[r])
        /\ failures = 0 => taken[r] = Line!Cardinality(turn[r])
    <3>1. Line!Cardinality(turn[r]) = Cardinality(inserted[r])
      BY <1>3, <1>6, SameCardinality, Zenon
    <3> QED BY <1>7, <3>1
  <2>6. \E n \in 0 .. Line!Cardinality(turn[r]) :
            /\ failures = 0 => n = Line!Cardinality(turn[r])
            /\ stock' = [stock EXCEPT ![F(r)] = @ - n]
    BY <1>1, <2>5
  <2>7. userCoupons' = userCoupons \union
            {[user |-> t.user, fcfs |-> F(r), by |-> "cron"] : t \in turn[r]}
    BY <1>1, <2>4
  <2>8. \A t \in turn[r] : t.fcfs = F(r) /\ Line!Has(t.user, F(r)) = {}
    BY <2>2, <2>3
  <2>9. UNCHANGED <<queue, asked, failures>>
    BY <1>1 DEF redis
  <2> QED BY <2>1, <2>6, <2>7, <2>8, <2>9, Zenon DEF Line!Serve
<1> QED BY <1>8, <1>9

LEMMA AbortSimulates ==
    ASSUME LineInv, NEW r \in Runs, Abort(r)
    PROVE  Line!Fault
<1>1. /\ Breaks /\ EndTransaction(r) /\ UNCHANGED <<mysql, redis>>
      /\ batch'[r] = <<>> /\ \A s \in Runs : s # r => batch'[s] = batch[s]
  BY DEF Abort, LineInv, BatchInv, SchedulerTypeOK
<1>2. /\ inserted'[r] = {}
      /\ \A s \in Runs : s # r => inserted'[s] = inserted[s] /\ current'[s] = current[s]
  BY <1>1, EndFacts DEF LineInv
<1>3. turn' = [turn EXCEPT ![r] = TurnOf(r)']
  BY <1>1, <1>2, TurnMoves
<1>4. TurnOf(r)' = {}
  BY <1>1, <1>2, NoneOnce DEF TurnOf, InTurn
<1>5. \A s \in Runs : turn'[s] \subseteq turn[s]
  <2>1. turn = [s \in Runs |-> turn[s]]
    BY DEF turn
  <2> QED BY <1>3, <1>4, <2>1
<1> QED BY <1>1, <1>5, FaultSimulates DEF redis, Breaks

LEMMA IdleSimulates ==
    ASSUME NEW r \in Runs, StartRun(r) \/ FinishRun(r) \/ Lock(r)
    PROVE  UNCHANGED Line!lineVars
<1>1. UNCHANGED <<mysql, redis, current, batch, inserted, failures>>
  BY DEF StartRun, FinishRun, Lock
<1>2. turn' = turn
  BY <1>1 DEF turn, InTurn, F
<1> QED BY <1>1, <1>2 DEF Line!lineVars, mysql, redis

\* Each step of the scheduler is one of the line, or none.
LEMMA LineStep ==
    LineInv /\ [SchedulerNext]_schedulerVars => [Line!LineNext]_(Line!lineVars)
<1> SUFFICES ASSUME LineInv, [SchedulerNext]_schedulerVars
             PROVE  Line!LineNext \/ UNCHANGED Line!lineVars
  OBVIOUS
<1>1. ASSUME NEW ask \in Asks, AddToRequestQueue(ask[1], ask[2]) PROVE Line!LineNext
  <2>1. ask[1] \in Fcfs /\ ask[2] \in Users
    BY RequestsAssumption
  <2> QED BY <1>1, <2>1, JoinSimulates DEF Line!LineNext
<1>2. ASSUME NEW r \in Runs, Pop(r) PROVE Line!LineNext \/ UNCHANGED Line!lineVars
  <2>1. CASE \E f \in Fcfs, n \in 1 .. BatchSize : Line!Call(r, f, n)
    BY <2>1 DEF Line!LineNext
  <2> QED BY <1>2, <2>1, PopSimulates
<1>3. ASSUME NEW r \in Runs, Skip(r) \/ Deadlock(r) \/ Abort(r) PROVE Line!LineNext
  BY <1>3, SkipSimulates, DeadlockSimulates, AbortSimulates DEF Line!LineNext
<1>4. ASSUME NEW r \in Runs, CreateUserCoupon(r) \/ MarkAsIssued(r) \/ DecreaseStock(r)
      PROVE  Line!LineNext \/ UNCHANGED Line!lineVars
  BY <1>4, CreateSimulates, WorkSimulates DEF Line!LineNext
<1>5. ASSUME NEW r \in Runs, Commit(r) PROVE Line!LineNext \/ UNCHANGED Line!lineVars
  <2>1. F(r) \in Fcfs
    BY DEF F, LineInv, BatchInv, SchedulerTypeOK
  <2>2. ASSUME Line!Serve(r, F(r)) PROVE userCoupons' # userCoupons
    <3>1. PICK t \in turn[r] : Line!Has(t.user, F(r)) = {}
      BY <2>2, Zenon DEF Line!Serve
    <3>2. [user |-> t.user, fcfs |-> F(r), by |-> "cron"] \in userCoupons'
      BY <2>2 DEF Line!Serve
    <3>3. [user |-> t.user, fcfs |-> F(r), by |-> "cron"] \notin userCoupons
      BY <3>1 DEF Line!Has
    <3> QED BY <3>2, <3>3
  <2> QED BY <1>5, <2>1, <2>2, CommitSimulates DEF Line!LineNext
<1>6. ASSUME NEW r \in Runs, StartRun(r) \/ FinishRun(r) \/ Lock(r)
      PROVE  UNCHANGED Line!lineVars
  BY <1>6, IdleSimulates
<1>7. CASE UNCHANGED schedulerVars \/ Tick
  BY <1>7 DEF schedulerVars, Tick, mysql, redis, run, Line!lineVars, turn, InTurn, F
<1>8. ASSUME NEW p \in Calls, IssueFcfsCoupon(p) PROVE Line!LineNext \/ UNCHANGED Line!lineVars
  <2>1. CallUser[p] \in Users /\ CallFcfs[p] \in Fcfs
    BY RequestsAssumption
  <2>2. CASE Line!GiveDirectly(CallFcfs[p], CallUser[p])
    <3>1. [user |-> CallUser[p], fcfs |-> CallFcfs[p], by |-> "http"] \in userCoupons'
      BY <2>2 DEF Line!GiveDirectly
    <3>2. [user |-> CallUser[p], fcfs |-> CallFcfs[p], by |-> "http"] \notin userCoupons
      BY <2>2 DEF Line!GiveDirectly, Line!Has
    <3>3. userCoupons' # userCoupons
      BY <3>1, <3>2
    <3> QED BY <2>1, <2>2, <3>3 DEF Line!LineNext
  <2>3. CASE Line!Fault
    BY <2>3 DEF Line!LineNext
  <2> QED BY <1>8, <2>2, <2>3, CallSimulates
<1> QED BY <1>1, <1>2, <1>3, <1>4, <1>5, <1>6, <1>7, <1>8 DEF SchedulerNext, ProcessCouponRequests

\* ImplementsLine: however the runs of processCouponRequests overlap and fail, they
\* are as good as a line that is served a batch at a time, for any number of users,
\* coupons and runs, and any batch size.
THEOREM SchedulerImplementsLine == SchedulerSpec => ImplementsLine
<1>1. SchedulerInit => Line!LineInit
  <2> SUFFICES ASSUME SchedulerInit
               PROVE  /\ turn = [r \in Runs |-> {}]
                      /\ asked = [f \in Fcfs |-> {AtFirst[f][i] : i \in DOMAIN AtFirst[f]}]
    BY DEF SchedulerInit, Line!LineInit
  <2>1. \A r \in Runs : InTurn(r) = {}
    BY NoneOnce DEF SchedulerInit, InTurn
  <2>2. \A f \in Fcfs : Range(AtFirst[f]) = {AtFirst[f][i] : i \in DOMAIN AtFirst[f]}
    BY DEF Range
  <2> QED BY <2>1, <2>2 DEF turn, SchedulerInit
<1> QED BY <1>1, LineInvAlways, LineStep, PTL DEF SchedulerSpec, ImplementsLine, Line!LineSpec
=============================================================================
