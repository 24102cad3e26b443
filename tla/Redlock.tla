------------------------------ MODULE Redlock ------------------------------
(***************************************************************************)
(* RedisRedlock: one resource, locked on several Redis servers at once.    *)
(*                                                                         *)
(* An attempt sends its command to every server and is decided when a      *)
(* quorum of them has voted the same way; what comes later is not counted. *)
(* After as many votes against, acquire tries again, retryCount times, and *)
(* leaves the keys it has set where they are, in the way of its own next   *)
(* attempt.  It removes them before it throws.  With an even number of     *)
(* servers the votes can be split evenly, and nothing decides then.        *)
(*                                                                         *)
(* A connection delivers in order.  A command and its answer are one step, *)
(* unless a fault takes the answer.                                        *)
(***************************************************************************)
EXTENDS Integers, Sequences, FiniteSets

CONSTANTS
    Servers,        \* RedisService.getClients()
    Callers,        \* calls of acquireLock for one resource
    MaxAttempts,    \* retryCount + 1
    MaxLost,        \* bound: servers that forget a key by restarting
    MaxFaults       \* bound: the same and requests that fail or lose their answer, together

ASSUME ServersAssumption == IsFiniteSet(Servers)
ASSUME NumbersAssumption == MaxAttempts \in Nat \ {0} /\ MaxLost \in Nat /\ MaxFaults \in Nat

Nobody == "nobody"
ASSUME CallersAssumption == Nobody \notin Callers

VARIABLES
    key,        \* key[s]: whose value the key of the resource has on server s
    sent,       \* sent[c][s]: commands under way, [op, n] of the n-th round
    pc,         \* pc[c]: "idle", "acquires", "holds", "releases", "cleans", "done", "failed"
    round,      \* round[c]: number of the attempt, of acquiring or of releasing
    yes, no,    \* yes[c], no[c]: servers that voted in this attempt
    fresh,      \* callers that acquire or hold and whose time has not run out
    lost,       \* servers that forgot a key
    faulty      \* servers of failed requests

redlockVars == <<key, sent, pc, round, yes, no, fresh, lost, faulty>>

Quorum == Cardinality(Servers) \div 2 + 1

Active == {"acquires", "releases", "cleans"}
Op(c) == IF pc[c] = "acquires" THEN "set" ELSE "del"

RedlockInit ==
    /\ key = [s \in Servers |-> Nobody]
    /\ sent = [c \in Callers |-> [s \in Servers |-> <<>>]]
    /\ pc = [c \in Callers |-> "idle"]
    /\ round = [c \in Callers |-> 0]
    /\ yes = [c \in Callers |-> {}] /\ no = [c \in Callers |-> {}]
    /\ fresh = {} /\ lost = {} /\ faulty = {}
-----------------------------------------------------------------------------
\* An attempt: the command goes to every server.
Attempt(c, state, op, n) ==
    /\ pc' = [pc EXCEPT ![c] = state]
    /\ round' = [round EXCEPT ![c] = n]
    /\ sent' = [sent EXCEPT ![c] = [s \in Servers |-> Append(@[s], [op |-> op, n |-> <<state, n>>])]]
    /\ yes' = [yes EXCEPT ![c] = {}] /\ no' = [no EXCEPT ![c] = {}]

\* Leaving the call: with the lock, without it, or after it.
Answer(c, state) ==
    /\ pc' = [pc EXCEPT ![c] = state]
    /\ round' = [round EXCEPT ![c] = 0]
    /\ yes' = IF state = "holds" THEN yes ELSE [yes EXCEPT ![c] = {}]
    /\ no' = [no EXCEPT ![c] = {}]
    /\ UNCHANGED sent

AcquireLock(c) ==
    /\ pc[c] = "idle"
    /\ Attempt(c, "acquires", "set", 1)
    /\ fresh' = fresh \union {c}
    /\ UNCHANGED <<key, lost, faulty>>

\* Mutant of Done: set does not look whether there is a key.
BugDone(c, s) == Head(sent[c][s]).op = "set" \/ key[s] = c

\* What the server does with the command at the head of the connection, and
\* whether it was done: set where no key is, delete one's own.
Done(c, s) == IF Head(sent[c][s]).op = "set" THEN key[s] = Nobody ELSE key[s] = c
Effect(c, s) == IF ~Done(c, s) THEN key
                ELSE [key EXCEPT ![s] = IF Head(sent[c][s]).op = "set" THEN c ELSE Nobody]

\* Its vote, if it is about the present attempt.
Count(c, s, for) ==
    LET now == pc[c] \in Active /\ Head(sent[c][s]).n = <<pc[c], round[c]>>
    IN  /\ yes' = IF now /\ for THEN [yes EXCEPT ![c] = @ \union {s}] ELSE yes
        /\ no' = IF now /\ ~for THEN [no EXCEPT ![c] = @ \union {s}] ELSE no

Take(c, s) ==
    /\ sent[c][s] # <<>>
    /\ sent' = [sent EXCEPT ![c][s] = Tail(@)]

Serve(c, s) ==
    /\ Take(c, s)
    /\ key' = Effect(c, s)
    /\ Count(c, s, Done(c, s))
    /\ UNCHANGED <<pc, round, fresh, lost, faulty>>

\* The request fails or, resent after its answer was lost, finds itself done.
Fault(c, s) ==
    /\ Cardinality(lost) + Cardinality(faulty) < MaxFaults
    /\ Take(c, s)
    /\ key' \in {key, Effect(c, s)}
    /\ Count(c, s, FALSE)
    /\ faulty' = faulty \union {s}
    /\ UNCHANGED <<pc, round, fresh, lost>>

For(c) == Cardinality(yes[c]) >= Quorum
Against(c) == Cardinality(no[c]) >= Quorum

Acquired(c) ==
    /\ pc[c] = "acquires" /\ For(c)
    /\ Answer(c, "holds")
    /\ UNCHANGED <<key, fresh, lost, faulty>>

Released(c) ==
    /\ pc[c] = "releases" /\ For(c)
    /\ Answer(c, "done")
    /\ UNCHANGED <<key, fresh, lost, faulty>>

Retry(c) ==
    /\ pc[c] \in {"acquires", "releases"} /\ Against(c)
    /\ round[c] < MaxAttempts
    /\ Attempt(c, pc[c], Op(c), round[c] + 1)
    /\ fresh' = IF pc[c] = "acquires" THEN fresh \union {c} ELSE fresh
    /\ UNCHANGED <<key, lost, faulty>>

\* Mutant of GiveUpAcquire: acquire throws without removing what it has set.
BugGiveUpAcquire(c) ==
    /\ pc[c] = "acquires" /\ Against(c) /\ round[c] = MaxAttempts
    /\ Answer(c, "failed")
    /\ fresh' = fresh \ {c}
    /\ UNCHANGED <<key, lost, faulty>>

GiveUpAcquire(c) ==
    /\ pc[c] = "acquires" /\ Against(c) /\ round[c] = MaxAttempts
    /\ Attempt(c, "cleans", "del", 1)
    /\ fresh' = fresh \ {c}
    /\ UNCHANGED <<key, lost, faulty>>

\* Whatever becomes of the removal, acquireLock throws the error on: its name is
\* not the 'LockError' it looks for.
Cleaned(c) ==
    /\ pc[c] = "cleans" /\ (For(c) \/ Against(c))
    /\ Answer(c, "failed")
    /\ UNCHANGED <<key, fresh, lost, faulty>>

\* releaseLock, whose caller is done with the resource or has thrown.
ReleaseLock(c) ==
    /\ pc[c] = "holds"
    /\ Attempt(c, "releases", "del", 1)
    /\ fresh' = fresh \ {c}
    /\ UNCHANGED <<key, lost, faulty>>

\* Mutant of GiveUpRelease: it tries on.
BugGiveUpRelease(c) == FALSE /\ pc[c] = "releases" /\ UNCHANGED redlockVars

\* releaseLock swallows the error of a lock that is not there any more.
GiveUpRelease(c) ==
    /\ pc[c] = "releases" /\ Against(c) /\ round[c] = MaxAttempts
    /\ Answer(c, "done")
    /\ UNCHANGED <<key, fresh, lost, faulty>>

\* ttl milliseconds after the attempt began.
RunOut(c) ==
    /\ c \in fresh
    /\ fresh' = fresh \ {c}
    /\ UNCHANGED <<key, sent, pc, round, yes, no, lost, faulty>>

\* A key goes when its own time is over: not before that of the attempt that set
\* it, if that attempt is the present one.
Expire(s) ==
    /\ key[s] # Nobody
    /\ key[s] \in fresh => s \notin yes[key[s]]
    /\ key' = [key EXCEPT ![s] = Nobody]
    /\ UNCHANGED <<sent, pc, round, yes, no, fresh, lost, faulty>>

\* A server restarts and has not stored the key.
Lose(s) ==
    /\ s \notin lost /\ Cardinality(lost) < MaxLost
    /\ Cardinality(lost) + Cardinality(faulty) < MaxFaults
    /\ key[s] # Nobody
    /\ key' = [key EXCEPT ![s] = Nobody]
    /\ lost' = lost \union {s}
    /\ UNCHANGED <<sent, pc, round, yes, no, fresh, faulty>>

Decide(c) ==
    \/ Acquired(c) \/ Released(c) \/ Retry(c) \/ GiveUpAcquire(c) \/ Cleaned(c)
    \/ ReleaseLock(c) \/ GiveUpRelease(c)

RedlockNext ==
    \/ \E c \in Callers : AcquireLock(c) \/ Decide(c) \/ RunOut(c)
    \/ \E c \in Callers, s \in Servers : Serve(c, s) \/ Fault(c, s)
    \/ \E s \in Servers : Expire(s) \/ Lose(s)

RedlockSpec == RedlockInit /\ [][RedlockNext]_redlockVars

\* Servers answer, and the code goes on with what they say.
FairRedlockSpec == RedlockSpec /\ \A c \in Callers :
    WF_redlockVars(Decide(c)) /\ \A s \in Servers : WF_redlockVars(Serve(c, s))
-----------------------------------------------------------------------------
RedlockTypeOK ==
    /\ key \in [Servers -> Callers \union {Nobody}]
    /\ sent \in [Callers -> [Servers -> Seq([op : {"set", "del"}, n : Active \X Nat])]]
    /\ pc \in [Callers -> Active \union {"idle", "holds", "done", "failed"}]
    /\ round \in [Callers -> 0 .. MaxAttempts]
    /\ yes \in [Callers -> SUBSET Servers] /\ no \in [Callers -> SUBSET Servers]
    /\ fresh \subseteq Callers /\ lost \subseteq Servers /\ faulty \subseteq Servers

Holds(c) == pc[c] = "holds" /\ c \in fresh

\* Two callers never have the resource at once, whoever retries, whatever fails
\* or runs out, and though MaxLost servers forget.
MutualExclusion == \A c, d \in Callers : Holds(c) /\ Holds(d) => c = d

\* The lock is the abstract one.
place == [c \in Callers |-> CASE pc[c] \in {"idle", "acquires"} -> "before"
                              [] Holds(c) -> "inside"
                              [] OTHER -> "after"]
Abstract == INSTANCE Mutex
ImplementsMutex == Abstract!Spec

\* A caller that is through leaves no key behind, except on a server that failed
\* it: a failed acquire does not lock out the others for the rest of its time.
LeavesNothing == \A c \in Callers, s \in Servers :
    pc[c] \in {"done", "failed"} /\ sent[c][s] = <<>> /\ key[s] = c => s \in faulty

\* A call that every server has answered goes on, unless they are split evenly:
\* no retry, release or removal leaves it waiting for votes that do not come.
Tied(c) == ~For(c) /\ ~Against(c) /\ yes[c] \union no[c] = Servers
StuckIsTied == \A c \in Callers :
    pc[c] \in Active /\ (\A s \in Servers : sent[c][s] = <<>>) => Tied(c) \/ ENABLED Decide(c)

\* Refuted, with FairRedlockSpec: a tie is for ever, and both callers may have one.
EveryCallEnds == \A c \in Callers : pc[c] \in Active ~> pc[c] \notin Active

\* Refuted, what the comment on automaticExtensionThreshold says: a lock stays as
\* long as its caller has not released it.  The library extends only what is taken with
\* using(), which nothing here does.
HeldIsLocked == \A c \in Callers : pc[c] = "holds" =>
    Cardinality({s \in Servers : key[s] = c}) >= Quorum
=============================================================================
