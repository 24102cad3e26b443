------------------------------ MODULE Bootstrap ------------------------------
(***************************************************************************)
(* The start of the server: bootstrap() of main.ts with DatabaseSetup,     *)
(* which creates, migrates and seeds the database unless a file in the     *)
(* working directory says that this was done, and the onModuleInit hooks   *)
(* that run before the server listens.                                     *)
(* An instance is one place where the server is started, again and again;  *)
(* the instances of a host share its working directory, all instances      *)
(* share the database.  The seed refers to its own rows by the ids they    *)
(* get in an empty table, and prisma's relationMode leaves the references  *)
(* unchecked.                                                              *)
(***************************************************************************)
EXTENDS Integers, Sequences, FiniteSets

CONSTANTS
    Hosts,          \* working directories
    Instances,      \* places the server is started at
    HostOf,         \* HostOf[i]: the working directory of instance i
    Hooks,          \* the modules with an onModuleInit that may fail
    MaxStarts,      \* bound: how often a server is started
    MaxFailures     \* bound: failing commands, statements, crashes

HostsAssumption == HostOf \in [Instances -> Hosts] /\ IsFiniteSet(Hosts)
BoundsAssumption == MaxStarts \in Nat /\ MaxFailures \in Nat

VARIABLES
    flag,       \* the hosts whose working directory has the flag file
    db,         \* "none", "created", "migrated"
    ids,        \* ids[t][k]: the ids of the rows that hold row k of Seed[t]
    next,       \* next[t]: the AUTO_INCREMENT counter of the table
    pc,         \* pc[i]: what instance i does next
    step,       \* step[i]: the createMany it is at while it seeds
    took,       \* took[i]: the first of the ids that this one has taken
    hooks,      \* hooks[i]: the hooks that have not run
    starts, failures,
    burnt,      \* history: a statement failed after it had taken its ids, or took
                \* them before those of another were in the table
    overlap     \* history: two instances of a host were setting up at once

tables == <<ids, next>>
history == <<burnt, overlap>>
vars == <<flag, db, ids, next, pc, step, took, hooks, starts, failures, burnt, overlap>>

\* The createMany of runSeed in their order.  refs[k] is what row k refers to,
\* as table number and id; a unique index makes skipDuplicates skip a row.
UsersAndCoupons == <<
    [name |-> "userAccount", unique |-> TRUE, refs |-> <<{}, {}, {}>>],
    [name |-> "coupon", unique |-> FALSE, refs |-> <<{}, {}>>],
    [name |-> "fcfsCoupon", unique |-> FALSE, refs |-> <<{<<2, 1>>}, {<<2, 2>>}>>] >>

Catalogue == <<
    [name |-> "product", unique |-> FALSE, refs |-> <<{}, {}, {}>>],
    [name |-> "productVariant", unique |-> TRUE,
     refs |-> <<{<<4, 1>>}, {<<4, 1>>}, {<<4, 1>>}, {<<4, 2>>}, {<<4, 2>>},
                {<<4, 2>>}, {<<4, 3>>}, {<<4, 3>>}>>],
    [name |-> "productImage", unique |-> FALSE,
     refs |-> <<{<<4, 1>>}, {<<4, 1>>, <<5, 1>>}, {<<4, 2>>},
                {<<4, 2>>, <<5, 4>>}, {<<4, 3>>}>>] >>

Balances == <<
    [name |-> "userBalance", unique |-> TRUE,
     refs |-> <<{<<1, 1>>}, {<<1, 2>>}, {<<1, 3>>}>>] >>

Seed == UsersAndCoupons \o Catalogue \o Balances

Tables == DOMAIN Seed
Rows(t) == DOMAIN Seed[t].refs

\* The steps of initializeDatabase, and of bootstrap as a whole.
Setup == {"create", "migrate", "seed", "store", "mark"}
Step == {"down", "check", "connect", "init", "serving"} \union Setup

Init ==
    /\ flag = {}
    /\ db = "none"
    /\ ids = [t \in Tables |-> [k \in Rows(t) |-> {}]]
    /\ next = [t \in Tables |-> 1]
    /\ pc = [i \in Instances |-> "down"]
    /\ step = [i \in Instances |-> 1] /\ took = [i \in Instances |-> 1]
    /\ hooks = [i \in Instances |-> {}]
    /\ starts = 0 /\ failures = 0
    /\ burnt = FALSE /\ overlap = FALSE
-----------------------------------------------------------------------------
Goes(i, to) == pc' = [pc EXCEPT ![i] = to]

\* NestFactory.create: every service is constructed.
Start(i) ==
    /\ pc[i] = "down"
    /\ starts < MaxStarts
    /\ starts' = starts + 1
    /\ Goes(i, "check")
    /\ UNCHANGED <<flag, db, tables, step, took, hooks, failures, history>>

IsInitialized(i) == HostOf[i] \in flag

\* initializeDatabase: with the file there is nothing to do.
InitializeDatabase(i) ==
    /\ pc[i] = "check"
    /\ IF IsInitialized(i)
       THEN Goes(i, "connect") /\ UNCHANGED overlap
       ELSE /\ Goes(i, "create")
            /\ overlap' = (overlap \/ \E j \in Instances :
                               HostOf[j] = HostOf[i] /\ pc[j] \in Setup)
    /\ UNCHANGED <<flag, db, tables, step, took, hooks, starts, failures, burnt>>

\* CREATE DATABASE IF NOT EXISTS.
CreateDatabase(i) ==
    /\ pc[i] = "create"
    /\ db' = IF db = "none" THEN "created" ELSE db
    /\ Goes(i, "migrate")
    /\ UNCHANGED <<flag, tables, step, took, hooks, starts, failures, history>>

\* prisma migrate: nothing if it has been done.
RunMigration(i) ==
    /\ pc[i] = "migrate"
    /\ db' = "migrated"
    /\ Goes(i, "seed")
    /\ step' = [step EXCEPT ![i] = 1]
    /\ UNCHANGED <<flag, tables, took, hooks, starts, failures, history>>

\* A createMany, INSERT IGNORE in MySQL, takes an id for each of its rows, for
\* those it will skip too, before it stores the first.
TakeIds(i) ==
    /\ pc[i] = "seed"
    /\ took' = [took EXCEPT ![i] = next[step[i]]]
    /\ next' = [next EXCEPT ![step[i]] = @ + Len(Seed[step[i]].refs)]
    /\ burnt' = (burnt \/ \E j \in Instances : pc[j] = "store" /\ step[j] = step[i])
    /\ Goes(i, "store")
    /\ UNCHANGED <<flag, db, ids, step, hooks, starts, failures, overlap>>

\* The rows: who is second at the first of them waits for the other's commit.
Insert(i) ==
    LET t == step[i] IN
    ids' = [ids EXCEPT ![t] = [k \in Rows(t) |->
               IF Seed[t].unique /\ ids[t][k] # {} THEN ids[t][k]
               ELSE ids[t][k] \union {took[i] + k - 1}]]

\* Mutant of Last: the last createMany is never reached.
BugLast(i) == step[i] + 1 = Len(Seed)

Last(i) == step[i] = Len(Seed)

\* runSeed.
RunSeed(i) ==
    /\ pc[i] = "store"
    /\ Insert(i)
    /\ IF Last(i) THEN Goes(i, "mark") /\ UNCHANGED step
       ELSE Goes(i, "seed") /\ step' = [step EXCEPT ![i] = @ + 1]
    /\ UNCHANGED <<flag, db, next, took, hooks, starts, failures, history>>

\* markAsInitialized.
MarkAsInitialized(i) ==
    /\ pc[i] = "mark"
    /\ flag' = flag \union {HostOf[i]}
    /\ Goes(i, "connect")
    /\ UNCHANGED <<db, tables, step, took, hooks, starts, failures, history>>

\* prisma.$connect of bootstrap; then app.listen runs the hooks.
Connect(i) ==
    /\ pc[i] = "connect"
    /\ hooks' = [hooks EXCEPT ![i] = Hooks]
    /\ Goes(i, "init")
    /\ UNCHANGED <<flag, db, tables, step, took, starts, failures, history>>

\* onModuleInit of PrismaService, RedisService and KafkaService, in any order:
\* connections to the database, the Redis servers and the brokers.
OnModuleInit(i) ==
    /\ pc[i] = "init"
    /\ \E h \in hooks[i] : hooks' = [hooks EXCEPT ![i] = @ \ {h}]
    /\ UNCHANGED <<flag, db, tables, pc, step, took, starts, failures, history>>

Listen(i) ==
    /\ pc[i] = "init" /\ hooks[i] = {}
    /\ Goes(i, "serving")
    /\ UNCHANGED <<flag, db, tables, step, took, hooks, starts, failures, history>>

\* SIGINT.
Stop(i) ==
    /\ pc[i] = "serving"
    /\ Goes(i, "down")
    /\ UNCHANGED <<flag, db, tables, step, took, hooks, starts, failures, history>>

\* Mutant of Exit: the error of a createMany is logged, and the seed goes on.
BugExit(i) ==
    IF pc[i] \in {"seed", "store"} /\ ~Last(i)
    THEN Goes(i, "seed") /\ step' = [step EXCEPT ![i] = @ + 1] /\ UNCHANGED hooks
    ELSE Goes(i, "down") /\ UNCHANGED <<step, hooks>>

\* process.exit(1), or the rejection of bootstrap() that nobody handles.
Exit(i) == Goes(i, "down") /\ UNCHANGED <<step, hooks>>

Fails == failures < MaxFailures /\ failures' = failures + 1

\* Any step fails, or the process dies in it, before or after the effect it had.
Fail(i) ==
    /\ pc[i] \notin {"down", "store"}
    /\ Fails
    /\ db' \in {db} \union (IF pc[i] = "create" /\ db = "none" THEN {"created"} ELSE {})
                    \union (IF pc[i] = "migrate" THEN {"migrated"} ELSE {})
    /\ flag' \in {flag} \union (IF pc[i] = "mark" THEN {flag \union {HostOf[i]}} ELSE {})
    /\ Exit(i)
    /\ UNCHANGED <<tables, took, starts, history>>

\* So does a createMany that has its ids: with its rows stored all the same, or
\* rolled back.
FailSeed(i) ==
    /\ pc[i] = "store"
    /\ Fails
    /\ \/ Insert(i) /\ UNCHANGED burnt
       \/ burnt' = TRUE /\ UNCHANGED ids
    /\ Exit(i)
    /\ UNCHANGED <<flag, db, next, took, starts, overlap>>

\* What an instance that is up goes on to do.
Go(i) ==
    \/ InitializeDatabase(i) \/ CreateDatabase(i) \/ RunMigration(i) \/ TakeIds(i) \/ RunSeed(i)
    \/ MarkAsInitialized(i) \/ Connect(i) \/ OnModuleInit(i) \/ Listen(i)

Next == \E i \in Instances : Start(i) \/ Go(i) \/ Stop(i) \/ Fail(i) \/ FailSeed(i)

Spec == Init /\ [][Next]_vars
-----------------------------------------------------------------------------
TypeOK ==
    /\ flag \subseteq Hosts
    /\ db \in {"none", "created", "migrated"}
    /\ DOMAIN ids = Tables
    /\ \A t \in Tables : ids[t] \in [Rows(t) -> SUBSET (Nat \ {0})]
    /\ next \in [Tables -> Nat \ {0}]
    /\ pc \in [Instances -> Step]
    /\ step \in [Instances -> Tables] /\ took \in [Instances -> Nat \ {0}]
    /\ hooks \in [Instances -> SUBSET Hooks]
    /\ starts \in 0 .. MaxStarts /\ failures \in 0 .. MaxFailures
    /\ burnt \in BOOLEAN /\ overlap \in BOOLEAN

Complete(t) == \A k \in Rows(t) : ids[t][k] # {}

\* Wherever the start before was cut off, a server that serves, and a directory
\* with the flag file, has a migrated database with every row of the seed
\* (initializeDatabase marks last, and an error anywhere ends the process).
ServesSeeded ==
    (flag # {} \/ \E i \in Instances : pc[i] = "serving") =>
        db = "migrated" /\ \A t \in Tables : Complete(t)

\* While nothing fails and no two starts of a host set up at once, each host
\* stores the seed once: later starts leave the database alone (isInitialized).
SeededOncePerHost ==
    failures = 0 /\ ~overlap =>
        LET seeding == {HostOf[i] : i \in {j \in Instances : pc[j] \in Setup}}
        IN  \A t \in Tables : \A k \in Rows(t) :
                Cardinality(ids[t][k]) <= Cardinality(flag \union seeding)

\* What the seed refers to by its id is the row it means, in whatever order
\* instances seed and are cut off (runSeed relies on ids that start at 1), as
\* long as no statement was rolled back after it had taken its ids, or took them
\* before those of another were in the table.
LinksResolve ==
    ~burnt => \A t \in Tables : \A k \in Rows(t) : ids[t][k] # {} =>
                  \A r \in Seed[t].refs[k] : r[2] \in ids[r[1]][r[2]]

\* Refuted: skipDuplicates skips only what a unique index forbids (Coupon,
\* FcfsCoupon, Product and ProductImage have none), so that the start after a
\* failed one stores those rows again.
SkipsDuplicates == \A t \in Tables : \A k \in Rows(t) : Cardinality(ids[t][k]) <= 1

\* Refuted: ids that a failed statement has taken do not come back, and a row may
\* be stored by the second of two that have ids for it; all that refers to it then
\* points nowhere.
LinksAlwaysResolve == \A t \in Tables : \A k \in Rows(t) : ids[t][k] # {} =>
                          \A r \in Seed[t].refs[k] : r[2] \in ids[r[1]][r[2]]
=============================================================================
