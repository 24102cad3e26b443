----------------------------- MODULE ProductCache -----------------------------
(***************************************************************************)
(* Products read through the in-memory cache: CacheService.getOrSet as     *)
(* ProductService uses it, beside the stock that payments change in MySQL. *)
(* Between the look-up, the query and the set other readers run; nothing   *)
(* removes an entry but its time to live.  A product stands for one of its *)
(* variants, and its data for that variant's stockQuantity.                *)
(***************************************************************************)
EXTENDS Integers, FiniteSets, FiniteSetsExt

CONSTANTS
    Products,
    Stock0,
    Keys,           \* the cache keys in use
    Shows,          \* Shows[k]: the products whose data k holds
    Ttl,            \* Ttl[k]: its time to live
    Readers,        \* the calls of getOrSet in flight
    NoEntry,        \* nothing is cached
    MaxStock,       \* bound on a product's stock
    MaxChanges,     \* bound on the number of times it changes
    MaxTime         \* bound on the clock

ASSUME KeysAssumption ==
    Shows \in [Keys -> SUBSET Products] /\ Ttl \in [Keys -> Nat \ {0}]
ASSUME StockAssumption ==
    /\ MaxStock \in Nat /\ MaxChanges \in Nat /\ MaxTime \in Nat
    /\ Stock0 \in [Products -> 0 .. MaxStock]

VARIABLES
    stock,          \* ProductVariant.stockQuantity
    changes,        \* how often it has changed
    peak,           \* peak[p][t]: the most there was of p during time t
    now,
    cache,          \* cache[k]: what is cached, and until when
    reader,         \* reader[c]: the next step of call c
    key, got,       \* key[c], got[c]: what it asks for, and what it has
    since,          \* since[c]: when it queried, and then when it was answered
    slowest         \* longest time from a query to its set so far

cacheVars == <<stock, changes, peak, now, cache, reader, key, got, since, slowest>>

Data == UNION {[Shows[k] -> 0 .. MaxStock] : k \in Keys}
Entry == [data : Data, until : Nat]
Nothing == [p \in {} |-> 0]

CacheInit ==
    /\ stock = Stock0 /\ changes = 0
    /\ peak = [p \in Products |-> [t \in 0 .. MaxTime |-> IF t = 0 THEN Stock0[p] ELSE 0]]
    /\ now = 0
    /\ cache = [k \in Keys |-> NoEntry]
    /\ reader = [c \in Readers |-> "none"]
    /\ key \in [Readers -> Keys]
    /\ got = [c \in Readers |-> Nothing]
    /\ since = [c \in Readers |-> 0]
    /\ slowest = 0
-----------------------------------------------------------------------------
ReaderGoes(c, from, to) == reader[c] = from /\ reader' = [reader EXCEPT ![c] = to]

\* Mutant of Valid: an entry lives for ever.
BugValid(k) == cache[k] # NoEntry

Valid(k) == cache[k] # NoEntry /\ now <= cache[k].until

\* getProductById, getPopularProducts: CacheService.get is in memory, a hit is
\* the answer.
Ask(c, k) ==
    /\ \/ /\ Valid(k) /\ ReaderGoes(c, "none", "answered")
          /\ got' = [got EXCEPT ![c] = cache[k].data]
          /\ since' = [since EXCEPT ![c] = now]
       \/ ~Valid(k) /\ ReaderGoes(c, "none", "fetch") /\ UNCHANGED <<got, since>>
    /\ key' = [key EXCEPT ![c] = k]
    /\ UNCHANGED <<stock, changes, peak, now, cache, slowest>>

\* fetchFn: ProductRepositoryPrisma.findById or findPopularProducts.
Fetch(c) ==
    /\ ReaderGoes(c, "fetch", "set")
    /\ got' = [got EXCEPT ![c] = [p \in Shows[key[c]] |-> stock[p]]]
    /\ since' = [since EXCEPT ![c] = now]
    /\ UNCHANGED <<stock, changes, peak, now, cache, key, slowest>>

\* CacheService.set when the result arrives, whatever has been set, or changed,
\* in the meantime.
Set(c) ==
    /\ cache' = [cache EXCEPT ![key[c]] = [data |-> got[c], until |-> now + Ttl[key[c]]]]
    /\ slowest' = Max({slowest, now - since[c]})
    /\ UNCHANGED <<stock, changes, peak, now, key>>

\* The caller has more to do with the answer, or is done with it.
Keep(c) ==
    /\ ReaderGoes(c, "set", "answered")
    /\ since' = [since EXCEPT ![c] = now]
    /\ UNCHANGED got

Leave(c, from) ==
    /\ ReaderGoes(c, from, "none")
    /\ got' = [got EXCEPT ![c] = Nothing] /\ since' = [since EXCEPT ![c] = 0]

\* A payment, a cancellation or a stock update (module Payment); the cache is
\* not told.
ChangeStock(p, n) ==
    /\ n # stock[p]
    /\ changes < MaxChanges /\ changes' = changes + 1
    /\ stock' = [stock EXCEPT ![p] = n]
    /\ peak' = [peak EXCEPT ![p][now] = Max({@, n})]
    /\ UNCHANGED <<now, cache, reader, key, got, since, slowest>>

Tick ==
    /\ now < MaxTime /\ now' = now + 1
    /\ peak' = [p \in Products |-> [peak[p] EXCEPT ![now + 1] = stock[p]]]
    /\ UNCHANGED <<stock, changes, cache, reader, key, got, since, slowest>>

Environment == Tick \/ \E p \in Products : \E n \in 0 .. MaxStock : ChangeStock(p, n)
-----------------------------------------------------------------------------
CacheTypeOK ==
    /\ stock \in [Products -> 0 .. MaxStock]
    /\ peak \in [Products -> [0 .. MaxTime -> 0 .. MaxStock]]
    /\ changes \in 0 .. MaxChanges /\ now \in 0 .. MaxTime
    /\ cache \in [Keys -> Entry \union {NoEntry}]
    /\ reader \in [Readers -> {"none", "fetch", "set", "answered"}]
    /\ key \in [Readers -> Keys]
    /\ got \in [Readers -> Data \union {Nothing}]
    /\ since \in [Readers -> Nat] /\ slowest \in Nat

\* What the answer call c was given is worth: p had at least n pieces at some
\* time not longer before than the time to live and the slowest query.
HadRecently(c, p, n) ==
    \E t \in 0 .. since[c] : t >= since[c] - Ttl[key[c]] - slowest /\ peak[p][t] >= n
=============================================================================
