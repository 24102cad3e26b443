--------------------------- MODULE DataGeneration ---------------------------
(***************************************************************************)
(* The scripts that fill the database with test data: 1_generate-datas.js, *)
(* 2_rebuild-datas.js and create-csv-data.ts.  They store users, products  *)
(* and variants, then orders by the chunk.  An item refers to its order by *)
(* the id the script expects the order to get, which nothing checks        *)
(* (relationMode of the schema).                                           *)
(* A draw is an order and its item as the script has made them up, known   *)
(* by the run and its count; which user, product and price it has does not *)
(* matter here.                                                            *)
(***************************************************************************)
EXTENDS Integers, FiniteSets, FiniteSetsExt

CONSTANTS
    Runs,           \* executions of a script
    ScriptOf,       \* ScriptOf[r]: "generate", "rebuild" or "csv"
    Chunk, Total,   \* of each script: CHUNK_SIZE and TOTAL_ORDERS
    Offset,         \* what 2_rebuild-datas.js adds to the ids of its orders
    MaxRunning,     \* bound: scripts at work at the same time
    MaxIncidents    \* bound: failing queries, deaths of a script, and orders of
                    \* the shop beside the scripts, together

Scripts == {"generate", "rebuild", "csv"}

RunsAssumption == ScriptOf \in [Runs -> Scripts] /\ "shop" \notin Runs
SizesAssumption ==
    /\ Chunk \in [Scripts -> Nat \ {0}] /\ Total \in [Scripts -> Nat] /\ Offset \in Nat
    /\ MaxIncidents \in Nat

VARIABLES
    users,      \* the users are stored (a unique index keeps them unique)
    bare, full, \* runs whose products are stored without and with variants
    orders,     \* orders[id]: the draw of an order; those of the shop are of run "shop"
    items,      \* order items: the order they refer to, and their draw
    next,       \* AUTO_INCREMENT of Order
    pc,
    processed,  \* processed[r]: processedCount
    held,       \* held[r]: the draws in the arrays of the script
    seen,       \* seen[r]: savedProducts with and without variants, by the run they are of
    base,       \* history: the counter when the script began with its orders
    alone,      \* history: runs that expect the right ids
    failures, shopOrders

catalogue == <<users, bare, full>>
table == <<orders, items, next>>
local == <<processed, held>>
vars == <<users, bare, full, orders, items, next, pc, processed, held, seen,
          base, alone, failures, shopOrders>>

First(r) == IF ScriptOf[r] = "rebuild" THEN "load" ELSE "users"

Init ==
    /\ users = FALSE /\ bare = {} /\ full = {}
    /\ orders = [id \in {} |-> {}] /\ items = {} /\ next = 1
    /\ pc = [r \in Runs |-> "idle"]
    /\ processed = [r \in Runs |-> 0]
    /\ held = [r \in Runs |-> {}]
    /\ seen = [r \in Runs |-> [full |-> {}, bare |-> {}]]
    /\ base = [r \in Runs |-> 0]
    /\ alone = {}
    /\ failures = 0 /\ shopOrders = 0
-----------------------------------------------------------------------------
Goes(r, to) == pc' = [pc EXCEPT ![r] = to]

Running == {r \in Runs : pc[r] \notin {"idle", "done", "failed"}}

Start(r) ==
    /\ pc[r] = "idle"
    /\ Cardinality(Running) < MaxRunning
    /\ Goes(r, First(r))
    /\ UNCHANGED <<catalogue, table, local, seen, base, alone, failures, shopOrders>>

\* The users, in one createMany that skips those that are there.
Users(r) == pc[r] = "users" /\ users' = TRUE /\ UNCHANGED <<bare, full>>

\* The products, in one transaction.
Products(r) == pc[r] = "products" /\ bare' = bare \union {r} /\ UNCHANGED <<users, full>>

\* Two or three variants of each product, in one createMany.
Variants(r) ==
    /\ pc[r] = "variants"
    /\ bare' = bare \ {r}
    /\ full' = full \union {r}
    /\ UNCHANGED users

StoreCatalogue(r) ==
    /\ \/ Users(r) /\ Goes(r, "products")
       \/ Products(r) /\ Goes(r, "variants")
       \/ Variants(r) /\ Goes(r, "load")
    /\ UNCHANGED <<table, local, seen, base, alone, failures, shopOrders>>

\* The counter at which the numbers of a script are right.
FirstId(r) == IF ScriptOf[r] = "rebuild" THEN Offset + 1 ELSE 1

\* Mutant of Expected: the count of a chunk starts at 0.
BugExpected(r, n) == (IF ScriptOf[r] = "rebuild" THEN Offset ELSE 0) + n - 1

\* The id the n-th order of a run is expected to get.
Expected(r, n) == (IF ScriptOf[r] = "rebuild" THEN Offset ELSE 0) + n

\* savedUsers and savedProducts, with the variants of those that have any: without
\* users or products there is nothing to draw from, and the first draw throws.
Load(r) ==
    /\ pc[r] = "load"
    /\ seen' = [seen EXCEPT ![r] = [full |-> full, bare |-> bare]]
    /\ Goes(r, IF users /\ bare \union full # {} THEN "draw" ELSE "failed")
    /\ base' = [base EXCEPT ![r] = next]
    /\ alone' = IF next = FirstId(r) THEN alone \union {r} ELSE alone
    /\ UNCHANGED <<catalogue, table, local, failures, shopOrders>>

ChunkOf(r) == Min({Chunk[ScriptOf[r]], Total[ScriptOf[r]] - processed[r]})
Drawn(r) == {[run |-> r, n |-> processed[r] + k] : k \in 1 .. ChunkOf(r)}

\* The batch of a .js script, drawn without an await; it throws when it comes
\* upon a product without variants.
DrawBatch(r) ==
    /\ pc[r] = "draw" /\ ScriptOf[r] # "csv"
    /\ IF processed[r] >= Total[ScriptOf[r]]
       THEN Goes(r, "done") /\ UNCHANGED held
       ELSE \/ seen[r].full # {} /\ Goes(r, "save") /\ held' = [held EXCEPT ![r] = Drawn(r)]
            \/ seen[r].bare # {} /\ Goes(r, "failed") /\ UNCHANGED held
    /\ UNCHANGED <<catalogue, table, processed, seen, base, alone, failures, shopOrders>>

\* create-csv-data.ts adds to its arrays, and stores them when they hold a chunk
\* or, after the loop, anything.
AccumulateBatch(r) ==
    /\ pc[r] = "draw" /\ ScriptOf[r] = "csv"
    /\ IF processed[r] >= Total["csv"]
       THEN Goes(r, IF held[r] # {} THEN "rest" ELSE "done") /\ UNCHANGED <<processed, held>>
       ELSE \/ /\ seen[r].full # {}
               /\ held' = [held EXCEPT ![r] = @ \union Drawn(r)]
               /\ IF Cardinality(held'[r]) >= Chunk["csv"]
                  THEN Goes(r, "save") /\ UNCHANGED processed
                  ELSE UNCHANGED pc /\ processed' = [processed EXCEPT ![r] = @ + ChunkOf(r)]
            \/ /\ seen[r].bare # {}
               /\ Goes(r, "failed")
               /\ UNCHANGED <<processed, held>>
    /\ UNCHANGED <<catalogue, table, seen, base, alone, failures, shopOrders>>

\* Order.createMany and OrderItem.createMany of what the arrays hold: orders get
\* ids in their order, and items those the script expects.
NewIds(r) == next .. next + Cardinality(held[r]) - 1
Lowest(r) == Min({d.n : d \in held[r]})
InsertOrders(r) ==
    /\ orders' = [id \in DOMAIN orders \union NewIds(r) |->
                     IF id \in NewIds(r) THEN [run |-> r, n |-> Lowest(r) + id - next]
                     ELSE orders[id]]
    /\ next' = next + Cardinality(held[r])
    /\ alone' = alone \intersect {r}
InsertItems(r) == items' = items \union {[order |-> Expected(r, d.n), draw |-> d] : d \in held[r]}
Store(r) == InsertOrders(r) /\ InsertItems(r)

Count(r) == processed' = [processed EXCEPT ![r] = @ + ChunkOf(r)]

\* One transaction of the two.
SaveBatch(r) ==
    /\ pc[r] = "save"
    /\ Store(r)
    /\ Count(r)
    /\ held' = [held EXCEPT ![r] = {}]
    /\ Goes(r, "draw")
    /\ UNCHANGED <<catalogue, seen, base, failures, shopOrders>>

SaveRest(r) ==
    /\ pc[r] = "rest"
    /\ Store(r)
    /\ Goes(r, "done")
    /\ UNCHANGED <<catalogue, local, seen, base, failures, shopOrders>>

\* Mutant of Unsaved: the two createMany are not in a transaction.
BugUnsaved(r) == InsertOrders(r) /\ UNCHANGED items

\* The transaction is rolled back; the ids it took do not come back.
Unsaved(r) ==
    /\ UNCHANGED <<orders, items>>
    /\ next' = next + Cardinality(held[r])
    /\ alone' = alone \intersect {r}

\* A query fails, or the script dies in it: before or after its effect.
Fail(r) ==
    /\ r \in Running
    /\ failures + shopOrders < MaxIncidents
    /\ failures' = failures + 1
    /\ Goes(r, "failed")
    /\ \/ UNCHANGED <<catalogue, table, alone>>
       \/ (Users(r) \/ Products(r) \/ Variants(r)) /\ UNCHANGED <<table, alone>>
       \/ pc[r] \in {"save", "rest"} /\ (Store(r) \/ Unsaved(r)) /\ UNCHANGED catalogue
    /\ UNCHANGED <<local, seen, base, shopOrders>>

\* An order of the shop (module OrderCreation).
ShopOrder ==
    /\ failures + shopOrders < MaxIncidents
    /\ shopOrders' = shopOrders + 1
    /\ orders' = [id \in DOMAIN orders \union {next} |->
                     IF id = next THEN [run |-> "shop", n |-> 1] ELSE orders[id]]
    /\ next' = next + 1
    /\ alone' = {}
    /\ UNCHANGED <<catalogue, items, pc, local, seen, base, failures>>

Go(r) ==
    \/ StoreCatalogue(r) \/ Load(r)
    \/ DrawBatch(r) \/ AccumulateBatch(r) \/ SaveBatch(r) \/ SaveRest(r)

Next == ShopOrder \/ \E r \in Runs : Start(r) \/ Go(r) \/ Fail(r)

Spec == Init /\ [][Next]_vars
-----------------------------------------------------------------------------
Largest == Max({Total[s] : s \in Scripts})
Draws == {[run |-> r, n |-> n] : r \in Runs, n \in 1 .. Largest}

TypeOK ==
    /\ users \in BOOLEAN /\ bare \subseteq Runs /\ full \subseteq Runs \ bare
    /\ next \in Nat /\ DOMAIN orders \subseteq 1 .. next - 1
    /\ \A id \in DOMAIN orders : orders[id] \in Draws \union {[run |-> "shop", n |-> 1]}
    /\ \A i \in items : i.order \in Nat \ {0} /\ i.draw \in Draws
    /\ pc \in [Runs -> {"idle", "users", "products", "variants", "load", "draw",
                        "save", "rest", "done", "failed"}]
    /\ \A r \in Runs : processed[r] \in 0 .. Total[ScriptOf[r]]
    /\ \A r \in Runs : held[r] \subseteq Draws /\ Cardinality(held[r]) <= Chunk[ScriptOf[r]]
    /\ seen \in [Runs -> [full : SUBSET Runs, bare : SUBSET Runs]] /\ base \in [Runs -> Nat] /\ alone \subseteq Runs
    /\ failures \in Nat /\ shopOrders \in Nat /\ failures + shopOrders <= MaxIncidents

OrdersOf(r) == {id \in DOMAIN orders : orders[id].run = r}
ItemsOf(r) == {i \in items : i.draw.run = r}

\* Where a script found the counter as it expects it, and nobody else has stored
\* orders since, each item refers to the order it was drawn with, however often
\* the script is cut off (generateData computes orderId from processedCount).
ItemsMatch ==
    \A r \in alone : \A i \in ItemsOf(r) :
        i.order \in DOMAIN orders /\ orders[i.order] = i.draw

\* Whatever fails or runs beside it, a script stores an order with its item or
\* neither (the $transaction of the two createMany).
StoredTogether ==
    \A r \in Runs : {orders[id].n : id \in OrdersOf(r)} = {i.draw.n : i \in ItemsOf(r)}

\* A script that ends without an error has stored each of its orders, once
\* (chunks of any size, and what is left after the last one).
DoneIsComplete ==
    \A r \in Runs : pc[r] = "done" =>
        /\ Cardinality(OrdersOf(r)) = Total[ScriptOf[r]]
        /\ {orders[id].n : id \in OrdersOf(r)} = 1 .. Total[ScriptOf[r]]

\* Refuted: the items of 2_rebuild-datas.js belong to orders from after those
\* there were (the comment at the id: "start after the existing ids").
StartsAfterExisting ==
    \A i \in items : ScriptOf[i.draw.run] = "rebuild" => i.order >= base[i.draw.run]

\* Refuted: a script that is started again, or next to the shop, adds its items
\* to orders that are not its own.
ItemsAlwaysMatch ==
    \A i \in items : i.order \in DOMAIN orders => orders[i.order] = i.draw

\* Refuted: a script that dies between products and variants leaves products at
\* which every later script may throw.
ProductsGetVariants == \A r \in bare : pc[r] # "failed"
=============================================================================
