--------------------------------- MODULE Cart ---------------------------------
(***************************************************************************)
(* The cart.  POST /cart/:userId compares the quantity with the stock the  *)
(* product cache shows (module ProductCache), inserts the item and emits   *)
(* CART_CHECKOUT_REQUESTED.  The checkout reads all items of the user,     *)
(* announces an order of them and removes them one beside the other, while *)
(* the user may go on adding, changing and deleting items.  The events of  *)
(* a checkout but for its order are answered to nobody: the stock checks   *)
(* it asks for are further readers of the product cache.                   *)
(***************************************************************************)
EXTENDS ProductCache

CONSTANTS
    Shoppers,       \* the users
    Adds,           \* the POSTs; an item has the id of the POST it is from
    By, Product, Quantity,  \* who adds what, and how much of it
    DetailKey,      \* DetailKey[p]: the cache key of getProductById(p)
    Browsers,       \* other readers: GET /products and stock checks
    PatchTo,        \* quantities a PATCH may ask for
    MaxFailures     \* bound on failing queries and crashes

ASSUME AddsAssumption ==
    /\ By \in [Adds -> Shoppers] /\ Product \in [Adds -> Products]
    /\ Quantity \in [Adds -> Nat \ {0}] /\ PatchTo \subseteq Nat \ {0}
ASSUME ReadersAssumption ==
    /\ Readers = Adds \union Browsers /\ Adds \intersect Browsers = {}
    /\ DetailKey \in [Products -> Keys]
    /\ \A p \in Products : p \in Shows[DetailKey[p]]
ASSUME FailuresAssumption == MaxFailures \in Nat

VARIABLES
    cart,           \* UserCart rows
    post,           \* post[a]: the state of POST a
    deleted,        \* DELETEs done: item and user
    checkout,       \* checkout[a]: the state of the checkout a has started
    removals,       \* removals[a]: the removeFromCart calls it is waiting for
    order,          \* order[a]: the items of its ORDER_CREATED
    failures

cartVars == <<cart, post, deleted, checkout, removals, order, failures>>
vars == <<cacheVars, cartVars>>

Item == [id : Adds, quantity : Nat \ {0}]
Removal == [id : Adds, step : {"find", "delete"}]

Init ==
    /\ CacheInit
    /\ cart = {} /\ deleted = {}
    /\ post = [a \in Adds |-> "none"]
    /\ checkout = [a \in Adds |-> "none"]
    /\ removals = [a \in Adds |-> {}] /\ order = [a \in Adds |-> {}]
    /\ failures = 0
-----------------------------------------------------------------------------
Works == UNCHANGED failures
Breaks == failures < MaxFailures /\ failures' = failures + 1

InCart == {i.id : i \in cart}
ItemsOf(u) == {i \in cart : By[i.id] = u}

\* CartController.addToCart: the product is read through the cache.
PostItem(a) ==
    /\ post[a] = "none" /\ post' = [post EXCEPT ![a] = "reading"]
    /\ Ask(a, DetailKey[Product[a]])
    /\ UNCHANGED <<cart, deleted, checkout, removals, order, failures>>

NewItem(a) == [id |-> a, quantity |-> Quantity[a]]

\* CartService.addToCart, and the checkout that follows.  When the INSERT fails,
\* with or without its effect, there is none.
AddToCart(a) ==
    /\ post[a] = "reading" /\ Leave(a, "answered")
    /\ \/ /\ got[a][Product[a]] >= Quantity[a] /\ Works
          /\ cart' = cart \union {NewItem(a)}
          /\ post' = [post EXCEPT ![a] = "added"]
          /\ checkout' = [checkout EXCEPT ![a] = "requested"]
       \/ /\ (got[a][Product[a]] < Quantity[a] /\ Works) \/ Breaks
          /\ cart' \in {cart} \union IF got[a][Product[a]] >= Quantity[a]
                                     THEN {cart \union {NewItem(a)}} ELSE {}
          /\ post' = [post EXCEPT ![a] = IF a \in {i.id : i \in cart'}
                                         THEN "added" ELSE "refused"]
          /\ UNCHANGED checkout
    /\ UNCHANGED <<stock, changes, peak, now, cache, key, slowest, deleted, removals, order>>

\* ORDER_CREATED.  OrderOrchestrator.handleOrderCreation inserts no order: it
\* asks for a payment of an order without an id, which fails.
OrderCreated(a, items) == order' = [order EXCEPT ![a] = items]

\* CartOrchestrator.handleCartCheckout: getCart, the validations, whose answers
\* nobody awaits, and the order.
ReadCart(a) ==
    LET items == ItemsOf(By[a]) IN
    /\ checkout[a] = "requested"
    /\ \/ /\ items # {} /\ Works
          /\ checkout' = [checkout EXCEPT ![a] = "removing"]
          /\ OrderCreated(a, items)
          /\ removals' = [removals EXCEPT ![a] = {[id |-> i.id, step |-> "find"] : i \in items}]
       \/ /\ (items = {} /\ Works) \/ Breaks
          /\ checkout' = [checkout EXCEPT ![a] = "failed"]
          /\ UNCHANGED <<order, removals>>
    /\ UNCHANGED <<cacheVars, cart, post, deleted>>

\* Mutant of Rejects: the items are removed in a loop that the error ends.
BugRejects(a, x) ==
    /\ removals' = [removals EXCEPT ![a] = {}]
    /\ checkout' = [checkout EXCEPT ![a] = "failed"]

\* One removeFromCart throws: Promise.all rejects, the others go on.
Rejects(a, x) ==
    /\ removals' = [removals EXCEPT ![a] = @ \ {x}]
    /\ checkout' = [checkout EXCEPT ![a] = "failed"]

\* CartService.removeFromCart: findById ...
FindItem(a, x) ==
    /\ x.step = "find"
    /\ \/ /\ x.id \in InCart /\ Works
          /\ removals' = [removals EXCEPT ![a] = (@ \ {x}) \union {[x EXCEPT !.step = "delete"]}]
          /\ UNCHANGED checkout
       \/ ((x.id \notin InCart /\ Works) \/ Breaks) /\ Rejects(a, x)
    /\ UNCHANGED <<cacheVars, cart, post, deleted, order>>

\* Mutant of Without: the items of the user are deleted, not the item.
BugWithout(id) == {i \in cart : By[i.id] # By[id]}

\* The cart when the row of an item is deleted.
Without(id) == {i \in cart : i.id # id}

\* ... and delete, which throws when the row has gone.
DeleteItem(a, x) ==
    /\ x.step = "delete"
    /\ \/ /\ x.id \in InCart /\ Works
          /\ cart' = Without(x.id)
          /\ removals' = [removals EXCEPT ![a] = @ \ {x}]
          /\ checkout' = [checkout EXCEPT ![a] = IF @ = "removing" /\ removals[a] = {x}
                                                 THEN "done" ELSE @]
       \/ x.id \notin InCart /\ Works /\ Rejects(a, x) /\ UNCHANGED cart
       \/ Breaks /\ Rejects(a, x) /\ cart' \in {cart, Without(x.id)}
    /\ UNCHANGED <<cacheVars, post, deleted, order>>

RemoveFromCart(a) == \E x \in removals[a] : FindItem(a, x) \/ DeleteItem(a, x)

\* DELETE and PATCH /cart/:userId/:cartId.  Neither looks at the stock; of
\* somebody else's item, or one that has gone, they change nothing.
DeleteByUser(u, i) ==
    /\ By[i.id] = u
    /\ cart' = Without(i.id)
    /\ deleted' = deleted \union {<<i.id, u>>}
    /\ UNCHANGED <<cacheVars, post, checkout, removals, order, failures>>

Updated(i, q) == Without(i.id) \union {[i EXCEPT !.quantity = q]}

UpdateQuantity(u, i, q) ==
    /\ By[i.id] = u /\ q # i.quantity
    /\ cart' = Updated(i, q)
    /\ UNCHANGED <<cacheVars, post, deleted, checkout, removals, order, failures>>

\* The product the cart asks for arrives.
ReadProduct(a) ==
    /\ Fetch(a) \/ (Set(a) /\ Keep(a))
    /\ UNCHANGED cartVars

\* GET /products, GET /products/popular, ProductOrchestrator.handleStockCheck.
\* A hit changes nothing.
Browse(c) ==
    /\ \/ \E k \in Keys : ~Valid(k) /\ Ask(c, k)
       \/ Fetch(c)
       \/ Set(c) /\ Leave(c, "set")
    /\ UNCHANGED cartVars

\* The process dies: checkouts and the cache are in its memory.
Crash ==
    /\ Breaks
    /\ cache' = [k \in Keys |-> NoEntry]
    /\ reader' = [c \in Readers |-> "none"]
    /\ got' = [c \in Readers |-> Nothing] /\ since' = [c \in Readers |-> 0]
    /\ post' = [a \in Adds |-> IF post[a] = "reading" THEN "refused" ELSE post[a]]
    /\ checkout' = [a \in Adds |-> IF checkout[a] \in {"requested", "removing"}
                                   THEN "failed" ELSE checkout[a]]
    /\ removals' = [a \in Adds |-> {}]
    /\ UNCHANGED <<stock, changes, peak, now, key, slowest, cart, deleted, order>>

Progress(a) ==
    ReadProduct(a) \/ AddToCart(a) \/ ReadCart(a) \/ RemoveFromCart(a)

Next ==
    \/ \E a \in Adds : PostItem(a) \/ Progress(a)
    \/ \E c \in Browsers : Browse(c)
    \/ \E u \in Shoppers, i \in cart :
          DeleteByUser(u, i) \/ (\E q \in PatchTo : UpdateQuantity(u, i, q))
    \/ (Environment /\ UNCHANGED cartVars)
    \/ Crash

Spec == Init /\ [][Next]_vars
-----------------------------------------------------------------------------
TypeOK ==
    /\ CacheTypeOK
    /\ cart \subseteq Item
    /\ post \in [Adds -> {"none", "reading", "added", "refused"}]
    /\ deleted \subseteq Adds \X Shoppers
    /\ checkout \in [Adds -> {"none", "requested", "removing", "done", "failed"}]
    /\ removals \in [Adds -> SUBSET Removal]
    /\ order \in [Adds -> SUBSET Item]
    /\ failures \in 0 .. MaxFailures

OrderedBy(a) == {i.id : i \in order[a]}

\* An item leaves the cart only with its user's DELETE or in an order announced
\* for that user: a checkout takes away nothing it has not read, although items
\* are added, changed and removed by other checkouts meanwhile.
RemovedIsOrdered ==
    \A id \in Adds : post[id] = "added" /\ id \notin InCart =>
        \/ <<id, By[id]>> \in deleted
        \/ \E a \in Adds : By[a] = By[id] /\ id \in OrderedBy(a)

\* While nothing fails, an item a checkout has ordered and is no longer about to
\* remove is not in the cart, although checkouts of one user make each other fail.
OrderedLeaves ==
    failures = 0 =>
        \A a \in Adds : \A id \in OrderedBy(a) \intersect InCart :
            \E x \in removals[a] : x.id = id

\* An item is added only when the product had that many pieces at some time
\* within the time to live of the cache, however late a reader sets its value.
AddedWasAvailable ==
    [][\A a \in Adds : post[a] = "reading" /\ post'[a] = "added"
          => HadRecently(a, Product[a], Quantity[a])]_vars

\* Refuted: an item is ordered once.
OrderedOnce ==
    \A a, b \in Adds : a # b => OrderedBy(a) \intersect OrderedBy(b) = {}

\* Refuted: what is removed is what was ordered.
RemovedAsOrdered ==
    \A a \in Adds : \A x \in removals[a] : \A i \in cart :
        i.id = x.id => i \in order[a]

\* Refuted: while nothing fails no checkout does.
NoCheckoutFails == failures = 0 => \A a \in Adds : checkout[a] # "failed"
=============================================================================
