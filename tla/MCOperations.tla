---------------------------- MODULE MCOperations ----------------------------
(***************************************************************************)
(* What runs around the orders and payments, none of it sharing state with *)
(* another: the start of the server, the scripts with test data, PATCH of  *)
(* an order's status, the way of a request through Nest, and lists that    *)
(* are read page by page.  A behaviour is one of one of these parts, which *)
(* is drawn at its beginning, while the others stay as they are.           *)
(***************************************************************************)
EXTENDS Integers, Sequences, FiniteSets, TLC

CONSTANTS
    h1, h2, i1, i2, i3,
    Hosts, Instances, HostOf, Hooks, MaxStarts,             \* Bootstrap
    ScriptRuns, ScriptOf, Chunk, Total, Offset, MaxRunning, MaxIncidents, \* DataGeneration
    Orders, Stored, Status, Calls, OrderOf, To, MaxPayments,    \* OrderStatus
    Requests, Route,                                        \* HttpPipeline
    Ids, Times, PageSize, MaxWrites,                        \* Paging
    MaxErrors                                   \* Bootstrap and OrderStatus

\* Two servers in one working directory and one in another.
MCHosts == {h1, h2}
MCInstances == {i1, i2, i3}
MCHostOf == (i1 :> h1) @@ (i2 :> h1) @@ (i3 :> h2)
MCHooks == {"prisma", "redis", "kafka"}

\* The sizes of the scripts in their order, in millions: 5 to generate and an
\* offset of 4 (2_rebuild-datas.js), but fewer than 46 and 50 for the other two.
MCScriptOf == ("r1" :> "generate") @@ ("r2" :> "rebuild") @@ ("r3" :> "csv")
MCChunk == ("generate" :> 4) @@ ("rebuild" :> 3) @@ ("csv" :> 2)
MCTotal == ("generate" :> 5) @@ ("rebuild" :> 2) @@ ("csv" :> 3)

\* Two calls for one order and one for an order that does not exist.
MCOrderOf == ("c1" :> 1) @@ ("c2" :> 1) @@ ("c3" :> 9)
MCTo == ("c1" :> "SHIPPING") @@ ("c2" :> "PAID") @@ ("c3" :> "PAID")

\* A request of each kind; one of an unknown route is refused as any may be.
MCRoute == "r1" :> "order" @@ "r2" :> "guarded" @@ "r3" :> "open"

VARIABLES
    part,
    flag, db, ids, bootNext, bootAt, step, took, hooks, starts, bootFailures, burnt, overlap,
    userRows, bare, full, orders, items, orderNext, scriptAt, processed, held, drawnFrom, base, alone,
    scriptFailures, shopOrders,
    status, callAt, read, transit, topic, lost, wrote, statusFailures, payments,
    requestAt, thrown, log, answer, stored, reports, alive,
    createdAt, rows, page, open, total, got, stayed, changed, raced

start == <<flag, db, ids, bootNext, bootAt, step, took, hooks, starts, bootFailures, burnt, overlap>>
scripts == <<userRows, bare, full, orders, items, orderNext, scriptAt, processed, held,
             drawnFrom, base, alone, scriptFailures, shopOrders>>
patch == <<status, callAt, read, transit, topic, lost, wrote, statusFailures, payments>>
http == <<requestAt, thrown, log, answer, stored, reports, alive>>
lists == <<createdAt, rows, page, open, total, got, stayed, changed, raced>>
vars == <<part, start, scripts, patch, http, lists>>

Boot == INSTANCE Bootstrap WITH next <- bootNext, pc <- bootAt,
    failures <- bootFailures, MaxFailures <- MaxErrors
Data == INSTANCE DataGeneration WITH next <- orderNext, pc <- scriptAt,
    failures <- scriptFailures, Runs <- ScriptRuns, users <- userRows, seen <- drawnFrom
Patch == INSTANCE OrderStatus WITH pc <- callAt, failures <- statusFailures,
    MaxFailures <- MaxErrors
Http == INSTANCE HttpPipeline WITH stage <- requestAt
Lists == INSTANCE Paging WITH at <- createdAt, wrote <- changed

ASSUME OperationsAssumption ==
    /\ Boot!HostsAssumption /\ Boot!BoundsAssumption
    /\ Data!RunsAssumption /\ Data!SizesAssumption
    /\ Patch!OrdersAssumption /\ Patch!CallsAssumption /\ Patch!BoundsAssumption
    /\ Http!RouteAssumption /\ Lists!NumbersAssumption

Init ==
    /\ part \in {"start", "scripts", "patch", "http", "lists"}
    /\ Boot!Init /\ Data!Init /\ Patch!Init /\ Http!Init /\ Lists!Init
    /\ part # "lists" => rows = {} /\ createdAt = [i \in Ids |-> 1]

InStart(A) == part = "start" /\ A /\ UNCHANGED <<part, scripts, patch, http, lists>>
InScripts(A) == part = "scripts" /\ A /\ UNCHANGED <<part, start, patch, http, lists>>
InPatch(A) == part = "patch" /\ A /\ UNCHANGED <<part, start, scripts, http, lists>>
InHttp(A) == part = "http" /\ A /\ UNCHANGED <<part, start, scripts, patch, lists>>
InLists(A) == part = "lists" /\ A /\ UNCHANGED <<part, start, scripts, patch, http>>

Next ==
    \/ InStart(Boot!Next) \/ InScripts(Data!Next) \/ InPatch(Patch!Next)
    \/ InHttp(Http!Next) \/ InLists(Lists!Next)

\* In the part with something to come true in the end, what is under way goes on.
FairSpec == Init /\ [][Next]_vars /\ WF_vars(InPatch(Patch!Progress))
-----------------------------------------------------------------------------
TypeOK == Boot!TypeOK /\ Data!TypeOK /\ Patch!TypeOK /\ Http!TypeOK /\ Lists!TypeOK

\* Bootstrap: what serves, or has the flag file, has every row of the seed, however
\* often a start was cut off before; and without that, each host stores it once.
SeedIsSound == Boot!ServesSeeded /\ Boot!SeededOncePerHost

\* Bootstrap: what the seed refers to by its id is there.
LinksResolve == Boot!LinksResolve

\* DataGeneration: an item refers to its own order.
ItemsMatch == Data!ItemsMatch

\* DataGeneration: an order is stored with its item or not at all, and by a script
\* that ends well all of them are, whatever the size of the last chunk.
OrdersComplete == Data!StoredTogether /\ Data!DoneIsComplete

\* OrderStatus: nobody hears of a status that was not written, and what a message
\* says was there before was there.
MessagesAreTrue == Patch!ToldIsWritten /\ Patch!PreviousWasThere

\* HttpPipeline: the log says of each answer what it was.
LogTellsAnswer == Http!LogTellsAnswer

\* Paging: rows are shown twice or missed for the reasons named only.
PagesExplained == Lists!RepeatsExplained /\ Lists!MissesExplained

\* OrderStatus: a write is told, whatever else runs, fails or crashes, unless its own
\* call was cut off or its own message lost.
WritesAreTold == Patch!WrittenIsTold
=============================================================================
