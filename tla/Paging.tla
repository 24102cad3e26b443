------------------------------- MODULE Paging -------------------------------
(***************************************************************************)
(* A reader that goes through a list page by page, while others change it: *)
(* the payments of a user, the coupons of a user, and the coupons that are *)
(* given out first come, first served.  Each page is two queries, one for  *)
(* its rows and one for the number of all rows, on two connections.        *)
(*                                                                         *)
(* Rows are sorted by createdAt, newest first, and by nothing else: of     *)
(* rows with equal times any may come first, in each query anew.           *)
(***************************************************************************)
EXTENDS Integers, Sequences, FiniteSets

CONSTANTS
    Ids,            \* rows that may be in the list at some time, as they are created
    Times,          \* values of createdAt
    PageSize,       \* pageSize of payments, limit of coupons
    MaxWrites       \* bound: changes of the list while it is read

NumbersAssumption ==
    Ids \subseteq Nat /\ IsFiniteSet(Ids) /\ Times \subseteq Nat /\ PageSize \in Nat \ {0}

VARIABLES
    at,         \* at[i]: createdAt of row i
    rows,       \* rows that the where clause admits now
    page,       \* page that the reader asks for; 0 before the first
    open,       \* queries of that page without result
    total,      \* result of count
    got,        \* got[n]: rows of the n-th page
    stayed,     \* rows that were in the list ever since the reader began
    wrote,      \* changes since then: "in" and "out"
    raced       \* the list has changed between the two queries of the page

vars == <<at, rows, page, open, total, got, stayed, wrote, raced>>

Init ==
    /\ at \in {f \in [Ids -> Times] : \A i, j \in Ids : i < j => f[i] <= f[j]}
    /\ rows \in SUBSET Ids
    /\ page = 0 /\ open = {} /\ total = 0 /\ got = <<>>
    /\ stayed = rows /\ wrote = {} /\ raced = FALSE
-----------------------------------------------------------------------------
\* All orders of the list that ORDER BY createdAt DESC allows.
Listings == {f \in [1 .. Cardinality(rows) -> rows] :
    \A m, n \in DOMAIN f : m < n => f[m] # f[n] /\ at[f[m]] >= at[f[n]]}

\* Mutant of Skip: counts pages from zero.
BugSkip(p) == p * PageSize

Skip(p) == (p - 1) * PageSize

\* getUserPayments, findAvailableFcfsCoupons, findUserCoupons: both at once.
Ask ==
    /\ page = 0
    /\ page' = 1 /\ open' = {"count", "find"}
    /\ UNCHANGED <<at, rows, total, got, stayed, wrote, raced>>

Count ==
    /\ "count" \in open
    /\ total' = Cardinality(rows)
    /\ open' = open \ {"count"}
    /\ UNCHANGED <<at, rows, page, got, stayed, wrote, raced>>

Find ==
    /\ "find" \in open
    /\ \E f \in Listings : got' = Append(got,
           {f[n] : n \in {n \in DOMAIN f : Skip(page) < n /\ n <= Skip(page) + PageSize}})
    /\ open' = open \ {"find"}
    /\ UNCHANGED <<at, rows, page, total, stayed, wrote, raced>>

TotalPages == (total + PageSize - 1) \div PageSize

\* The reader looks at what the answer says about further pages.
Answered == page > 0 /\ open = {}
Turn ==
    /\ Answered /\ page < TotalPages
    /\ page' = page + 1 /\ open' = {"count", "find"} /\ raced' = FALSE
    /\ UNCHANGED <<at, rows, total, got, stayed, wrote>>

Done == Answered /\ page >= TotalPages

Write(kind) ==
    /\ ~Done
    /\ Cardinality(wrote) < MaxWrites
    /\ wrote' = IF page = 0 THEN wrote ELSE wrote \union {<<kind, Cardinality(wrote)>>}
    /\ stayed' = IF page = 0 THEN rows' ELSE stayed \intersect rows'
    /\ raced' = (raced \/ Cardinality(open) = 1)
    /\ UNCHANGED <<at, page, open, total, got>>

\* processPayment, issueFcfsCoupon: a row newer than all others, or as new.
Insert(i) ==
    /\ i \notin rows /\ \A j \in rows : at[i] >= at[j]
    /\ rows' = rows \union {i}
    /\ Write("in")

\* startDate of a coupon is reached, which says nothing of its createdAt.
Appear(i) ==
    /\ i \notin rows /\ rows' = rows \union {i}
    /\ Write("in")

\* Its endDate, or its last piece is given out.
Vanish(i) ==
    /\ i \in rows /\ rows' = rows \ {i}
    /\ Write("out")

Next == Ask \/ Count \/ Find \/ Turn \/ \E i \in Ids : Insert(i) \/ Appear(i) \/ Vanish(i)

Spec == Init /\ [][Next]_vars
-----------------------------------------------------------------------------
TypeOK ==
    /\ at \in [Ids -> Times] /\ rows \subseteq Ids /\ stayed \subseteq rows
    /\ page \in Nat /\ open \subseteq {"count", "find"} /\ total \in 0 .. Cardinality(Ids)
    /\ got \in Seq(SUBSET Ids) /\ Len(got) \in {page - 1, page} \intersect Nat
    /\ wrote \subseteq {"in", "out"} \X Nat /\ raced \in BOOLEAN

Kinds == {w[1] : w \in wrote}
Ties == \E i, j \in Ids : i # j /\ at[i] = at[j]
Seen == UNION {got[n] : n \in DOMAIN got}

\* A row is shown on two pages only if another one has come in meanwhile, or if
\* the times of two are equal.
RepeatsExplained ==
    (\E m, n \in DOMAIN got : m # n /\ got[m] \intersect got[n] # {}) => Ties \/ "in" \in Kinds

\* A row that was there all the time is missed only if another one has gone, if
\* the number of rows is older than the last page, or for equal times.
MissesExplained == Done /\ ~(stayed \subseteq Seen) => Ties \/ "out" \in Kinds \/ raced

\* Refuted: whoever reads to the end of a list that nobody changes has seen it.
QuietWalkSeesAll == Done /\ wrote = {} => Seen = rows

\* Refuted: the number of rows in an answer is that of the list they are from.
TotalFits == Answered => Cardinality(got[page]) <= total
=============================================================================
