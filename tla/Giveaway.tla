------------------------------ MODULE Giveaway ------------------------------
(***************************************************************************)
(* What giving out FCFS coupons promises those who ask.  A coupon is given *)
(* in one indivisible step, to a user who has none of that kind and, as    *)
(* long as nothing has gone wrong, only while there is one left.  Each     *)
(* call gets one reply, and what it says is so at the moment it is given.  *)
(*                                                                         *)
(* CouponIssue.tla, with Redis, its lock and MySQL apart, is shown to      *)
(* implement this module.                                                  *)
(***************************************************************************)
EXTENDS Integers, FiniteSets

CONSTANTS
    Calls, Fcfs,
    By,             \* By[c]: the user who asks in call c
    For,            \* For[c]: the FCFS coupon it asks for
    CouponOf,       \* CouponOf[f]: the Coupon f gives out
    Quantity        \* Quantity[f]: how many there are

VARIABLES
    rows,           \* coupons given out
    reply,          \* reply[c]: what call c was told
    faults          \* how often something has failed, or a lock has run out

giveawayVars == <<rows, reply, faults>>

Refusals == {"unavailable", "duplicate", "empty", "busy"}

GiveawayInit == rows = {} /\ reply = [c \in Calls |-> "none"] /\ faults = 0

Of(c) == {r \in rows : r.user = By[c] /\ r.coupon = CouponOf[For[c]]}
From(c) == {r \in rows : r.call = c}
Given(f) == {r.user : r \in {q \in rows : q.fcfs = f}}

Row(c) == [user |-> By[c], coupon |-> CouponOf[For[c]], status |-> "AVAILABLE",
           fcfs |-> For[c], call |-> c]

Give(c) ==
    /\ reply[c] = "none" /\ Of(c) = {}
    /\ faults = 0 => Cardinality(Given(For[c])) < Quantity[For[c]]
    /\ rows' = rows \union {Row(c)}

\* When the reason a of a call's reply is true.
IsSo(c, a) ==
    CASE a = "ok" -> From(c) # {}
      [] a = "broken" -> faults > 0
      [] a \in Refusals ->
             /\ From(c) = {}
             /\ a = "duplicate" => Of(c) # {}
             /\ a = "empty" => Cardinality(Given(For[c])) >= Quantity[For[c]]

Reply(c, a) ==
    /\ reply[c] = "none" /\ reply' = [reply EXCEPT ![c] = a]
    /\ IsSo(c, a)
    /\ UNCHANGED <<rows, faults>>

Spend(r) ==
    /\ r.status = "AVAILABLE"
    /\ rows' = (rows \ {r}) \union {[r EXCEPT !.status = "USED"]}
    /\ UNCHANGED <<reply, faults>>

\* Some calls break, or one that breaks has given the coupon nevertheless.
Fault ==
    /\ faults' = faults + 1
    /\ \/ /\ UNCHANGED rows
          /\ \E broken \in SUBSET {c \in Calls : reply[c] = "none"} :
                reply' = [c \in Calls |-> IF c \in broken THEN "broken" ELSE reply[c]]
       \/ UNCHANGED reply /\ \E c \in Calls : Give(c)

\* That a reply has changed is asked before which one it is.
GiveawayNext ==
    \/ Fault
    \/ \E c \in Calls : Give(c) /\ UNCHANGED <<reply, faults>>
    \/ /\ reply' # reply
       /\ \E c \in Calls, a \in Refusals \union {"ok", "broken"} : Reply(c, a)
    \/ \E r \in rows : Spend(r)

GiveawaySpec == GiveawayInit /\ [][GiveawayNext]_giveawayVars
=============================================================================
