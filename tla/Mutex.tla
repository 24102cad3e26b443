------------------------------- MODULE Mutex -------------------------------
(***************************************************************************)
(* What RedisRedlock promises the code between acquireLock and releaseLock *)
(* of one resource: nobody else is there, until its time has run out.      *)
(***************************************************************************)
CONSTANT Callers

VARIABLE place      \* place[c]: "before", "inside" or "after" the lock

Init == place = [c \in Callers |-> "before"]

Enter(c) ==
    /\ place[c] = "before"
    /\ \A d \in Callers : place[d] # "inside"
    /\ place' = [place EXCEPT ![c] = "inside"]

\* By releasing it, by the end of its time, or without ever having had it.
Leave(c) == place[c] # "after" /\ place' = [place EXCEPT ![c] = "after"]

Next == \E c \in Callers : Enter(c) \/ Leave(c)

Spec == Init /\ [][Next]_place
=============================================================================
