-------------------------------- MODULE MCCart --------------------------------
(***************************************************************************)
(* Alice adds the same product twice while somebody looks at it; it has    *)
(* one piece or none.                                                      *)
(***************************************************************************)
EXTENDS Cart, TLC

CONSTANTS alice, p1, a1, a2, b1, detail

MCUsers == {alice}
MCAdds == {a1, a2}
MCBy == [a \in MCAdds |-> alice]
MCProduct == [a \in MCAdds |-> p1]
MCQuantity == [a \in MCAdds |-> 1]
MCShows == detail :> {p1}
MCTtl == detail :> 1
MCDetail == p1 :> detail
MCStock == p1 :> 1
\* Both POSTs are alike.
MCSymmetry == Permutations(MCAdds)

MCReaders == MCAdds \union {b1}
=============================================================================
