----------------------------- MODULE MCDirector -----------------------------
(* TLC instances of Director.                                              *)
EXTENDS Director, TLC

CONSTANTS c1, c2, t1, t2, t3

\* Every placement of the clients, and no failover.
Placements == [xray : SUBSET Client, tun : [Client -> Tunnel \cup {Nil}], fo : {Nil}, snap : {{}}]

\* c1 on Xray, staged for a failover to t1 while c2 is on t1 by choice or on t2,
\* and committed to it.  Before and after, c2 is on t3: with two slots, the way
\* back finds both taken.
Failovers ==
    LET On(xray, t, u, fo) == [xray |-> xray, tun |-> [c \in Client |-> IF c = c1 THEN t ELSE u],
                               fo |-> fo, snap |-> IF fo = Nil THEN {} ELSE {c1}]
    IN  {On({c1}, Nil, t3, Nil), On({c1}, t1, t1, t1), On({c1}, t1, t2, t1), On({}, t1, t2, t1)}

Symmetry == Permutations(Tunnel)
=============================================================================
