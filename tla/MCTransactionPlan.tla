------------------------- MODULE MCTransactionPlan -------------------------
(***************************************************************************)
(* Every graph over N names with any dependency edges between different    *)
(* units and with at most MaxOrder ordering edges, the first unit's edge   *)
(* to itself included.  An ordering edge is declared by After= when it     *)
(* does not lead to a smaller name and by Before= otherwise.  A soft       *)
(* dependency is declared by Wants= and by PartOf= alike: no plan reads    *)
(* both.  The last name may be missing.                                    *)
(***************************************************************************)
EXTENDS TransactionPlan

MaxOrder == 3

Pairs == {p \in Units \X Units : p[1] # p[2]}

MCGraphs ==
  {[loaded |-> l,
    requires |-> [n \in Units |-> {m \in Units : n # m /\ k[<<n, m>>] = "hard"}],
    wants |-> [n \in Units |-> {m \in Units : n # m /\ k[<<n, m>>] = "soft"}],
    partOf |-> [n \in Units |-> {m \in Units : n # m /\ k[<<n, m>>] = "soft"}],
    after |-> [n \in Units |-> {m \in Units : m >= n /\ <<n, m>> \in o}],
    before |-> [n \in Units |-> {m \in Units : m > n /\ <<m, n>> \in o}]] :
   l \in {Units, Units \ {N}},
   k \in [Pairs -> {"none", "soft", "hard"}],
   o \in UNION {kSubset(i, Pairs \cup {<<1, 1>>}) : i \in 0..MaxOrder}}
=============================================================================
