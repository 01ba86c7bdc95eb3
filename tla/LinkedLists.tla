---------------------------- MODULE LinkedLists ----------------------------
(***************************************************************************)
(* The lists that both queues of week 3 keep in memory.                    *)
(***************************************************************************)
EXTENDS Integers, FiniteSets

\* The nodes from `first` on, in the order in which `link` leads to them.  A
\* list that runs through more than `bound` nodes is cut.
ListFrom(first, link, null, bound) ==
    LET step == [a \in DOMAIN link \cup {null} |->
                    IF a = null THEN null ELSE link[a]]
        node[k \in 0 .. bound] == IF k = 0 THEN first ELSE step[node[k - 1]]
        length == Cardinality({k \in 0 .. bound - 1 : node[k] # null})
    IN  [i \in 1 .. length |-> node[i - 1]]
=============================================================================
