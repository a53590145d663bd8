----------------------------- MODULE KeyedStore -----------------------------
(***************************************************************************)
(* What a sink of keyed documents promises: a key is bound to a document   *)
(* once, to the whole of it, and a bound document changes in one way only: *)
(* something is taken out of it, or the key is set free again.             *)
(***************************************************************************)
CONSTANT Documents     \* records with a key, a source, nodes and relations

VARIABLE store         \* a function from the bound keys to documents

Init == store = << >>

Put(e) ==
    /\ e.key \notin DOMAIN store
    /\ store' = [k \in DOMAIN store \union {e.key} |->
                    IF k = e.key THEN e ELSE store[k]]

\* d is what is left of e when some nodes, and what hangs on them, are gone.
Reduces(d, e) ==
    /\ d.key = e.key /\ d.source = e.source /\ d.stamp = e.stamp
    /\ d.nodes \subseteq e.nodes /\ d.nodes # e.nodes
    /\ d.relations \subseteq e.relations

Redact(k) ==
    /\ DOMAIN store' = DOMAIN store
    /\ Reduces(store'[k], store[k])
    /\ \A j \in DOMAIN store \ {k} : store'[j] = store[j]

Free(k) == store' = [j \in DOMAIN store \ {k} |-> store[j]]

Next == \/ \E e \in Documents : Put(e)
        \/ \E k \in DOMAIN store : Redact(k) \/ Free(k)

Spec == Init /\ [][Next]_store
=============================================================================
