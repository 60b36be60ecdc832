----------------------------- MODULE Generations -----------------------------
(***************************************************************************)
(* What an output catalog promises its readers, whatever happens while it  *)
(* is built: there is one current generation at a time; a generation       *)
(* becomes visible all at once, with every one of its metadata tables; and *)
(* the tables of a generation that has been visible never change.          *)
(***************************************************************************)
EXTENDS Naturals

CONSTANTS Ids, TableSet

VARIABLES
    generation,     \* the id readers resolve, 0 before the first publication
    store           \* [Ids -> [TableSet -> contents, {} where there is no table]]

Whole(v) == \A t \in TableSet : v[t] # {}

\* The catalog may have a generation already.
Init ==
    /\ generation \in Ids \cup {0}
    /\ \A i \in Ids : IF i = generation THEN Whole(store[i]) ELSE \A t \in TableSet : store[i][t] = {}

\* Publication, or publication again, of generation i.
Publish(i) ==
    /\ generation' = i
    /\ Whole(store'[i])
    /\ Whole(store[i]) => store'[i] = store[i]
    /\ \A j \in Ids : j # i => store'[j] = store[j]

\* Generation i joins those readers can name, and the current one stays.
Record(i) ==
    /\ UNCHANGED generation
    /\ Whole(store'[i]) /\ ~Whole(store[i])
    /\ \A j \in Ids : j # i => store'[j] = store[j]

Next == \E i \in Ids : Publish(i)

Spec == Init /\ [][Next]_<<generation, store>>

\* A catalog that can commit a generation older than the current one.
HistorySpec == Init /\ [][\E i \in Ids : Publish(i) \/ Record(i)]_<<generation, store>>
=============================================================================
